---------------------------- MODULE ProxyManager ----------------------------
(***************************************************************************)
(* The pool of HTTP proxies of src/proxy.rs.  Two threads use it: the      *)
(* mining manager claims coins through borrowed proxies, the last-coin     *)
(* thread polls through them and once a minute reads new ones from a file  *)
(* that somebody else writes.  A borrowed proxy comes back when its        *)
(* ProxyReturnWrapper is dropped, and return_client either puts it back or *)
(* forgets it.                                                             *)
(*                                                                         *)
(* Each mutex is a variable, so that the order in which they are taken is  *)
(* part of the model; stat_timer is left out, it is only ever taken while  *)
(* proxies is held and nothing is taken under it.  Latencies rank the      *)
(* proxies but any of them may be picked, hence any subset is.  Time is    *)
(* counted in units of the two ages the code compares with.                *)
(***************************************************************************)
EXTENDS Integers, FiniteSets

CONSTANTS
  Proxies,   \* the lines the proxy file may hold
  Threads,
  Reader,    \* the last-coin thread, which also reads the file
  Quota,     \* how many clients each thread asks for: 6 to claim, 8 to poll
  None,
  KeepAge,   \* 60 s without any success: the network is down, drop nothing
  BadAge,    \* 600 s without a success make a proxy bad ...
  MaxFails,  \* ... if it also failed more than 100 times in a row
  MaxTime    \* end of the modelled time

ASSUME ConstantsAssumption ==
  /\ IsFiniteSet(Proxies)
  /\ Reader \in Threads /\ Quota \in [Threads -> Nat]
  /\ None \notin Threads /\ None \notin Proxies
  /\ KeepAge \in Nat /\ BadAge \in Nat /\ KeepAge < BadAge
  /\ MaxFails \in Nat /\ MaxTime \in Nat

VARIABLES
  now,
  \* The ProxyManager.
  pool,         \* proxies: the heap
  urls,         \* proxy_urls
  global_last,  \* last_success
  \* Each ProxyClient.
  last_success, fail_count,
  \* The mutexes of last_success, proxies and proxy_urls: who holds them.
  lastLock, poolLock, urlsLock,
  \* Each thread.
  at,           \* where it stands
  held,         \* the wrappers it has not dropped yet
  using,        \* the one it accesses or returns
  more,         \* "yes" while its loop over the wrappers goes on
  \* The proxy file.
  file

clientVars == <<last_success, fail_count>>
lockVars   == <<lastLock, poolLock, urlsLock>>
threadVars == <<at, held, using, more>>
vars == <<now, pool, urls, global_last, clientVars, lockVars, threadVars, file>>

Places == {"idle", "loop", "ask", "back", "keep", "drop", "urls", "scan", "truncate"}

TypeOK ==
  /\ now \in 0..MaxTime /\ global_last \in 0..MaxTime
  /\ pool \subseteq Proxies /\ urls \subseteq Proxies /\ file \subseteq Proxies
  /\ last_success \in [Proxies -> 0..MaxTime]
  /\ fail_count \in [Proxies -> 0..MaxFails + 1]
  /\ lastLock \in Threads \cup {None}
  /\ poolLock \in Threads \cup {None}
  /\ urlsLock \in Threads \cup {None}
  /\ at \in [Threads -> Places]
  /\ held \in [Threads -> SUBSET Proxies]
  /\ using \in [Threads -> Proxies \cup {None}]
  /\ more \in [Threads -> {"yes", "no"}]

\* ProxyManager::new reads the file before any thread starts.
Init ==
  /\ now = 0 /\ global_last = 0
  /\ pool \in SUBSET Proxies /\ urls = pool
  /\ last_success = [p \in Proxies |-> 0] /\ fail_count = [p \in Proxies |-> 0]
  /\ lastLock = None /\ poolLock = None /\ urlsLock = None
  /\ at = [t \in Threads |-> "idle"]
  /\ held = [t \in Threads |-> {}]
  /\ using = [t \in Threads |-> None]
  /\ more = [t \in Threads |-> "no"]
  /\ file = {}

Goto(t, from, to) == at[t] = from /\ at' = [at EXCEPT ![t] = to]

-----------------------------------------------------------------------------
(***************************************************************************)
(* Borrowing.                                                              *)
(***************************************************************************)

\* get_clients(n) takes n clients out of the heap, or all when it has fewer.
GetClients(t) ==
  /\ Goto(t, "idle", "loop")
  /\ poolLock = None
  /\ \E S \in SUBSET pool :
       /\ Cardinality(S) = Quota[t] \/ (S = pool /\ Cardinality(S) < Quota[t])
       /\ pool' = pool \ S
       /\ held' = [held EXCEPT ![t] = S]
  /\ more' = [more EXCEPT ![t] = "yes"]
  /\ UNCHANGED <<now, urls, global_last, clientVars, lockVars, using, file>>

\* The loop takes the next wrapper and accesses its client ...
Access(t) ==
  /\ Goto(t, "loop", "ask")
  /\ more[t] = "yes"
  /\ \E p \in held[t] : using' = [using EXCEPT ![t] = p]
  /\ UNCHANGED <<now, pool, urls, global_last, clientVars, lockVars, held, more, file>>

\* ... and the guard is dropped, as a success or not; either may end the loop.
Succeed(t) ==
  /\ Goto(t, "ask", "back")
  /\ last_success' = [last_success EXCEPT ![using[t]] = now]
  /\ fail_count' = [fail_count EXCEPT ![using[t]] = 0]
  /\ \E m \in {"yes", "no"} : more' = [more EXCEPT ![t] = m]
  /\ UNCHANGED <<now, pool, urls, global_last, lockVars, held, using, file>>

Fail(t) ==
  /\ Goto(t, "ask", "back")
  /\ fail_count' = [fail_count EXCEPT ![using[t]] = IF @ > MaxFails THEN @ ELSE @ + 1]
  /\ \E m \in {"yes", "no"} : more' = [more EXCEPT ![t] = m]
  /\ UNCHANGED <<now, pool, urls, global_last, last_success, lockVars, held, using, file>>

\* After a break or a return the remaining wrappers are dropped unused.
DropUnused(t) ==
  /\ Goto(t, "loop", "back")
  /\ more[t] = "no"
  /\ \E p \in held[t] : using' = [using EXCEPT ![t] = p]
  /\ UNCHANGED <<now, pool, urls, global_last, clientVars, lockVars, held, more, file>>

EndLoop(t) ==
  /\ Goto(t, "loop", "idle")
  /\ held[t] = {}
  /\ UNCHANGED <<now, pool, urls, global_last, clientVars, lockVars, held, using, more,
                 file>>

-----------------------------------------------------------------------------
(***************************************************************************)
(* return_client.                                                          *)
(***************************************************************************)
\* Mutant: an outage of the network is not considered.
NoOutage(last) == FALSE
Outage(last) == now - last > KeepAge

Bad(p) == fail_count[p] > MaxFails /\ now - last_success[p] > BadAge

\* It locks last_success for all of its body and judges the client.
Judge(t) ==
  LET p == using[t]
  IN  /\ at[t] = "back"
      /\ lastLock = None /\ lastLock' = t
      /\ global_last' = IF last_success[p] > global_last THEN last_success[p]
                        ELSE global_last
      /\ Goto(t, "back", IF ~Bad(p) \/ Outage(global_last') THEN "keep"
                         ELSE "drop")
      /\ UNCHANGED <<now, pool, urls, clientVars, poolLock, urlsLock, held, using, more,
                     file>>

Returned(t) ==
  /\ lastLock' = None
  /\ held' = [held EXCEPT ![t] = @ \ {using[t]}]
  /\ using' = [using EXCEPT ![t] = None]
  /\ UNCHANGED <<now, global_last, clientVars, poolLock, urlsLock, more, file>>

\* Under the lock of proxies ...
Keep(t) ==
  /\ Goto(t, "keep", "loop")
  /\ poolLock = None
  /\ pool' = pool \cup {using[t]}
  /\ Returned(t)
  /\ UNCHANGED urls

\* ... or under the lock of proxy_urls.
DropProxy(t) ==
  /\ Goto(t, "drop", "loop")
  /\ urlsLock = None
  /\ urls' = urls \ {using[t]}
  /\ Returned(t)
  /\ UNCHANGED pool

-----------------------------------------------------------------------------
(***************************************************************************)
(* read_new_proxies.                                                       *)
(***************************************************************************)
LockPool(t) ==
  /\ t = Reader
  /\ Goto(t, "idle", "urls")
  /\ poolLock = None /\ poolLock' = t
  /\ UNCHANGED <<now, pool, urls, global_last, clientVars, lastLock, urlsLock, held, using,
                 more, file>>

LockUrls(t) ==
  /\ Goto(t, "urls", "scan")
  /\ urlsLock = None /\ urlsLock' = t
  /\ UNCHANGED <<now, pool, urls, global_last, clientVars, lastLock, poolLock, held, using,
                 more, file>>

\* Both guards end with the function.  Mutant: that of proxies is kept.
UnlockUrls == urlsLock' = None /\ UNCHANGED poolLock
Unlock == poolLock' = None /\ urlsLock' = None

\* The lines to make clients of.  Mutant: only the heap is searched for them.
NotInPool == file \ pool
NewLines == file \ urls

\* When a client is made it counts as having just succeeded.  Mutant: it is
\* given the long age to prove itself.
AfterProbation == now + BadAge
CreatedAt == now

\* The lines that are not known yet and parse become clients.  An I/O error
\* leaves the function with some of them added.
Scan(t) ==
  /\ \/ Goto(t, "scan", "truncate") /\ UNCHANGED lockVars
     \/ Goto(t, "scan", "idle") /\ Unlock /\ UNCHANGED lastLock
  /\ \E new \in SUBSET NewLines :
       /\ pool' = pool \cup new
       /\ urls' = urls \cup new
       /\ last_success' = [p \in Proxies |-> IF p \in new THEN CreatedAt ELSE last_success[p]]
       /\ fail_count' = [p \in Proxies |-> IF p \in new THEN 0 ELSE fail_count[p]]
  /\ UNCHANGED <<now, global_last, held, using, more, file>>

\* The file is emptied, with whatever was written to it since the scan.
Truncate(t) ==
  /\ Goto(t, "truncate", "idle")
  /\ file' = {}
  /\ Unlock
  /\ UNCHANGED <<now, pool, urls, global_last, clientVars, lastLock, held, using, more>>

-----------------------------------------------------------------------------
\* Somebody adds a line to the proxy file.
WriteFile ==
  /\ \E p \in Proxies \ file : file' = file \cup {p}
  /\ UNCHANGED <<now, pool, urls, global_last, clientVars, lockVars, threadVars>>

Tick ==
  /\ now < MaxTime
  /\ now' = now + 1
  /\ UNCHANGED <<pool, urls, global_last, clientVars, lockVars, threadVars, file>>

Thread(t) ==
  \/ GetClients(t) \/ Access(t) \/ Succeed(t) \/ Fail(t) \/ DropUnused(t) \/ EndLoop(t)
  \/ Judge(t) \/ Keep(t) \/ DropProxy(t)
  \/ LockPool(t) \/ LockUrls(t) \/ Scan(t) \/ Truncate(t)

Next == WriteFile \/ Tick \/ \E t \in Threads : Thread(t)

Spec == Init /\ [][Next]_vars

-----------------------------------------------------------------------------
(***************************************************************************)
(* Safety.                                                                 *)
(***************************************************************************)

\* Every known proxy is in exactly one place: in the heap or with one thread,
\* and nothing else is: none is lost between threads, none is in use twice.
Accounted ==
  /\ urls = pool \cup UNION {held[t] : t \in Threads}
  /\ \A t \in Threads : held[t] \cap pool = {}
  /\ \A t, u \in Threads : t # u => held[t] \cap held[u] = {}

\* "drops dead proxies so there is no need to manually filter out the bad ones":
\* a proxy is forgotten only while one is known that has worked for longer by at
\* least the difference of the two ages, wherever that one is at the time, so
\* that an outage never empties the pool.
DropsOnlyOutlived ==
  [][\A q \in urls \ urls' :
       \E p \in urls' : last_success[p] > last_success[q] + (BadAge - KeepAge)]_vars

\* For those who borrow, all of this is a pool that lends each known proxy to one
\* of them at a time, in one step, and never runs out by forgetting: locks held
\* over several steps, judging and returning in two of them and a file read in
\* between change nothing about that.
ProxyPool == INSTANCE Pool WITH Users <- Threads, known <- urls, free <- pool, lent <- held
ImplementsPool == ProxyPool!Spec

\* The mutex t would take next is held by u.
WaitsFor(t, u) ==
  \/ at[t] = "back" /\ lastLock = u
  \/ at[t] \in {"idle", "keep"} /\ poolLock = u
  \/ at[t] \in {"drop", "urls"} /\ urlsLock = u

\* The three mutexes are taken inside each other by several threads, and a Rust
\* mutex also blocks the thread that holds it: no threads ever wait for one
\* another in a circle, nor one for itself.
NoCircularWait ==
  \A S \in SUBSET Threads :
    S # {} => \E t \in S : \A u \in S : ~WaitsFor(t, u)
=============================================================================
