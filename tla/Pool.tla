-------------------------------- MODULE Pool --------------------------------
(***************************************************************************)
(* What src/proxy.rs promises those who borrow from it, without mutexes,   *)
(* ages or failures: a pool that lends each known proxy to one user at a   *)
(* time, gets each of them back or forgets it, and never forgets the last  *)
(* one it knows.                                                           *)
(***************************************************************************)
EXTENDS Integers, FiniteSets

CONSTANTS Proxies, Users,
          Quota  \* the most a user borrows at a time

VARIABLES known, free, lent
vars == <<known, free, lent>>

Init ==
  /\ known \in SUBSET Proxies /\ free = known
  /\ lent = [u \in Users |-> {}]

\* Only to a user who has returned everything.
Lend(u) ==
  /\ lent[u] = {}
  /\ \E S \in SUBSET free :
       /\ Cardinality(S) <= Quota[u]
       /\ free' = free \ S
       /\ lent' = [lent EXCEPT ![u] = S]
  /\ UNCHANGED known

TakeBack(u, p) ==
  /\ p \in lent[u]
  /\ lent' = [lent EXCEPT ![u] = @ \ {p}]
  /\ free' = free \cup {p}
  /\ UNCHANGED known

\* A proxy that came back bad is not lent again, but it is never the last one.
Forget(u, p) ==
  /\ p \in lent[u]
  /\ lent' = [lent EXCEPT ![u] = @ \ {p}]
  /\ known' = known \ {p} /\ known' # {}
  /\ UNCHANGED free

Learn ==
  /\ \E new \in SUBSET (Proxies \ known) :
       /\ known' = known \cup new
       /\ free' = free \cup new
  /\ UNCHANGED lent

Next ==
  \/ Learn
  \/ \E u \in Users :
       Lend(u) \/ \E p \in lent[u] : TakeBack(u, p) \/ Forget(u, p)

Spec == Init /\ [][Next]_vars
=============================================================================
