------------------------- MODULE ProxyManagerProofs -------------------------
(***************************************************************************)
(* Proofs about ProxyManager, for any proxies, threads, quotas and ages.   *)
(***************************************************************************)
EXTENDS ProxyManager, FiniteSetTheorems, TLAPS

\* A thread in the middle of something holds the proxy it works on.
Holding ==
  \A t \in Threads :
    /\ at[t] \in {"ask", "back", "keep", "drop"} => using[t] \in held[t]
    /\ at[t] \in {"idle", "urls", "scan", "truncate"} => held[t] = {}

\* No success lies in the future.
Past == global_last <= now /\ \A p \in Proxies : last_success[p] <= now

\* A proxy about to be forgotten is far behind the most recent success.
Judged ==
  \A t \in Threads :
    at[t] = "drop" => last_success[using[t]] + (BadAge - KeepAge) < global_last

\* The most recent success known to the manager is that of a known proxy,
\* unless none has had one since the manager began.
SomeFresh ==
  urls # {} => \E p \in urls : last_success[p] >= global_last

Inv == TypeOK /\ Accounted /\ Holding /\ Past /\ Judged /\ SomeFresh

-----------------------------------------------------------------------------
\* The invariant holds initially.
LEMMA InvInit == Init => Inv
<1> SUFFICES ASSUME Init PROVE Inv
  OBVIOUS
<1>1. TypeOK
  BY ConstantsAssumption DEF Init, TypeOK, Places
<1>2. Accounted /\ Holding
  BY DEF Init, Accounted, Holding
<1>3. Past /\ Judged /\ SomeFresh
  BY DEF Init, Past, Judged, SomeFresh
<1> QED BY <1>1, <1>2, <1>3 DEF Inv

\* A proxy that a thread holds is known and no other thread holds it.
LEMMA HeldKnown ==
  ASSUME Inv, NEW t \in Threads, at[t] \in {"ask", "back", "keep", "drop"}
  PROVE  /\ using[t] \in Proxies /\ using[t] \in held[t] /\ using[t] \in urls
         /\ using[t] \notin pool
         /\ \A u \in Threads \ {t} : using[t] \notin held[u]
BY DEF Inv, TypeOK, Holding, Accounted

\* A time more than the long age ago lies further back than one at most the
\* short age ago.
LEMMA AgeGap ==
  ASSUME NEW n \in Nat, NEW l \in Nat, NEW g \in Nat, NEW short \in Nat, NEW long \in Nat,
         n - l > long, ~(n - g > short)
  PROVE  l + (long - short) < g
BY SMT

\* Each step of a thread keeps it.
LEMMA InvThread ==
  ASSUME Inv, NEW t \in Threads, Thread(t)
  PROVE  Inv'
<1> USE DEF clientVars, lockVars, threadVars, Goto
<1>0. TypeOK /\ Accounted /\ Holding /\ Past /\ Judged /\ SomeFresh
  BY DEF Inv
<1>1. CASE GetClients(t)
  <2>1. PICK S \in SUBSET pool : pool' = pool \ S /\ held' = [held EXCEPT ![t] = S]
    BY <1>1 DEF GetClients
  <2>2. held[t] = {}
    BY <1>0, <1>1 DEF GetClients, Holding
  <2>3. TypeOK'
    BY <1>0, <1>1, <2>1 DEF GetClients, TypeOK, Places
  <2>4. Accounted'
    BY <1>0, <1>1, <2>1, <2>2 DEF GetClients, Accounted, TypeOK
  <2>5. (Holding /\ Past /\ Judged /\ SomeFresh)'
    BY <1>0, <1>1, <2>1
       DEF GetClients, Holding, Past, Judged, SomeFresh, TypeOK
  <2> QED BY <2>3, <2>4, <2>5 DEF Inv
<1>2. CASE Access(t) \/ DropUnused(t)
  <2>1. \E p \in held[t] : using' = [using EXCEPT ![t] = p]
    BY <1>2 DEF Access, DropUnused
  <2>2. TypeOK'
    BY <1>0, <1>2, <2>1 DEF Access, DropUnused, TypeOK, Places
  <2>3. Accounted'
    BY <1>0, <1>2 DEF Access, DropUnused, Accounted
  <2>4. Holding'
    BY <1>0, <1>2, <2>1 DEF Access, DropUnused, Holding, TypeOK
  <2>5. (Past /\ Judged /\ SomeFresh)'
    BY <1>0, <1>2, <2>1 DEF Access, DropUnused, Past, Judged, SomeFresh, TypeOK
  <2> QED BY <2>2, <2>3, <2>4, <2>5 DEF Inv
<1>3. CASE Succeed(t)
  <2>1. /\ using[t] \in Proxies /\ using[t] \in held[t] /\ using[t] \in urls
        /\ \A u \in Threads \ {t} : using[t] \notin held[u]
    BY <1>3, HeldKnown DEF Succeed
  <2>2. TypeOK'
    BY <1>0, <1>3, <2>1, ConstantsAssumption DEF Succeed, TypeOK, Places
  <2>3. (Accounted /\ Holding)'
    BY <1>0, <1>3 DEF Succeed, Accounted, Holding, TypeOK
  <2>4. \A p \in Proxies : last_success'[p] = IF p = using[t] THEN now ELSE last_success[p]
    BY <1>0, <1>3 DEF Succeed, TypeOK
  <2>5. Past'
    BY <1>0, <1>3, <2>4 DEF Succeed, Past, TypeOK
  <2>6. Judged'
    <3>1. ASSUME NEW u \in Threads, at'[u] = "drop"
          PROVE  last_success'[using'[u]] + (BadAge - KeepAge) < global_last'
      <4>1. u # t /\ at[u] = "drop" /\ using' = using /\ global_last' = global_last
        BY <1>0, <1>3, <3>1 DEF Succeed, TypeOK
      <4>2. using[u] \in held[u] /\ using[u] \in Proxies
        BY <4>1, HeldKnown
      <4>3. using[u] # using[t]
        BY <2>1, <4>1, <4>2
      <4> QED BY <1>0, <2>4, <4>1, <4>2, <4>3 DEF Judged
    <3> QED BY <3>1 DEF Judged
  <2>7. SomeFresh'
    BY <1>0, <1>3, <2>1, <2>4 DEF Succeed, SomeFresh, Past, TypeOK
  <2> QED BY <2>2, <2>3, <2>5, <2>6, <2>7 DEF Inv
<1>4. CASE Fail(t)
  <2>1. using[t] \in Proxies
    BY <1>4, HeldKnown DEF Fail
  <2>2. TypeOK'
    <3>1. fail_count' \in [Proxies -> 0..MaxFails + 1]
      BY <1>0, <1>4, <2>1, ConstantsAssumption DEF Fail, TypeOK
    <3> QED BY <1>0, <1>4, <3>1 DEF Fail, TypeOK, Places
  <2>3. (Accounted /\ Holding)'
    BY <1>0, <1>4 DEF Fail, Accounted, Holding, TypeOK
  <2>4. (Past /\ Judged /\ SomeFresh)'
    BY <1>0, <1>4 DEF Fail, Past, Judged, SomeFresh, TypeOK
  <2> QED BY <2>2, <2>3, <2>4 DEF Inv
<1>5. CASE EndLoop(t)
  <2>1. TypeOK'
    BY <1>0, <1>5 DEF EndLoop, TypeOK, Places
  <2>2. (Accounted /\ Holding)'
    BY <1>0, <1>5 DEF EndLoop, Accounted, Holding, TypeOK
  <2>3. (Past /\ Judged /\ SomeFresh)'
    BY <1>0, <1>5 DEF EndLoop, Past, Judged, SomeFresh, TypeOK
  <2> QED BY <2>1, <2>2, <2>3 DEF Inv
<1>6. CASE Judge(t)
  <2> DEFINE p == using[t]
  <2>1. p \in Proxies /\ p \in held[t] /\ p \in urls
    BY <1>6, HeldKnown DEF Judge, Outage
  <2>2. /\ global_last' = IF last_success[p] > global_last THEN last_success[p]
                          ELSE global_last
        /\ at[t] = "back"
        /\ at' = [at EXCEPT ![t] = IF ~Bad(p) \/ now - global_last' > KeepAge
                                   THEN "keep" ELSE "drop"]
    BY <1>6 DEF Judge, Outage
  <2>3. /\ now \in Nat /\ global_last \in Nat /\ last_success[p] \in Nat
        /\ global_last' \in Nat /\ global_last' >= global_last
        /\ global_last' >= last_success[p]
    BY <1>0, <2>1, <2>2, ConstantsAssumption DEF TypeOK
  <2> HIDE DEF p
  <2>4. TypeOK'
    BY <1>0, <1>6, <2>1, <2>2 DEF Judge, Outage, TypeOK, Places
  <2>5. (Accounted /\ Holding)'
    BY <1>0, <1>6, <2>1, <2>2 DEF Judge, Outage, Accounted, Holding, TypeOK, p
  <2>6. Past'
    BY <1>0, <1>6, <2>1, <2>2 DEF Judge, Outage, Past, TypeOK
  <2>7. Judged'
    <3>1. ASSUME NEW u \in Threads, at'[u] = "drop"
          PROVE  last_success'[using'[u]] + (BadAge - KeepAge) < global_last'
      <4>1. using' = using /\ last_success' = last_success
        BY <1>6 DEF Judge, Outage
      <4>2. CASE u = t
        <5>1. Bad(p) /\ ~(now - global_last' > KeepAge)
          BY <1>0, <2>2, <3>1, <4>2 DEF TypeOK
        <5>2. now - last_success[p] > BadAge
          BY <5>1 DEF Bad
        <5>3. last_success[p] + (BadAge - KeepAge) < global_last'
          BY <2>3, <5>1, <5>2, AgeGap, ConstantsAssumption
        <5>4. using'[u] = p
          BY <4>1, <4>2 DEF p
        <5> QED BY <4>1, <5>3, <5>4
      <4>3. CASE u # t
        <5>1. at[u] = "drop"
          BY <1>0, <2>2, <3>1, <4>3 DEF TypeOK
        <5>2. last_success[using[u]] \in Nat
          BY <1>0, <5>1, HeldKnown DEF TypeOK
        <5>3. last_success[using[u]] + (BadAge - KeepAge) < global_last
          BY <1>0, <5>1 DEF Judged
        <5> QED BY <2>3, <4>1, <5>2, <5>3, ConstantsAssumption
      <4> QED BY <4>2, <4>3
    <3> QED BY <3>1 DEF Judged
  <2>8. SomeFresh'
    <3>1. urls' = urls /\ last_success' = last_success
      BY <1>6 DEF Judge, Outage
    <3> QED BY <1>0, <2>1, <2>2, <2>3, <3>1 DEF SomeFresh, TypeOK
  <2> QED BY <2>4, <2>5, <2>6, <2>7, <2>8 DEF Inv
<1>7. CASE Keep(t)
  <2>1. /\ using[t] \in Proxies /\ using[t] \in held[t] /\ using[t] \in urls
        /\ \A u \in Threads \ {t} : using[t] \notin held[u]
    BY <1>7, HeldKnown DEF Keep
  <2>2. TypeOK'
    BY <1>0, <1>7, <2>1 DEF Keep, Returned, TypeOK, Places
  <2>3. \A u \in Threads : held'[u] = IF u = t THEN held[t] \ {using[t]} ELSE held[u]
    BY <1>0, <1>7 DEF Keep, Returned, TypeOK
  <2>4. Accounted'
    BY <1>0, <1>7, <2>1, <2>3 DEF Keep, Returned, Accounted
  <2>5. Holding'
    BY <1>0, <1>7, <2>3 DEF Keep, Returned, Holding, TypeOK
  <2>6. (Past /\ Judged /\ SomeFresh)'
    BY <1>0, <1>7 DEF Keep, Returned, Past, Judged, SomeFresh, TypeOK
  <2> QED BY <2>2, <2>4, <2>5, <2>6 DEF Inv
<1>8. CASE DropProxy(t)
  <2>1. /\ using[t] \in Proxies /\ using[t] \in held[t] /\ using[t] \notin pool
        /\ \A u \in Threads \ {t} : using[t] \notin held[u]
    BY <1>8, HeldKnown DEF DropProxy
  <2>2. TypeOK'
    BY <1>0, <1>8, <2>1 DEF DropProxy, Returned, TypeOK, Places
  <2>3. \A u \in Threads : held'[u] = IF u = t THEN held[t] \ {using[t]} ELSE held[u]
    BY <1>0, <1>8 DEF DropProxy, Returned, TypeOK
  <2>4. Accounted'
    BY <1>0, <1>8, <2>1, <2>3 DEF DropProxy, Returned, Accounted
  <2>5. Holding'
    BY <1>0, <1>8, <2>3 DEF DropProxy, Returned, Holding, TypeOK
  <2>6. (Past /\ Judged)'
    BY <1>0, <1>8 DEF DropProxy, Returned, Past, Judged, TypeOK
  <2>7. SomeFresh'
    <3>1. last_success[using[t]] + (BadAge - KeepAge) < global_last
      BY <1>0, <1>8 DEF DropProxy, Judged
    <3>2. last_success[using[t]] < global_last
      BY <1>0, <2>1, <3>1, ConstantsAssumption DEF TypeOK
    <3>3. /\ urls' = urls \ {using[t]}
          /\ last_success' = last_success /\ global_last' = global_last
      BY <1>8 DEF DropProxy, Returned
    <3> QED BY <1>0, <2>1, <3>2, <3>3 DEF SomeFresh, TypeOK
  <2> QED BY <2>2, <2>4, <2>5, <2>6, <2>7 DEF Inv
<1>9. CASE LockPool(t) \/ LockUrls(t)
  <2>1. TypeOK'
    BY <1>0, <1>9 DEF LockPool, LockUrls, TypeOK, Places
  <2>2. (Accounted /\ Holding)'
    BY <1>0, <1>9 DEF LockPool, LockUrls, Accounted, Holding, TypeOK
  <2>3. (Past /\ Judged /\ SomeFresh)'
    BY <1>0, <1>9 DEF LockPool, LockUrls, Past, Judged, SomeFresh, TypeOK
  <2> QED BY <2>1, <2>2, <2>3 DEF Inv
<1>10. CASE Scan(t)
  <2>1. PICK new \in SUBSET (file \ urls) :
          /\ pool' = pool \cup new
          /\ urls' = urls \cup new
          /\ last_success' = [p \in Proxies |-> IF p \in new THEN now ELSE last_success[p]]
          /\ fail_count' = [p \in Proxies |-> IF p \in new THEN 0 ELSE fail_count[p]]
    BY <1>10 DEF Scan, NewLines, CreatedAt
  <2>2. at[t] = "scan" /\ at' \in {[at EXCEPT ![t] = "truncate"], [at EXCEPT ![t] = "idle"]}
    BY <1>10 DEF Scan, NewLines, CreatedAt
  <2>3. TypeOK'
    BY <1>0, <1>10, <2>1, <2>2, ConstantsAssumption DEF Scan, NewLines, CreatedAt, Unlock, TypeOK, Places
  <2>4. Accounted'
    BY <1>0, <1>10, <2>1 DEF Scan, NewLines, CreatedAt, Accounted
  <2>5. (Holding /\ Past)'
    BY <1>0, <1>10, <2>1, <2>2 DEF Scan, NewLines, CreatedAt, Holding, Past, TypeOK
  <2>6. Judged'
    <3>1. ASSUME NEW u \in Threads, at'[u] = "drop"
          PROVE  last_success'[using'[u]] + (BadAge - KeepAge) < global_last'
      <4>1. at[u] = "drop" /\ using' = using /\ global_last' = global_last
        BY <1>0, <1>10, <2>2, <3>1 DEF Scan, NewLines, CreatedAt, TypeOK
      <4>2. using[u] \in urls /\ using[u] \in Proxies
        BY <4>1, HeldKnown
      <4> QED BY <1>0, <2>1, <4>1, <4>2 DEF Judged
    <3> QED BY <3>1 DEF Judged
  <2>7. SomeFresh'
    <3>1. global_last' = global_last /\ global_last <= now
      BY <1>0, <1>10 DEF Scan, NewLines, CreatedAt, Past
    <3>2. CASE urls = {}
      BY <1>0, <2>1, <3>1, <3>2 DEF SomeFresh, TypeOK
    <3>3. CASE urls # {}
      <4>1. PICK p \in urls : last_success[p] >= global_last
        BY <1>0, <3>3 DEF SomeFresh
      <4>2. p \in urls' /\ last_success'[p] = last_success[p]
        BY <1>0, <2>1 DEF TypeOK
      <4> QED BY <3>1, <4>1, <4>2 DEF SomeFresh
    <3> QED BY <3>2, <3>3
  <2> QED BY <2>3, <2>4, <2>5, <2>6, <2>7 DEF Inv
<1>11. CASE Truncate(t)
  <2>1. TypeOK'
    BY <1>0, <1>11 DEF Truncate, Unlock, TypeOK, Places
  <2>2. (Accounted /\ Holding)'
    BY <1>0, <1>11 DEF Truncate, Accounted, Holding, TypeOK
  <2>3. (Past /\ Judged /\ SomeFresh)'
    BY <1>0, <1>11 DEF Truncate, Past, Judged, SomeFresh, TypeOK
  <2> QED BY <2>1, <2>2, <2>3 DEF Inv
<1> QED
  BY <1>1, <1>2, <1>3, <1>4, <1>5, <1>6, <1>7, <1>8, <1>9, <1>10, <1>11 DEF Thread

\* Every step keeps it.
LEMMA InvStep == Inv /\ [Next]_vars => Inv'
<1> SUFFICES ASSUME Inv, [Next]_vars PROVE Inv'
  OBVIOUS
<1> USE DEF Inv, clientVars, lockVars, threadVars
<1>1. CASE Tick
  <2>1. TypeOK'
    BY <1>1, ConstantsAssumption DEF Tick, TypeOK
  <2>2. (Accounted /\ Holding /\ Judged /\ SomeFresh)'
    BY <1>1 DEF Tick, Accounted, Holding, Judged, SomeFresh
  <2>3. Past'
    BY <1>1 DEF Tick, Past, TypeOK
  <2> QED BY <2>1, <2>2, <2>3
<1>2. CASE WriteFile \/ UNCHANGED vars
  <2>1. TypeOK'
    BY <1>2 DEF WriteFile, vars, TypeOK
  <2>2. (Accounted /\ Holding /\ Past /\ Judged /\ SomeFresh)'
    BY <1>2 DEF WriteFile, vars, Accounted, Holding, Past, Judged, SomeFresh
  <2> QED BY <2>1, <2>2
<1>3. CASE \E t \in Threads : Thread(t)
  BY <1>3, InvThread
<1> QED BY <1>1, <1>2, <1>3 DEF Next

\* Type correctness.
THEOREM ProxyTypes == Spec => []TypeOK
<1>1. Inv => TypeOK
  BY DEF Inv
<1> QED BY InvInit, InvStep, <1>1, PTL DEF Spec

\* No proxy is lost between the threads and none is in two places.
THEOREM ProxiesAccounted == Spec => []Accounted
<1>1. Inv => Accounted
  BY DEF Inv
<1> QED BY InvInit, InvStep, <1>1, PTL DEF Spec

\* A proxy is forgotten only if a known one has worked since, so that no outage
\* and no interleaving of the two threads empties the pool.
THEOREM DropsAreOutlived == Spec => DropsOnlyOutlived
<1> DEFINE Outlived ==
      \A q \in urls \ urls' :
        \E p \in urls' : last_success[p] > last_success[q] + (BadAge - KeepAge)
<1>1. Inv /\ [Next]_vars => [Outlived]_vars
  <2> SUFFICES ASSUME Inv, Next PROVE Outlived
    OBVIOUS
  <2>1. CASE \E t \in Threads : DropProxy(t)
    <3>1. PICK t \in Threads : DropProxy(t)
      BY <2>1
    <3>2. at[t] = "drop" /\ urls' = urls \ {using[t]}
      BY <3>1 DEF DropProxy, Goto
    <3>3. using[t] \in Proxies /\ using[t] \in urls
      BY <3>2, HeldKnown
    <3>4. last_success[using[t]] + (BadAge - KeepAge) < global_last
      BY <3>2 DEF Inv, Judged
    <3>5. PICK p \in urls : last_success[p] >= global_last
      BY <3>3 DEF Inv, SomeFresh
    <3>6. last_success[p] > last_success[using[t]] + (BadAge - KeepAge)
      <4>1. /\ last_success[p] \in Nat /\ last_success[using[t]] \in Nat
            /\ global_last \in Nat
        BY <3>3, <3>5 DEF Inv, TypeOK
      <4> QED BY <3>4, <3>5, <4>1, ConstantsAssumption
    <3>7. p # using[t]
      BY <3>3, <3>6, ConstantsAssumption DEF Inv, TypeOK
    <3> QED BY <3>2, <3>5, <3>6, <3>7
  <2>2. CASE ~ \E t \in Threads : DropProxy(t)
    <3>1. urls \subseteq urls'
      BY <2>2 DEF Next, Thread, WriteFile, Tick, GetClients, Access, Succeed, Fail,
         DropUnused, EndLoop, Judge, Keep, LockPool, LockUrls, Scan, Truncate
    <3> QED BY <3>1
  <2> QED BY <2>1, <2>2
<1> QED BY InvInit, InvStep, <1>1, PTL DEF Spec, DropsOnlyOutlived

-----------------------------------------------------------------------------
(***************************************************************************)
(* The abstract pool.                                                      *)
(***************************************************************************)

\* A proxy that is forgotten is not the last one known.
LEMMA NeverTheLast ==
  ASSUME Inv, NEW t \in Threads, DropProxy(t)
  PROVE  urls' # {}
<1>1. at[t] = "drop" /\ urls' = urls \ {using[t]}
  BY DEF DropProxy, Goto
<1>2. using[t] \in Proxies /\ using[t] \in urls
  BY <1>1, HeldKnown
<1>3. PICK p \in urls : last_success[p] >= global_last
  BY <1>2 DEF Inv, SomeFresh
<1>4. last_success[using[t]] + (BadAge - KeepAge) < global_last
  BY <1>1 DEF Inv, Judged
<1>5. p # using[t]
  BY <1>2, <1>3, <1>4, ConstantsAssumption DEF Inv, TypeOK
<1> QED BY <1>1, <1>3, <1>5

\* What a thread does is an operation of the abstract pool or invisible to it.
LEMMA PoolThread ==
  ASSUME Inv, NEW t \in Threads, Thread(t)
  PROVE  ProxyPool!Next \/ UNCHANGED ProxyPool!vars
<1> USE DEF ProxyPool!vars, Goto
<1>0. TypeOK /\ Holding
  BY DEF Inv
<1>1. CASE GetClients(t)
  <2>1. PICK S \in SUBSET pool :
          /\ Cardinality(S) = Quota[t] \/ (S = pool /\ Cardinality(S) < Quota[t])
          /\ pool' = pool \ S
          /\ held' = [held EXCEPT ![t] = S]
    BY <1>1 DEF GetClients
  <2>2. Cardinality(S) <= Quota[t]
    <3>1. IsFiniteSet(S)
      BY <1>0, ConstantsAssumption, FS_Subset DEF TypeOK
    <3>2. Cardinality(S) \in Nat /\ Quota[t] \in Nat
      BY <3>1, FS_CardinalityType, ConstantsAssumption
    <3> QED BY <2>1, <3>2
  <2>3. held[t] = {} /\ urls' = urls
    BY <1>0, <1>1 DEF GetClients, Holding
  <2>4. ProxyPool!Cardinality(S) = Cardinality(S)
    BY DEF Cardinality, ProxyPool!Cardinality
  <2>5. ProxyPool!Lend(t)
    BY <2>1, <2>2, <2>3, <2>4 DEF ProxyPool!Lend
  <2> QED BY <2>5 DEF ProxyPool!Next
<1>2. CASE Keep(t)
  <2>1. using[t] \in held[t]
    BY <1>2, HeldKnown DEF Keep
  <2>2. ProxyPool!TakeBack(t, using[t])
    BY <1>2, <2>1 DEF Keep, Returned, ProxyPool!TakeBack
  <2> QED BY <2>1, <2>2 DEF ProxyPool!Next
<1>3. CASE DropProxy(t)
  <2>1. using[t] \in held[t]
    BY <1>3, HeldKnown DEF DropProxy
  <2>2. ProxyPool!Forget(t, using[t])
    BY <1>3, <2>1, NeverTheLast DEF DropProxy, Returned, ProxyPool!Forget
  <2> QED BY <2>1, <2>2 DEF ProxyPool!Next
<1>4. CASE Scan(t)
  <2>1. PICK new \in SUBSET NewLines : pool' = pool \cup new /\ urls' = urls \cup new
    BY <1>4 DEF Scan
  <2>2. new \in SUBSET (Proxies \ urls) /\ held' = held
    BY <1>0, <1>4, <2>1 DEF Scan, NewLines, TypeOK
  <2>3. ProxyPool!Learn
    BY <2>1, <2>2 DEF ProxyPool!Learn
  <2> QED BY <2>3 DEF ProxyPool!Next
<1>5. CASE \/ Access(t) \/ Succeed(t) \/ Fail(t) \/ DropUnused(t) \/ EndLoop(t)
           \/ Judge(t) \/ LockPool(t) \/ LockUrls(t) \/ Truncate(t)
  BY <1>5 DEF Access, Succeed, Fail, DropUnused, EndLoop, Judge, LockPool, LockUrls, Truncate
<1> QED BY <1>1, <1>2, <1>3, <1>4, <1>5 DEF Thread

\* The proxy manager implements the abstract pool: with its mutexes, its ages and
\* a file that is read while proxies are out, it still lends each known proxy to
\* one thread at a time, in one step, and never forgets the last one.
THEOREM PoolImplemented == Spec => ImplementsPool
<1>1. Init => ProxyPool!Init
  BY DEF Init, ProxyPool!Init
<1>2. Inv /\ [Next]_vars => [ProxyPool!Next]_(ProxyPool!vars)
  <2>1. CASE WriteFile \/ Tick \/ UNCHANGED vars
    BY <2>1 DEF WriteFile, Tick, threadVars, vars, ProxyPool!vars
  <2>2. ASSUME Inv, NEW t \in Threads, Thread(t)
        PROVE  ProxyPool!Next \/ UNCHANGED ProxyPool!vars
    BY <2>2, PoolThread
  <2> QED BY <2>1, <2>2 DEF Next
<1> QED BY InvInit, InvStep, <1>1, <1>2, PTL DEF Spec, ImplementsPool, ProxyPool!Spec

-----------------------------------------------------------------------------
(***************************************************************************)
(* The mutexes.                                                            *)
(***************************************************************************)

\* Which mutexes a thread holds follows from where it stands.
LockPlaces ==
  \A t \in Threads :
    /\ lastLock = t <=> at[t] \in {"keep", "drop"}
    /\ poolLock = t <=> at[t] \in {"urls", "scan", "truncate"}
    /\ urlsLock = t <=> at[t] \in {"scan", "truncate"}

LEMMA LocksInit == Init => LockPlaces
BY ConstantsAssumption DEF Init, LockPlaces

LEMMA LocksStep ==
  ASSUME TypeOK, LockPlaces, [Next]_vars
  PROVE  LockPlaces'
<1> USE DEF clientVars, lockVars, threadVars, Goto
<1>1. CASE WriteFile \/ Tick \/ UNCHANGED vars
  BY <1>1 DEF WriteFile, Tick, vars, LockPlaces
<1>2. ASSUME NEW t \in Threads, Thread(t) PROVE LockPlaces'
  <2>1. None \notin Threads /\ at \in [Threads -> Places]
    BY ConstantsAssumption DEF TypeOK
  <2>2. CASE GetClients(t) \/ Access(t) \/ Succeed(t) \/ Fail(t) \/ DropUnused(t) \/ EndLoop(t)
    BY <2>1, <2>2
       DEF GetClients, Access, Succeed, Fail, DropUnused, EndLoop, LockPlaces
  <2>3. CASE Judge(t)
    BY <2>1, <2>3 DEF Judge, LockPlaces
  <2>4. CASE Keep(t) \/ DropProxy(t)
    BY <2>1, <2>4 DEF Keep, DropProxy, Returned, LockPlaces
  <2>5. CASE LockPool(t) \/ LockUrls(t)
    BY <2>1, <2>5 DEF LockPool, LockUrls, LockPlaces
  <2>6. CASE Scan(t) \/ Truncate(t)
    BY <2>1, <2>6 DEF Scan, Truncate, Unlock, LockPlaces
  <2> QED  BY <1>2, <2>2, <2>3, <2>4, <2>5, <2>6 DEF Thread
<1> QED  BY <1>1, <1>2 DEF Next

\* Whoever holds a mutex waits at most for one later in the order last_success,
\* proxies, proxy_urls.
LEMMA OrderedWaits == TypeOK /\ LockPlaces => NoCircularWait
<1> SUFFICES ASSUME TypeOK, LockPlaces, NEW S \in SUBSET Threads, S # {}
             PROVE  \E t \in S : \A u \in S : ~WaitsFor(t, u)
  BY DEF NoCircularWait
<1>1. \A t \in S : at[t] \in Places
  BY DEF TypeOK
<1>2. CASE \E t \in S : at[t] \in {"loop", "ask", "scan", "truncate"}
  BY <1>2 DEF WaitsFor
<1>3. CASE /\ \A t \in S : at[t] \notin {"loop", "ask", "scan", "truncate"}
           /\ \E t \in S : at[t] \in {"drop", "urls"}
  BY <1>3 DEF WaitsFor, LockPlaces
<1>4. CASE /\ \A t \in S : at[t] \in {"idle", "back", "keep"}
           /\ \E t \in S : at[t] \in {"idle", "keep"}
  BY <1>4 DEF WaitsFor, LockPlaces
<1>5. CASE \A t \in S : at[t] = "back"
  BY <1>5 DEF WaitsFor, LockPlaces
<1> QED  BY <1>1, <1>2, <1>3, <1>4, <1>5 DEF Places

\* The mutexes never deadlock, for any number of threads.
THEOREM LocksNeverCircle == Spec => []NoCircularWait
BY LocksInit, LocksStep, OrderedWaits, ProxyTypes, PTL DEF Spec
=============================================================================
