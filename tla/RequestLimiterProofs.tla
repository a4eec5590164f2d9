------------------------ MODULE RequestLimiterProofs ------------------------
(***************************************************************************)
(* The limits on direct requests, for any limits and any window.           *)
(***************************************************************************)
EXTENDS RequestLimiter, SequenceTheorems, FiniteSetTheorems, WellFoundedInduction, TLAPS

\* client_reqs holds the times of the latest requests, newest first, and what it
\* has forgotten has expired.
Suffix ==
  /\ Len(client_reqs) <= Len(log)
  /\ \A i \in 1..Len(client_reqs) : client_reqs[i] = log[Len(log) + 1 - i].at
  /\ \A i \in 1..(Len(log) - Len(client_reqs)) : Expired(log[i].at)

Ordered ==
  /\ \A i \in 1..Len(log) : log[i].at <= now
  /\ \A i, j \in 1..Len(log) : i <= j => log[i].at <= log[j].at

\* As many requests ago as its limit says, a request's window had not begun.
Spaced ==
  \A j \in 1..Len(log) :
    /\ j > CLAIM_LIMIT => log[j].at - log[j - CLAIM_LIMIT].at > Window
    /\ log[j].kind # "claim" /\ j > COIN_LIMIT =>
         log[j].at - log[j - COIN_LIMIT].at > Window

Inv == TypeOK /\ Suffix /\ Ordered /\ Spaced

-----------------------------------------------------------------------------
(***************************************************************************)
(* Sets of numbers.                                                        *)
(***************************************************************************)
LEMMA Smallest ==
  ASSUME NEW S \in SUBSET Nat, S # {}
  PROVE  \E m \in S : \A k \in S : m <= k
<1> DEFINE R == OpToRel(<, Nat)
<1>1. IsWellFoundedOn(R, Nat)
  BY NatLessThanWellFounded
<1>2. \A x, y \in Nat : <<x, y>> \in R <=> x < y
  BY DEF OpToRel
<1> HIDE DEF R
<1>3. PICK m \in S : \A k \in S : ~(<<k, m>> \in R)
  BY <1>1, WFMin
<1>4. ASSUME NEW k \in S PROVE m <= k
  <2>1. k \in Nat /\ m \in Nat
    OBVIOUS
  <2>2. ~(k < m)
    BY <1>2, <1>3, <2>1
  <2> QED  BY <2>1, <2>2
<1> QED  BY <1>4

LEMMA Largest ==
  ASSUME NEW n \in Nat, NEW S \in SUBSET (1..n), S # {}
  PROVE  \E m \in S : \A k \in S : k <= m
<1> DEFINE T == {n - k : k \in S}
<1>1. T \in SUBSET Nat /\ T # {}
  <2>1. \A k \in S : k \in 1..n
    OBVIOUS
  <2>2. \A k \in 1..n : n - k \in Nat
    OBVIOUS
  <2> QED  BY <2>1, <2>2
<1>2. PICK t \in T : \A k \in T : t <= k
  BY <1>1, Smallest
<1>3. PICK m \in S : t = n - m
  OBVIOUS
<1>4. ASSUME NEW k \in S PROVE k <= m
  <2>1. t <= n - k
    BY <1>2
  <2>2. k \in 1..n /\ m \in 1..n
    OBVIOUS
  <2> QED  BY <1>3, <2>1, <2>2
<1> QED  BY <1>4

\* A set of requests of which the latest lies less than a limit after all others
\* has no more members than the limit.
LEMMA FewIndices ==
  ASSUME NEW n \in Nat, NEW S \in SUBSET (1..n), NEW c \in Nat,
         \A j \in S : j > c => \A i \in S : i > j - c
  PROVE  Cardinality(S) <= c
<1>1. CASE S = {}
  BY <1>1, FS_EmptySet
<1>2. CASE S # {}
  <2>1. PICK m \in S : \A k \in S : k <= m
    BY <1>2, Largest
  <2>2. m \in 1..n
    OBVIOUS
  <2>3. CASE m > c
    <3>1. S \subseteq (m - c + 1)..m
      BY <2>1, <2>2, <2>3
    <3>2. c > 0
      BY <2>2, <2>3
    <3>3. IsFiniteSet((m - c + 1)..m) /\ Cardinality((m - c + 1)..m) = c
      BY <2>2, <2>3, <3>2, FS_Interval
    <3>4. Cardinality(S) <= Cardinality((m - c + 1)..m)
      BY <3>1, <3>3, FS_Subset
    <3> QED  BY <3>3, <3>4
  <2>4. CASE m <= c
    <3>1. S \subseteq 1..c
      BY <2>1, <2>2, <2>4
    <3>2. IsFiniteSet(1..c) /\ Cardinality(1..c) = c
      BY FS_Interval
    <3>3. Cardinality(S) <= Cardinality(1..c)
      BY <3>1, <3>2, FS_Subset
    <3> QED  BY <3>2, <3>3
  <2> QED  BY <2>2, <2>3, <2>4
<1> QED  BY <1>1, <1>2

-----------------------------------------------------------------------------
(***************************************************************************)
(* The check.                                                              *)
(***************************************************************************)

LEMMA LogType ==
  ASSUME TypeOK
  PROVE  \A i \in 1..Len(log) : log[i].at \in Nat /\ log[i].kind \in Kinds
<1>1. \A i \in 1..Len(log) : log[i] \in [at : 0..MaxTime, kind : Kinds]
  BY ElementOfSeq DEF TypeOK
<1> QED  BY <1>1, ConstantsAssumption

\* What is kept ends with a time that has not expired; all after it has.
LEMMA KeptType ==
  ASSUME TypeOK
  PROVE  /\ Kept \in 0..Len(client_reqs)
         /\ Kept > 0 => ~Expired(client_reqs[Kept])
         /\ \A i \in (Kept + 1)..Len(client_reqs) : Expired(client_reqs[i])
<1> DEFINE m == Len(client_reqs)
           S == {n \in 0..m : \A i \in (n + 1)..m : Expired(client_reqs[i])}
<1>1. m \in Nat
  BY DEF TypeOK
<1> HIDE DEF m
<1>2. m \in S /\ S \in SUBSET Nat
  BY <1>1
<1>3. PICK n \in S : \A k \in S : n <= k
  BY <1>2, Smallest
<1>4. n > 0 => ~Expired(client_reqs[n])
  <2> SUFFICES ASSUME n > 0, Expired(client_reqs[n]) PROVE FALSE
    OBVIOUS
  <2>1. n - 1 \in 0..m
    BY <1>1, <1>3
  <2>2. \A i \in (n - 1 + 1)..m : i = n \/ i \in (n + 1)..m
    BY <1>1, <1>3
  <2>3. n - 1 \in S
    BY <1>3, <2>1, <2>2
  <2> QED  BY <1>1, <1>3, <2>3
<1>5. n \in 0..Len(client_reqs)
      /\ \A i \in (n + 1)..Len(client_reqs) : Expired(client_reqs[i])
  BY <1>3 DEF m
<1> QED  BY <1>4, <1>5 DEF Kept

LEMMA CheckReqsType ==
  ASSUME TypeOK
  PROVE  /\ CheckReqs \in Seq(0..MaxTime)
         /\ Len(CheckReqs) = Kept
         /\ \A i \in 1..Kept : CheckReqs[i] = client_reqs[i]
<1>1. /\ client_reqs \in Seq(0..MaxTime) /\ Kept \in Int
      /\ Kept >= 0 /\ Kept <= Len(client_reqs)
  BY KeptType DEF TypeOK
<1>2. \A i \in 1..Kept : client_reqs[i] \in 0..MaxTime
  <2>1. Len(client_reqs) \in Nat
    BY <1>1
  <2>2. \A i \in 1..Kept : i \in 1..Len(client_reqs)
    BY <1>1, <2>1
  <2> QED  BY <1>1, <2>2, ElementOfSeq
<1> QED  BY <1>1, <1>2, SubSeqProperties DEF CheckReqs

\* After the check the deque splits the log at the window's beginning.
LEMMA Split ==
  ASSUME Inv
  PROVE  /\ Kept \in 0..Len(log)
         /\ \A i \in 1..Len(log) : Expired(log[i].at) <=> i <= Len(log) - Kept
<1> DEFINE m == Len(client_reqs)
           l == Len(log)
<1>1. /\ Kept \in 0..m /\ m \in Nat /\ l \in Nat /\ m <= l
      /\ Kept > 0 => ~Expired(client_reqs[Kept])
      /\ \A i \in (Kept + 1)..m : Expired(client_reqs[i])
  BY KeptType DEF Inv, TypeOK, Suffix
<1>2. /\ \A i \in 1..m : client_reqs[i] = log[l + 1 - i].at
      /\ \A i \in 1..(l - m) : Expired(log[i].at)
      /\ \A i, j \in 1..l : i <= j => log[i].at <= log[j].at
      /\ \A i \in 1..l : log[i].at \in Nat
  BY LogType DEF Inv, Suffix, Ordered
<1>3. now \in Nat /\ Window \in Nat
  BY ConstantsAssumption DEF Inv, TypeOK
<1> HIDE DEF m, l
<1>4. ASSUME NEW i \in 1..l, i <= l - Kept PROVE Expired(log[i].at)
  <2>1. CASE i <= l - m
    BY <1>1, <1>2, <2>1
  <2>2. CASE i > l - m
    <3>1. l + 1 - i \in (Kept + 1)..m
      BY <1>1, <1>4, <2>2
    <3>2. l + 1 - i \in 1..m /\ l + 1 - (l + 1 - i) = i
      BY <1>1, <3>1
    <3> QED  BY <1>1, <1>2, <3>1, <3>2
  <2> QED  BY <1>1, <2>1, <2>2
<1>5. ASSUME NEW i \in 1..l, i > l - Kept PROVE ~Expired(log[i].at)
  <2>1. Kept \in 1..m /\ l + 1 - Kept \in 1..l /\ l + 1 - Kept <= i
    BY <1>1, <1>5
  <2>2. ~Expired(log[l + 1 - Kept].at)
    BY <1>1, <1>2, <2>1
  <2>3. log[l + 1 - Kept].at <= log[i].at
    BY <1>2, <2>1
  <2> QED  BY <1>2, <1>3, <2>1, <2>2, <2>3 DEF Expired
<1>6. \A i \in 1..l : Expired(log[i].at) <=> i <= l - Kept
  BY <1>1, <1>4, <1>5
<1> QED  BY <1>1, <1>6 DEF l

LEMMA PushType ==
  ASSUME NEW q \in Seq(0..MaxTime), NEW t \in 0..MaxTime
  PROVE  /\ Push(q, t) \in Seq(0..MaxTime) /\ Len(Push(q, t)) = Len(q) + 1
         /\ Push(q, t)[1] = t
         /\ \A i \in 2..(Len(q) + 1) : Push(q, t)[i] = q[i - 1]
<1>1. <<t>> \in Seq(0..MaxTime) /\ Len(<<t>>) = 1 /\ <<t>>[1] = t
  OBVIOUS
<1> QED  BY <1>1, ConcatProperties DEF Push

-----------------------------------------------------------------------------
(***************************************************************************)
(* The steps.                                                              *)
(***************************************************************************)
LEMMA RefuseStep ==
  ASSUME Inv, client_reqs' = CheckReqs, UNCHANGED <<log, now>>, pc' \in Kinds
  PROVE  Inv'
<1>1. TypeOK /\ Suffix /\ Ordered /\ Spaced
  BY DEF Inv
<1>2. TypeOK'
  BY <1>1, CheckReqsType DEF TypeOK
<1>3. Ordered' /\ Spaced'
  BY <1>1 DEF Ordered, Spaced
<1>4. Kept \in 0..Len(client_reqs) /\ Kept \in 0..Len(log)
  BY <1>1, KeptType, Split
<1>5. Len(client_reqs') = Kept /\ \A i \in 1..Kept : client_reqs'[i] = client_reqs[i]
  BY <1>1, CheckReqsType
<1>6. \A i \in 1..Kept : client_reqs'[i] = log[Len(log) + 1 - i].at
  <2>1. Len(client_reqs) \in Nat
    BY <1>1 DEF TypeOK
  <2>2. \A i \in 1..Kept : i \in 1..Len(client_reqs)
    BY <1>4, <2>1
  <2> QED  BY <1>1, <1>5, <2>2 DEF Suffix
<1>7. \A i \in 1..(Len(log) - Kept) : Expired(log[i].at)
  BY <1>1, <1>4, Split DEF TypeOK
<1>8. Suffix'
  BY <1>4, <1>5, <1>6, <1>7 DEF Suffix, Expired
<1> QED  BY <1>2, <1>3, <1>8 DEF Inv

\* A request is sent: the deque and the log grow by the present time.
Grown(kind) ==
  /\ TypeOK' /\ now' = now
  /\ Kept < CLAIM_LIMIT /\ (kind # "claim" => Kept < COIN_LIMIT)
  /\ Len(client_reqs') = Kept + 1 /\ client_reqs'[1] = now
  /\ \A i \in 2..(Kept + 1) : client_reqs'[i] = client_reqs[i - 1]
  /\ Len(log') = Len(log) + 1 /\ log'[Len(log) + 1] = [at |-> now, kind |-> kind]
  /\ \A i \in 1..Len(log) : log'[i] = log[i]

LEMMA GrowStep ==
  ASSUME Inv, NEW kind \in Kinds, Grown(kind)
  PROVE  Inv'
<1> DEFINE l == Len(log)
           k == Kept
<1>1. TypeOK /\ Suffix /\ Ordered /\ Spaced
  BY DEF Inv
<1>2. /\ k \in 0..Len(client_reqs) /\ k \in 0..l /\ l \in Nat /\ now \in 0..MaxTime
      /\ Len(client_reqs) \in Nat
  BY <1>1, KeptType, Split DEF TypeOK
<1>4. /\ Len(client_reqs') = k + 1 /\ client_reqs'[1] = now
      /\ \A i \in 2..(k + 1) : client_reqs'[i] = client_reqs[i - 1]
  BY DEF Grown
<1>5. /\ Len(log') = l + 1 /\ log'[l + 1].at = now /\ log'[l + 1].kind = kind
      /\ \A i \in 1..l : log'[i] = log[i]
  BY DEF Grown
<1>6. \A i \in 1..(l - k) : Expired(log[i].at)
  BY <1>1, <1>2, Split DEF TypeOK
<1>7. \A i \in 1..k : client_reqs[i] = log[l + 1 - i].at
  BY <1>1, <1>2 DEF Suffix
<1>8. \A i \in 1..l : log[i].at \in Nat /\ log[i].at <= now
  BY <1>1, LogType DEF Ordered
<1>9. now \in Nat /\ CLAIM_LIMIT \in Nat /\ COIN_LIMIT \in Nat /\ Window \in Nat
  BY <1>2, ConstantsAssumption
<1>10. k < CLAIM_LIMIT /\ (kind # "claim" => k < COIN_LIMIT) /\ TypeOK' /\ now' = now
  BY DEF Grown
<1> HIDE DEF l, k
<1>12. Suffix'
  <2>1. ASSUME NEW i \in 1..(k + 1) PROVE client_reqs'[i] = log'[l + 2 - i].at
    <3>1. CASE i = 1
      BY <1>2, <1>4, <1>5, <3>1
    <3>2. CASE i # 1
      <4>1. i \in 2..(k + 1) /\ i - 1 \in 1..k /\ l + 2 - i \in 1..l
            /\ l + 1 - (i - 1) = l + 2 - i
        BY <1>2, <3>2
      <4>2. client_reqs'[i] = client_reqs[i - 1]
        BY <1>4, <4>1
      <4>3. client_reqs[i - 1] = log[l + 2 - i].at
        BY <1>7, <4>1
      <4>4. log'[l + 2 - i] = log[l + 2 - i]
        BY <1>5, <4>1
      <4> QED  BY <4>2, <4>3, <4>4
    <3> QED  BY <3>1, <3>2
  <2>2. Len(client_reqs') = k + 1 /\ Len(log') = l + 1
    BY <1>4, <1>5
  <2>3. ASSUME NEW i \in 1..(l - k) PROVE now' - log'[i].at > Window
    <3>1. i \in 1..l
      BY <1>2
    <3>2. log'[i] = log[i] /\ now - log[i].at > Window
      BY <1>5, <1>6, <3>1 DEF Expired
    <3> QED  BY <1>10, <3>2
  <2>4. Len(log') - Len(client_reqs') = l - k /\ Len(client_reqs') <= Len(log')
    BY <1>2, <2>2
  <2>5. ASSUME NEW i \in 1..(k + 1) PROVE client_reqs'[i] = log'[Len(log') + 1 - i].at
    <3>1. Len(log') + 1 - i = l + 2 - i
      BY <1>2, <2>2
    <3> QED  BY <2>1, <3>1
  <2> HIDE DEF l, k
  <2> QED  BY <2>2, <2>3, <2>4, <2>5 DEF Suffix, Expired
<1>13. Ordered'
  <2>1. \A i \in 1..(l + 1) : log'[i].at <= now
    <3>1. \A i \in 1..(l + 1) : i = l + 1 \/ i \in 1..l
      BY <1>2
    <3> QED  BY <1>5, <1>8, <1>9, <3>1
  <2>2. ASSUME NEW i \in 1..(l + 1), NEW j \in 1..(l + 1), i <= j
        PROVE  log'[i].at <= log'[j].at
    <3>1. CASE j = l + 1
      BY <1>5, <2>1, <3>1
    <3>2. CASE j # l + 1
      <4>1. i \in 1..l /\ j \in 1..l
        BY <1>2, <2>2, <3>2
      <4> QED  BY <1>1, <1>5, <2>2, <4>1 DEF Ordered, l
    <3> QED  BY <3>1, <3>2
  <2> QED  BY <1>5, <1>10, <2>1, <2>2 DEF Ordered
<1>14. Spaced'
  <2>1. ASSUME NEW j \in 1..l
        PROVE  /\ j > CLAIM_LIMIT => log'[j].at - log'[j - CLAIM_LIMIT].at > Window
               /\ log'[j].kind # "claim" /\ j > COIN_LIMIT =>
                    log'[j].at - log'[j - COIN_LIMIT].at > Window
    <3>1. /\ j > CLAIM_LIMIT => j - CLAIM_LIMIT \in 1..l
          /\ j > COIN_LIMIT => j - COIN_LIMIT \in 1..l
      BY <1>2, <1>9
    <3>2. /\ j > CLAIM_LIMIT => log[j].at - log[j - CLAIM_LIMIT].at > Window
          /\ log[j].kind # "claim" /\ j > COIN_LIMIT =>
               log[j].at - log[j - COIN_LIMIT].at > Window
      BY <1>1 DEF Spaced, l
    <3> QED  BY <1>5, <3>1, <3>2
  <2> DEFINE n == l + 1
  <2>0. /\ n = l + 1 /\ Len(log') = n /\ log'[n].at = now /\ log'[n].kind = kind
        /\ \A i \in 1..l : log'[i] = log[i]
    BY <1>5
  <2> HIDE DEF n
  <2>2. ASSUME n > CLAIM_LIMIT PROVE log'[n].at - log'[n - CLAIM_LIMIT].at > Window
    <3>1. n - CLAIM_LIMIT \in 1..(l - k) /\ n - CLAIM_LIMIT \in 1..l
      BY <1>2, <1>9, <1>10, <2>0, <2>2
    <3>2. now - log[n - CLAIM_LIMIT].at > Window
      BY <1>6, <3>1 DEF Expired
    <3>3. log'[n].at = now /\ log'[n - CLAIM_LIMIT] = log[n - CLAIM_LIMIT]
      BY <2>0, <3>1
    <3> QED  BY <3>2, <3>3
  <2>3. ASSUME kind # "claim", n > COIN_LIMIT PROVE log'[n].at - log'[n - COIN_LIMIT].at > Window
    <3>1. n - COIN_LIMIT \in 1..(l - k) /\ n - COIN_LIMIT \in 1..l
      BY <1>2, <1>9, <1>10, <2>0, <2>3
    <3>2. now - log[n - COIN_LIMIT].at > Window
      BY <1>6, <3>1 DEF Expired
    <3>3. log'[n].at = now /\ log'[n - COIN_LIMIT] = log[n - COIN_LIMIT]
      BY <2>0, <3>1
    <3> QED  BY <3>2, <3>3
  <2> DEFINE P(j) ==
        /\ j > CLAIM_LIMIT => log'[j].at - log'[j - CLAIM_LIMIT].at > Window
        /\ log'[j].kind # "claim" /\ j > COIN_LIMIT =>
             log'[j].at - log'[j - COIN_LIMIT].at > Window
  <2>4. P(n)
    BY <2>0, <2>2, <2>3
  <2>5. \A j \in 1..l : P(j)
    BY <2>1
  <2> HIDE DEF P
  <2>6. \A j \in 1..n : P(j)
    <3>1. \A j \in 1..n : j = n \/ j \in 1..l
      BY <1>2, <2>0
    <3> QED  BY <2>4, <2>5, <3>1
  <2>7. \A j \in 1..Len(log') : P(j)
    BY <2>0, <2>6
  <2> QED  BY <2>7 DEF Spaced, P
<1> QED  BY <1>10, <1>12, <1>13, <1>14 DEF Inv

LEMMA SendStep ==
  ASSUME Inv, NEW kind \in Kinds, Len(CheckReqs) < Limit(kind),
         client_reqs' = Push(CheckReqs, now),
         log' = Append(log, [at |-> now, kind |-> kind]),
         now' = now, pc' \in Kinds
  PROVE  Inv'
<1>1. TypeOK
  BY DEF Inv
<1>2. Kept \in Nat /\ Len(log) \in Nat /\ now \in 0..MaxTime
  BY <1>1, KeptType DEF TypeOK
<1>3. /\ CheckReqs \in Seq(0..MaxTime) /\ Len(CheckReqs) = Kept
      /\ \A i \in 1..Kept : CheckReqs[i] = client_reqs[i]
  BY <1>1, CheckReqsType
<1>4. /\ client_reqs' \in Seq(0..MaxTime) /\ Len(client_reqs') = Kept + 1
      /\ client_reqs'[1] = now
      /\ \A i \in 2..(Kept + 1) : client_reqs'[i] = CheckReqs[i - 1]
  BY <1>2, <1>3, PushType
<1>5. \A i \in 2..(Kept + 1) : i - 1 \in 1..Kept
  BY <1>2
<1>6. \A i \in 2..(Kept + 1) : client_reqs'[i] = client_reqs[i - 1]
  BY <1>3, <1>4, <1>5
<1>7. /\ log' \in Seq([at : 0..MaxTime, kind : Kinds]) /\ Len(log') = Len(log) + 1
      /\ log'[Len(log) + 1] = [at |-> now, kind |-> kind]
      /\ \A i \in 1..Len(log) : log'[i] = log[i]
  BY <1>1, <1>2, AppendProperties DEF TypeOK
<1>8. TypeOK'
  BY <1>1, <1>4, <1>7 DEF TypeOK
<1>9. Kept < CLAIM_LIMIT /\ (kind # "claim" => Kept < COIN_LIMIT)
  BY <1>2, <1>3, ConstantsAssumption DEF Limit, Kinds
<1> QED  BY <1>4, <1>6, <1>7, <1>8, <1>9, GrowStep DEF Grown

LEMMA InitInv == Init => Inv
<1> SUFFICES ASSUME Init PROVE Inv
  OBVIOUS
<1>1. Len(log) = 0 /\ Len(client_reqs) = 0
  BY DEF Init
<1>2. TypeOK
  BY ConstantsAssumption DEF Init, TypeOK, Kinds
<1>3. Suffix /\ Ordered /\ Spaced
  BY <1>1 DEF Suffix, Ordered, Spaced
<1> QED  BY <1>2, <1>3 DEF Inv

LEMMA NextInv == Inv /\ [Next]_vars => Inv'
<1> SUFFICES ASSUME Inv, [Next]_vars PROVE Inv'
  OBVIOUS
<1>0. TypeOK /\ Suffix /\ Ordered /\ Spaced
  BY DEF Inv
<1>1. ASSUME NEW kind \in Kinds, Request(kind), now' = now, pc' \in Kinds PROVE Inv'
  BY <1>1, RefuseStep, SendStep DEF Request
<1>2. ASSUME UNCHANGED <<now, client_reqs, log>>, pc' \in Kinds PROVE Inv'
  BY <1>0, <1>2 DEF Inv, TypeOK, Suffix, Ordered, Spaced, Expired
<1>3. CASE Tick
  <2>1. now' = now + 1 /\ now' \in 0..MaxTime /\ now \in Nat /\ Window \in Nat
        /\ UNCHANGED <<pc, client_reqs, log>>
    BY <1>0, <1>3, ConstantsAssumption DEF Tick, TypeOK
  <2>2. TypeOK'
    BY <1>0, <2>1 DEF TypeOK
  <2>3. \A i \in 1..Len(log) : log[i].at \in Nat /\ log[i].at <= now
    BY <1>0, LogType DEF Ordered
  <2>4. \A t \in Nat : Expired(t) => now + 1 - t > Window
    BY <2>1 DEF Expired
  <2>5. Len(log) \in Nat /\ Len(client_reqs) \in Nat
    BY <1>0 DEF TypeOK
  <2>6. \A i \in 1..(Len(log) - Len(client_reqs)) : i \in 1..Len(log)
    BY <2>5
  <2>7. Suffix'
    BY <1>0, <2>1, <2>3, <2>4, <2>6 DEF Suffix, Expired
  <2>8. \A i \in 1..Len(log) : log[i].at <= now + 1
    BY <2>1, <2>3
  <2>9. Ordered' /\ Spaced'
    BY <1>0, <2>1, <2>8 DEF Ordered, Spaced
  <2> QED  BY <2>2, <2>7, <2>9 DEF Inv
<1>4. CASE ClaimCoin \/ GetLastCoin \/ GetDifficulty
  BY <1>1, <1>4 DEF ClaimCoin, GetLastCoin, GetDifficulty, Goto, Kinds
<1>5. CASE NoClaim \/ NoPoll \/ UNCHANGED vars
  BY <1>0, <1>2, <1>5 DEF NoClaim, NoPoll, Goto, Kinds, vars, TypeOK
<1> QED  BY <1>3, <1>4, <1>5 DEF Next

\* The inductive invariant holds always.
THEOREM LimiterInvariant == Spec => []Inv
<1> QED  BY InitInv, NextInv, PTL DEF Spec

\* Type correctness.
THEOREM LimiterTypes == Spec => []TypeOK
<1>1. Inv => TypeOK
  BY DEF Inv
<1> QED  BY <1>1, LimiterInvariant, PTL

-----------------------------------------------------------------------------
(***************************************************************************)
(* The properties.                                                         *)
(***************************************************************************)

\* No window of time holds more direct requests than the claims' limit.
THEOREM LimitKept == Spec => []NeverTooMany
<1>1. Inv => NeverTooMany
  <2> SUFFICES ASSUME Inv, NEW t \in 0..MaxTime
               PROVE  Cardinality(InWindow(t, Kinds)) <= CLAIM_LIMIT
    BY DEF NeverTooMany
  <2> DEFINE S == InWindow(t, Kinds)
             l == Len(log)
  <2>1. /\ l \in Nat /\ t \in Nat /\ CLAIM_LIMIT \in Nat /\ Window \in Nat
        /\ \A i \in 1..l : log[i].at \in Nat
    BY LogType, ConstantsAssumption DEF Inv, TypeOK
  <2>2. DOMAIN log = 1..l
    BY DEF Inv, TypeOK
  <2>3. S \in SUBSET (1..l)
    BY <2>2 DEF InWindow
  <2>4. ASSUME NEW j \in S, j > CLAIM_LIMIT, NEW i \in S PROVE i > j - CLAIM_LIMIT
    <3>1. j \in 1..l /\ i \in 1..l
      BY <2>3
    <3>2. t <= log[i].at /\ log[j].at <= t + Window
      BY DEF InWindow
    <3>3. log[j].at - log[j - CLAIM_LIMIT].at > Window
      BY <2>4, <3>1 DEF Inv, Spaced
    <3>4. j - CLAIM_LIMIT \in 1..l
      BY <2>1, <2>4, <3>1
    <3>5. i <= j - CLAIM_LIMIT => log[i].at <= log[j - CLAIM_LIMIT].at
      BY <3>1, <3>4 DEF Inv, Ordered
    <3>6. i \in Nat /\ j \in Nat /\ log[i].at \in Nat /\ log[j].at \in Nat
          /\ log[j - CLAIM_LIMIT].at \in Nat
      BY <2>1, <3>1, <3>4
    <3> QED  BY <2>1, <3>2, <3>3, <3>5, <3>6
  <2> HIDE DEF S, l
  <2>5. Cardinality(S) <= CLAIM_LIMIT
    BY <2>1, <2>3, <2>4, FewIndices
  <2> QED  BY <2>5 DEF S
<1> QED  BY <1>1, LimiterInvariant, PTL

\* Nor more polls than the last coin's limit, so that claims keep the rest.
THEOREM ClaimsKeepTheirShare == Spec => []ClaimsReserved
<1>1. Inv => ClaimsReserved
  <2> SUFFICES ASSUME Inv, NEW t \in 0..MaxTime
               PROVE  Cardinality(InWindow(t, {"coin", "difficulty"})) <= COIN_LIMIT
    BY DEF ClaimsReserved
  <2> DEFINE S == InWindow(t, {"coin", "difficulty"})
             l == Len(log)
  <2>1. /\ l \in Nat /\ t \in Nat /\ COIN_LIMIT \in Nat /\ Window \in Nat
        /\ \A i \in 1..l : log[i].at \in Nat
    BY LogType, ConstantsAssumption DEF Inv, TypeOK
  <2>2. DOMAIN log = 1..l
    BY DEF Inv, TypeOK
  <2>3. S \in SUBSET (1..l)
    BY <2>2 DEF InWindow
  <2>4. ASSUME NEW j \in S, j > COIN_LIMIT, NEW i \in S PROVE i > j - COIN_LIMIT
    <3>1. j \in 1..l /\ i \in 1..l
      BY <2>3
    <3>2. t <= log[i].at /\ log[j].at <= t + Window /\ log[j].kind # "claim"
      BY DEF InWindow
    <3>3. log[j].at - log[j - COIN_LIMIT].at > Window
      BY <2>4, <3>1, <3>2 DEF Inv, Spaced
    <3>4. j - COIN_LIMIT \in 1..l
      BY <2>1, <2>4, <3>1
    <3>5. i <= j - COIN_LIMIT => log[i].at <= log[j - COIN_LIMIT].at
      BY <3>1, <3>4 DEF Inv, Ordered
    <3>6. i \in Nat /\ j \in Nat /\ log[i].at \in Nat /\ log[j].at \in Nat
          /\ log[j - COIN_LIMIT].at \in Nat
      BY <2>1, <3>1, <3>4
    <3> QED  BY <2>1, <3>2, <3>3, <3>5, <3>6
  <2> HIDE DEF S, l
  <2>5. Cardinality(S) <= COIN_LIMIT
    BY <2>1, <2>3, <2>4, FewIndices
  <2> QED  BY <2>5 DEF S
<1> QED  BY <1>1, LimiterInvariant, PTL

\* The check leaves exactly the requests of the last window to be counted.
THEOREM CountIsExact == Spec => []CountsLastMinute
<1>1. Inv => CountsLastMinute
  <2> SUFFICES ASSUME Inv PROVE CountsLastMinute
    OBVIOUS
  <2> DEFINE l == Len(log)
             S == {i \in DOMAIN log : now - log[i].at <= Window}
  <2>1. l \in Nat /\ Kept \in 0..l /\ DOMAIN log = 1..l
    BY Split DEF Inv, TypeOK
  <2>2. \A i \in 1..l : log[i].at \in Nat /\ (Expired(log[i].at) <=> i <= l - Kept)
    BY Split, LogType DEF Inv
  <2>3. now \in Nat /\ Window \in Nat
    BY ConstantsAssumption DEF Inv, TypeOK
  <2>4. \A i \in 1..l : now - log[i].at <= Window <=> i > l - Kept
    BY <2>1, <2>2, <2>3 DEF Expired
  <2>5. S = (l - Kept + 1)..l
    BY <2>1, <2>4
  <2>6. Cardinality((l - Kept + 1)..l) = Kept
    BY <2>1, FS_Interval
  <2>7. Len(CheckReqs) = Kept
    BY CheckReqsType DEF Inv
  <2> QED  BY <2>5, <2>6, <2>7 DEF CountsLastMinute
<1> QED  BY <1>1, LimiterInvariant, PTL
=============================================================================
