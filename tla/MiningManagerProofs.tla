------------------------- MODULE MiningManagerProofs -------------------------
(***************************************************************************)
(* Proofs about MiningManager, for every number of miners, coins and       *)
(* difficulties and every capacity.                                        *)
(*                                                                         *)
(* Three inductive invariants, each used by the next:                      *)
(*   TypeInv   types, and what a thread has in hand at each place;         *)
(*   DequeInv  the deques hold a miner once, and what is not in the deque  *)
(*             of CPU miners does not run;                                 *)
(*   MailInv   the mailboxes and the labels.                               *)
(***************************************************************************)
EXTENDS MiningManager, SequenceTheorems, FiniteSetTheorems, TLAPS

-----------------------------------------------------------------------------
(***************************************************************************)
(* Deques.                                                                 *)
(***************************************************************************)

\* Removing an element of a deque keeps its type and leaves the others.
LEMMA WithoutType ==
  ASSUME NEW S, NEW q \in Seq(S), NEW i \in DOMAIN q
  PROVE  /\ Without(q, i) \in Seq(S)
         /\ Len(Without(q, i)) = Len(q) - 1
         /\ \A j \in 1..Len(q) - 1 :
              Without(q, i)[j] = IF j < i THEN q[j] ELSE q[j + 1]
<1> DEFINE l == SubSeq(q, 1, i - 1)
           r == SubSeq(q, i + 1, Len(q))
<1>1. /\ i \in 1..Len(q) /\ i \in Int /\ Len(q) \in Nat
      /\ \A j \in 1..Len(q) : q[j] \in S
  BY LenProperties, ElementOfSeq
<1>2. /\ l \in Seq(S) /\ Len(l) = i - 1
      /\ \A j \in 1..i - 1 : l[j] = q[j]
  <2>1. i - 1 \in Int /\ \A j \in 1..i - 1 : q[j] \in S
    BY <1>1
  <2>2. /\ l \in Seq(S) /\ Len(l) = IF 1 <= i - 1 THEN (i - 1) - 1 + 1 ELSE 0
        /\ \A j \in 1..(i - 1) - 1 + 1 : l[j] = q[1 + j - 1]
    BY <2>1, SubSeqProperties
  <2> QED BY <1>1, <2>2
<1>3. /\ r \in Seq(S) /\ Len(r) = Len(q) - i
      /\ \A j \in 1..Len(q) - i : r[j] = q[i + j]
  <2>1. i + 1 \in Int /\ Len(q) \in Int /\ \A j \in i + 1..Len(q) : q[j] \in S
    BY <1>1
  <2>2. /\ r \in Seq(S) /\ Len(r) = IF i + 1 <= Len(q) THEN Len(q) - (i + 1) + 1 ELSE 0
        /\ \A j \in 1..Len(q) - (i + 1) + 1 : r[j] = q[(i + 1) + j - 1]
    BY <2>1, SubSeqProperties
  <2> QED BY <1>1, <2>2
<1>4. Without(q, i) = l \o r
  BY DEF Without
<1> HIDE DEF l, r
<1>5. /\ l \o r \in Seq(S)
      /\ Len(l \o r) = Len(l) + Len(r)
      /\ \A j \in 1..Len(l) + Len(r) :
           (l \o r)[j] = IF j <= Len(l) THEN l[j] ELSE r[j - Len(l)]
  BY <1>2, <1>3, ConcatProperties, Zenon
<1>6. Len(l) + Len(r) = Len(q) - 1
  BY <1>1, <1>2, <1>3
<1> DEFINE lr == l \o r
<1>7. ASSUME NEW j \in 1..Len(q) - 1
      PROVE  lr[j] = IF j < i THEN q[j] ELSE q[j + 1]
  <2>1. lr[j] = IF j <= i - 1 THEN l[j] ELSE r[j - (i - 1)]
    BY <1>2, <1>5, <1>6
  <2> HIDE DEF lr
  <2>2. CASE j < i
    BY <1>1, <1>2, <2>1, <2>2
  <2>3. CASE ~(j < i)
    <3>1. j - (i - 1) \in 1..Len(q) - i /\ i + (j - (i - 1)) = j + 1
      BY <1>1, <2>3
    <3>2. r[j - (i - 1)] = q[j + 1]
      BY <1>3, <3>1
    <3> QED BY <1>1, <2>1, <2>3, <3>2
  <2> QED BY <2>2, <2>3
<1> QED BY <1>4, <1>5, <1>6, <1>7

\* Appending adds one element to a deque.
LEMMA AppendRange ==
  ASSUME NEW S, NEW q \in Seq(S), NEW e \in S
  PROVE  /\ Append(q, e) \in Seq(S)
         /\ Range(Append(q, e)) = Range(q) \cup {e}
<1>1. /\ DOMAIN q = 1..Len(q) /\ Len(q) \in Nat
      /\ DOMAIN Append(q, e) = 1..Len(q) + 1
      /\ \A i \in 1..Len(q) : Append(q, e)[i] = q[i]
      /\ Append(q, e)[Len(q) + 1] = e
  BY LenProperties, AppendProperties
<1>2. Append(q, e) \in Seq(S)
  BY AppendProperties
<1> QED BY <1>1, <1>2 DEF Range

\* From a deque that holds each miner once, the removed one is gone.
LEMMA WithoutRange ==
  ASSUME NEW S, NEW q \in Seq(S), NEW i \in DOMAIN q, IsInjective(q)
  PROVE  /\ Range(Without(q, i)) = Range(q) \ {q[i]}
         /\ IsInjective(Without(q, i))
<1> DEFINE w == Without(q, i)
<1>1. /\ w \in Seq(S) /\ Len(w) = Len(q) - 1
      /\ \A j \in 1..Len(q) - 1 : w[j] = IF j < i THEN q[j] ELSE q[j + 1]
  BY WithoutType
<1>2. DOMAIN w = 1..Len(q) - 1 /\ DOMAIN q = 1..Len(q) /\ Len(q) \in Nat
  BY <1>1, LenProperties
<1> HIDE DEF w
<1>3. IsInjective(w)
  <2>1. ASSUME NEW a \in DOMAIN w, NEW b \in DOMAIN w, w[a] = w[b]
        PROVE  a = b
    <3> DEFINE at(j) == IF j < i THEN j ELSE j + 1
    <3>1. at(a) \in DOMAIN q /\ at(b) \in DOMAIN q /\ w[a] = q[at(a)] /\ w[b] = q[at(b)]
      BY <1>1, <1>2
    <3>2. at(a) = at(b)
      BY <2>1, <3>1 DEF IsInjective
    <3> QED BY <1>2, <3>2
  <2> QED BY <2>1 DEF IsInjective
<1>4. ASSUME NEW j \in DOMAIN w
      PROVE  w[j] \in Range(q) \ {q[i]}
  BY <1>1, <1>2 DEF Range, IsInjective
<1>5. ASSUME NEW j \in DOMAIN q, j # i
      PROVE  q[j] \in Range(w)
  <2>1. CASE j < i
    <3>1. j \in DOMAIN w /\ w[j] = q[j]
      BY <1>1, <1>2, <2>1
    <3> QED BY <3>1 DEF Range
  <2>2. CASE j > i
    <3>1. j - 1 \in DOMAIN w /\ w[j - 1] = q[j]
      BY <1>1, <1>2, <2>2
    <3> QED BY <3>1 DEF Range
  <2> QED BY <1>2, <1>5, <2>1, <2>2
<1>6. Range(w) = Range(q) \ {q[i]}
  BY <1>4, <1>5 DEF Range
<1> QED BY <1>3, <1>6 DEF w

\* Position 0 stands for none: nothing is removed there.
LEMMA WithoutNone ==
  ASSUME NEW S, NEW q \in Seq(S)
  PROVE  Without(q, 0) = q
<1>1. SubSeq(q, 1, 0 - 1) = << >> /\ SubSeq(q, 0 + 1, Len(q)) = q
  BY LenProperties, SubSeqProperties
<1> QED BY <1>1, ConcatEmptySeq DEF Without

-----------------------------------------------------------------------------
(***************************************************************************)
(* Types.                                                                  *)
(***************************************************************************)

\* A coin is claimed only while fewer than BAD_LIMIT claims have failed.
ClaimHeadroom == pc = "claim" => bad < BAD_LIMIT

\* What a thread has taken or found by the time it reaches each place.
Equipped ==
  \A m \in Miners :
    /\ phase[m] \in {"bootz", "coin", "zeros", "hash", "send", "report"} =>
         coin[m] # None
    /\ phase[m] \in {"coin", "zeros", "hash", "send", "report"} => zeros[m] # None
    /\ phase[m] = "send" => found[m] # None

TypeInv == TypeOK /\ ClaimHeadroom /\ Equipped

\* The type invariant and its strengthening hold initially.
LEMMA TypeInit == Init => TypeInv
<1> SUFFICES ASSUME Init PROVE TypeInv
  OBVIOUS
<1>1. oclfuncs \in Seq(Ocl)
  <2>1. Cardinality(Ocl) \in Nat
    BY ConstantsAssumption, FS_CardinalityType
  <2>2. oclfuncs \in [1..Cardinality(Ocl) -> Ocl]
    BY DEF Init, Bijection, Injection
  <2> QED BY <2>1, <2>2, SeqDef
<1>2. ManagerType
  BY <1>1, ConstantsAssumption, EmptySeq DEF Init, ManagerType, Places
<1>3. ChannelType
  BY ConstantsAssumption, EmptySeq DEF Init, ChannelType
<1>4. MinerType
  BY DEF Init, MinerType, Phases
<1>5. ClaimHeadroom /\ Equipped
  BY DEF Init, ClaimHeadroom, Equipped
<1> QED BY <1>2, <1>3, <1>4, <1>5 DEF TypeInv, TypeOK

\* Each step of the manager keeps them.
LEMMA TypeManagerStep == TypeInv /\ Manager => TypeInv'
<1> SUFFICES ASSUME TypeInv, Manager PROVE TypeInv'
  OBVIOUS
<1> USE DEF TypeInv, TypeOK, managerVars, minerVars, threadVars, mailVars, Goto
<1>1. CASE StartNewMiner
  <2>1. miners' \in Seq(Cpu)
    <3>1. CASE \E m \in Cpu : miners' = Append(miners, m)
      BY <3>1, AppendRange DEF ManagerType
    <3>2. CASE miners' = miners
      BY <3>2 DEF ManagerType
    <3> QED BY <1>1, <3>1, <3>2 DEF StartNewMiner
  <2>2. (ManagerType /\ ChannelType /\ ClaimHeadroom)'
    BY <1>1, <2>1 DEF StartNewMiner, ManagerType, ChannelType, ClaimHeadroom, Places
  <2>3. (MinerType /\ Equipped)'
    <3>1. ASSUME NEW m \in Cpu, Launch(m)
          PROVE  (MinerType /\ Equipped)'
      BY <1>1, <3>1
         DEF StartNewMiner, MinerType, ManagerType, Equipped, Launch, Miners, Phases
    <3>2. CASE UNCHANGED <<phase, mailVars>>
      BY <1>1, <3>2 DEF StartNewMiner, MinerType, Equipped
    <3> QED BY <1>1, <3>1, <3>2 DEF StartNewMiner
  <2> QED BY <2>2, <2>3
<1>2. CASE StartOclMiner
  <2>1. CASE Len(oclminers) < Len(oclfuncs)
    <3>1. Head(oclfuncs) \in Ocl /\ Tail(oclfuncs) \in Seq(Ocl)
      BY <2>1, LenProperties, EmptySeq, HeadTailProperties DEF ManagerType
    <3>2. oclminers' \in Seq(Ocl) /\ oclfuncs' \in Seq(Ocl)
      <4>1. /\ oclminers' = Append(oclminers, Head(oclfuncs))
            /\ oclfuncs' = Append(Tail(oclfuncs), Head(oclfuncs))
        BY <1>2, <2>1 DEF StartOclMiner, Rotated
      <4> QED BY <3>1, <4>1, AppendRange DEF ManagerType
    <3>3. (ManagerType /\ ChannelType /\ ClaimHeadroom)'
      BY <1>2, <2>1, <3>2 DEF StartOclMiner, Rotated, ManagerType, ChannelType, ClaimHeadroom, Places
    <3>4. (MinerType /\ Equipped)'
      BY <1>2, <2>1, <3>1
         DEF StartOclMiner, Rotated, MinerType, ManagerType, Equipped, Launch, Miners, Phases
    <3> QED BY <3>3, <3>4
  <2>2. CASE ~(Len(oclminers) < Len(oclfuncs))
    <3>1. (ManagerType /\ ChannelType /\ ClaimHeadroom)'
      BY <1>2, <2>2 DEF StartOclMiner, Rotated, ManagerType, ChannelType, ClaimHeadroom, Places
    <3>2. (MinerType /\ Equipped)'
      BY <1>2, <2>2 DEF StartOclMiner, Rotated, MinerType, Equipped
    <3> QED BY <3>1, <3>2
  <2> QED BY <2>1, <2>2
<1>3. CASE ReceiveStats
  <2>1. (ManagerType /\ ChannelType /\ ClaimHeadroom)'
    BY <1>3, ConstantsAssumption
       DEF ReceiveStats, ManagerType, ChannelType, ClaimHeadroom, Places
  <2>2. (MinerType /\ Equipped)'
    BY <1>3 DEF ReceiveStats, MinerType, Equipped
  <2> QED BY <2>1, <2>2
<1>4. CASE WaitOutBadCoins
  <2>1. (ManagerType /\ ChannelType /\ ClaimHeadroom)'
    BY <1>4, ConstantsAssumption
       DEF WaitOutBadCoins, ResetAfterMinute, ManagerType, ChannelType, ClaimHeadroom, Places
  <2>2. (MinerType /\ Equipped)'
    BY <1>4 DEF WaitOutBadCoins, MinerType, Equipped
  <2> QED BY <2>1, <2>2
<1>5. CASE ReceiveCoin
  <2>1. (ManagerType /\ ClaimHeadroom)'
    BY <1>5, ConstantsAssumption DEF ReceiveCoin, ManagerType, ClaimHeadroom, Places, Paused
  <2>2. coinChan' \in Seq(FoundCoin) /\ Len(coinChan') <= Len(coinChan)
    BY <1>5, LenProperties, HeadTailProperties DEF ReceiveCoin, ChannelType
  <2>3. ChannelType'
    BY <1>5, <2>2, LenProperties, ConstantsAssumption DEF ReceiveCoin, ChannelType
  <2>4. (MinerType /\ Equipped)'
    BY <1>5 DEF ReceiveCoin, MinerType, Equipped
  <2> QED BY <2>1, <2>3, <2>4
<1>6. CASE ClaimOk
  <2>1. (ManagerType /\ ChannelType /\ ClaimHeadroom)'
    BY <1>6, ConstantsAssumption
       DEF ClaimOk, ManagerType, ChannelType, ClaimHeadroom, Places
  <2>2. (MinerType /\ Equipped)'
    BY <1>6 DEF ClaimOk, MinerType, Equipped, UpdateMinersCoin
  <2> QED BY <2>1, <2>2
<1>7. CASE ClaimBad
  <2>1. (ManagerType /\ ChannelType /\ ClaimHeadroom)'
    BY <1>7, ConstantsAssumption
       DEF ClaimBad, ManagerType, ChannelType, ClaimHeadroom, Places
  <2>2. (MinerType /\ Equipped)'
    BY <1>7 DEF ClaimBad, MinerType, Equipped
  <2> QED BY <2>1, <2>2
<1>8. CASE ClaimOtherError
  <2>1. (ManagerType /\ ChannelType /\ ClaimHeadroom)'
    BY <1>8 DEF ClaimOtherError, ManagerType, ChannelType, ClaimHeadroom, Places
  <2>2. (MinerType /\ Equipped)'
    BY <1>8 DEF ClaimOtherError, MinerType, Equipped
  <2> QED BY <2>1, <2>2
<1>9. CASE SkipPoll
  <2>1. (ManagerType /\ ChannelType /\ ClaimHeadroom)'
    BY <1>9 DEF SkipPoll, ManagerType, ChannelType, ClaimHeadroom, Places
  <2>2. (MinerType /\ Equipped)'
    BY <1>9 DEF SkipPoll, MinerType, Equipped
  <2> QED BY <2>1, <2>2
<1>10. CASE PollLastCoin
  <2>1. (ManagerType /\ ChannelType /\ ClaimHeadroom)'
    BY <1>10, ConstantsAssumption
       DEF PollLastCoin, ManagerType, ChannelType, ClaimHeadroom, Places
  <2>2. (MinerType /\ Equipped)'
    BY <1>10 DEF PollLastCoin, MinerType, Equipped, UpdateMinersCoin
  <2> QED BY <2>1, <2>2
<1>11. CASE PollDifficulty
  <2>1. (ManagerType /\ ChannelType /\ ClaimHeadroom)'
    BY <1>11, ConstantsAssumption
       DEF PollDifficulty, ManagerType, ChannelType, ClaimHeadroom, Places
  <2>2. (MinerType /\ Equipped)'
    BY <1>11 DEF PollDifficulty, MinerType, Equipped, UpdateMinersDifficulty
  <2> QED BY <2>1, <2>2
<1>12. CASE Prune
  <2>1. miners' \in Seq(Cpu) /\ oclminers' \in Seq(Ocl)
    <3>1. ASSUME NEW S, NEW q \in Seq(S), NEW i \in FirstStopped(q)
          PROVE  Without(q, i) \in Seq(S)
      <4>1. CASE i = 0
        BY <4>1, WithoutNone
      <4>2. CASE i # 0
        BY <4>2, WithoutType DEF FirstStopped, Stopped
      <4> QED BY <4>1, <4>2
    <3> QED BY <1>12, <3>1 DEF Prune, ManagerType
  <2>2. (ManagerType /\ ChannelType /\ ClaimHeadroom)'
    BY <1>12, <2>1 DEF Prune, ManagerType, ChannelType, ClaimHeadroom, Places
  <2>3. (MinerType /\ Equipped)'
    BY <1>12 DEF Prune, MinerType, Equipped, Dropped, Phases
  <2> QED BY <2>2, <2>3
<1> QED
  BY <1>1, <1>2, <1>3, <1>4, <1>5, <1>6, <1>7, <1>8, <1>9, <1>10, <1>11, <1>12 DEF Manager

\* A step of a thread leaves the manager's variables alone.
LEMMA MinerFrame ==
  ASSUME NEW m \in Miners, Miner(m)
  PROVE  /\ UNCHANGED <<pc, managerVars, minute>>
         /\ pc # "panicked"
BY Zenon DEF Miner, Round, BootCoin, BootDifficulty, TakeCoin, TakeDifficulty, Hit,
   Miss, Send, Report, Finish, Fail, Panic, Step

\* Each step of a miner thread keeps the types and what it has in hand.
LEMMA TypeMinerStep ==
  ASSUME TypeInv, NEW m \in Miners, Miner(m)
  PROVE  TypeInv'
<1> USE DEF TypeInv, TypeOK, threadVars, mailVars
<1>1. (ManagerType /\ ClaimHeadroom)'
  BY MinerFrame DEF managerVars, ManagerType, ClaimHeadroom
<1>2. CASE BootCoin(m)
  BY <1>1, <1>2 DEF BootCoin, Step, ChannelType, MinerType, Equipped, Phases
<1>3. CASE BootDifficulty(m)
  BY <1>1, <1>3 DEF BootDifficulty, Step, ChannelType, MinerType, Equipped, Phases
<1>4. CASE TakeCoin(m)
  BY <1>1, <1>4 DEF TakeCoin, Taken, Step, ChannelType, MinerType, Equipped, Phases
<1>5. CASE TakeDifficulty(m)
  <2> DEFINE z == Taken(mailZeros[m], zeros[m])
  <2>1. z \in Difficulties
    BY <1>5, ConstantsAssumption DEF TakeDifficulty, Step, MinerType, Equipped, Taken
  <2>2. found' \in [Miners -> FoundCoin \cup {None}]
    <3>1. CASE found[m] = None
      BY <1>5, <3>1 DEF TakeDifficulty, MinerType
    <3>2. CASE found[m] # None
      <4>1. found[m] \in FoundCoin
        BY <3>2 DEF MinerType
      <4>2. [found[m] EXCEPT !.label = z] \in FoundCoin
        BY <2>1, <4>1 DEF FoundCoin
      <4>3. found' = [found EXCEPT ![m] = [found[m] EXCEPT !.label = z]]
        BY <1>5, <3>2 DEF TakeDifficulty
      <4> QED BY <4>2, <4>3 DEF MinerType
    <3> QED BY <3>1, <3>2
  <2>3. found[m] # None => found'[m] # None
    BY <1>5, <2>1, ConstantsAssumption DEF TakeDifficulty, MinerType, FoundCoin
  <2>4. (ChannelType /\ MinerType)'
    BY <1>5, <2>1, <2>2, ConstantsAssumption
       DEF TakeDifficulty, Step, AfterRound, ChannelType, MinerType, Phases
  <2>5. Equipped'
    BY <1>5, <2>1, <2>3, ConstantsAssumption
       DEF TakeDifficulty, Step, AfterRound, MinerType, Equipped
  <2> QED BY <1>1, <2>4, <2>5
<1>6. CASE Hit(m)
  <2>1. coin[m] \in Coins /\ zeros[m] \in Difficulties
    BY <1>6 DEF Hit, Step, MinerType, Equipped
  <2>2. PICK n \in HashZeros :
          found' = [found EXCEPT ![m] = [prev |-> coin[m], label |-> zeros[m], zeros |-> n]]
    BY <1>6 DEF Hit, StartsWithZeros
  <2>3. [prev |-> coin[m], label |-> zeros[m], zeros |-> n] \in FoundCoin
    BY <2>1 DEF FoundCoin
  <2>4. MinerType'
    BY <1>6, <2>2, <2>3 DEF Hit, Step, MinerType, Phases
  <2>5. (ChannelType /\ Equipped)'
    BY <1>6, <2>2, <2>3, ConstantsAssumption
       DEF Hit, Step, ChannelType, MinerType, Equipped
  <2> QED BY <1>1, <2>4, <2>5
<1>7. CASE Miss(m)
  BY <1>1, <1>7 DEF Miss, Step, AfterRound, ChannelType, MinerType, Equipped, Phases
<1>8. CASE Send(m)
  <2>1. found[m] \in FoundCoin
    BY <1>8 DEF Send, Step, MinerType, Equipped
  <2>2. ChannelType'
    BY <1>8, <2>1, AppendProperties, LenProperties, ConstantsAssumption
       DEF Send, ChannelType
  <2> QED BY <1>1, <1>8, <2>2 DEF Send, Step, AfterRound, MinerType, Equipped, Phases
<1>9. CASE Report(m)
  <2>1. ChannelType'
    BY <1>9, ConstantsAssumption DEF Report, ChannelType
  <2> QED BY <1>1, <1>9, <2>1 DEF Report, Step, MinerType, Equipped, Phases
<1>10. CASE Finish(m) \/ Fail(m) \/ Panic(m)
  BY <1>1, <1>10 DEF Finish, Fail, Panic, Step, ChannelType, MinerType, Equipped, Phases
<1> QED
  BY <1>2, <1>3, <1>4, <1>5, <1>6, <1>7, <1>8, <1>9, <1>10 DEF Miner, Round

\* Every step keeps the types.
LEMMA TypeStep == TypeInv /\ [Next]_vars => TypeInv'
<1> SUFFICES ASSUME TypeInv, [Next]_vars PROVE TypeInv'
  OBVIOUS
<1>1. CASE Manager
  BY <1>1, TypeManagerStep
<1>2. CASE CoolDown
  BY <1>2 DEF CoolDown, TypeInv, TypeOK, ManagerType, ChannelType, MinerType,
     ClaimHeadroom, Equipped, managerVars, minerVars, threadVars, mailVars
<1>3. CASE \E m \in Miners : Miner(m)
  BY <1>3, TypeMinerStep
<1>4. CASE UNCHANGED vars
  BY <1>4 DEF vars, TypeInv, TypeOK, ManagerType, ChannelType, MinerType,
     ClaimHeadroom, Equipped, managerVars, minerVars, threadVars, mailVars
<1> QED BY <1>1, <1>2, <1>3, <1>4 DEF Next

\* Type correctness: every state of the manager and of its miners has its type,
\* both channels stay within their capacity, and no thread uses a coin, a
\* difficulty or a result it has not taken or found.
THEOREM TypeCorrect == Spec => []TypeOK
<1>1. TypeInv => TypeOK
  BY DEF TypeInv
<1> QED BY TypeInit, TypeStep, <1>1, PTL DEF Spec

-----------------------------------------------------------------------------
(***************************************************************************)
(* Deques.                                                                 *)
(***************************************************************************)

\* The running devices are the most recently started ones, in their order.
OclOrder ==
  /\ IsInjective(oclfuncs)
  /\ Len(oclminers) <= Len(oclfuncs)
  /\ \A i \in 1..Len(oclminers) :
       oclminers[i] = oclfuncs[Len(oclfuncs) - Len(oclminers) + i]

\* A slot outside the deques has no thread.
OutsideIdle == \A m \in Miners \ Live : phase[m] = "idle"

\* Only CPU miners ever return without an error.
CpuEnds == \A m \in Miners : phase[m] \in {"ended", "done"} => m \in Cpu

DequeInv == TypeInv /\ IsInjective(miners) /\ OclOrder /\ OutsideIdle /\ CpuEnds

\* The deques hold miners only.
LEMMA LiveMiners == TypeInv => Live \subseteq Miners
<1> SUFFICES ASSUME TypeInv PROVE Range(miners) \subseteq Cpu /\ Range(oclminers) \subseteq Ocl
  BY DEF Live, Miners
<1> QED BY RangeOfSeq DEF TypeInv, TypeOK, ManagerType

\* Moving the head of a deque to its back keeps it free of duplicates.
LEMMA Rotation ==
  ASSUME NEW S, NEW q \in Seq(S), q # << >>, IsInjective(q), NEW r,
         r = Append(Tail(q), Head(q))
  PROVE  /\ r \in Seq(S) /\ Len(r) = Len(q) /\ Len(q) \in Nat \ {0}
         /\ \A i \in 1..Len(q) : r[i] = IF i < Len(q) THEN q[i + 1] ELSE q[1]
         /\ IsInjective(r)
<1>1. /\ Len(q) \in Nat \ {0} /\ DOMAIN q = 1..Len(q)
      /\ Head(q) \in S /\ Head(q) = q[1]
      /\ Tail(q) \in Seq(S) /\ Len(Tail(q)) = Len(q) - 1
      /\ \A i \in 1..Len(q) - 1 : Tail(q)[i] = q[i + 1]
  BY LenProperties, EmptySeq, HeadTailProperties
<1>2. /\ r \in Seq(S) /\ Len(r) = Len(q)
      /\ \A i \in 1..Len(q) - 1 : r[i] = Tail(q)[i]
      /\ r[Len(q)] = q[1]
  <2>1. /\ r \in Seq(S) /\ Len(r) = Len(Tail(q)) + 1
        /\ \A i \in 1..Len(Tail(q)) : r[i] = Tail(q)[i]
        /\ r[Len(Tail(q)) + 1] = Head(q)
    BY <1>1, AppendProperties
  <2> QED BY <1>1, <2>1
<1>3. \A i \in 1..Len(q) : r[i] = IF i < Len(q) THEN q[i + 1] ELSE q[1]
  BY <1>1, <1>2
<1>4. ASSUME NEW a \in DOMAIN r, NEW b \in DOMAIN r, r[a] = r[b]
      PROVE  a = b
  <2>1. DOMAIN r = 1..Len(q) /\ Len(q) \in Nat \ {0}
    BY <1>1, <1>2, LenProperties
  <2>2. \A i, j \in 1..Len(q) : q[i] = q[j] => i = j
    BY <1>1 DEF IsInjective
  <2>3. a \in 1..Len(q) /\ b \in 1..Len(q)
    BY <2>1
  <2>4. CASE a < Len(q) /\ b < Len(q)
    <3>1. r[a] = q[a + 1] /\ r[b] = q[b + 1]
      BY <1>3, <2>3, <2>4
    <3>2. a + 1 \in 1..Len(q) /\ b + 1 \in 1..Len(q)
      BY <2>1, <2>3, <2>4
    <3> QED BY <1>4, <2>2, <2>3, <3>1, <3>2
  <2>5. CASE a < Len(q) /\ ~(b < Len(q))
    <3>1. a + 1 \in 1..Len(q) /\ 1 \in 1..Len(q) /\ q[a + 1] = q[1]
      BY <1>3, <1>4, <2>1, <2>3, <2>5
    <3> QED BY <2>2, <2>3, <3>1
  <2>6. CASE ~(a < Len(q)) /\ b < Len(q)
    <3>1. b + 1 \in 1..Len(q) /\ 1 \in 1..Len(q) /\ q[1] = q[b + 1]
      BY <1>3, <1>4, <2>1, <2>3, <2>6
    <3> QED BY <2>2, <2>3, <3>1
  <2> QED BY <2>1, <2>3, <2>4, <2>5, <2>6
<1> QED BY <1>1, <1>2, <1>3, <1>4 DEF IsInjective

\* A new element leaves a deque free of duplicates.
LEMMA AppendDistinct ==
  ASSUME NEW S, NEW q \in Seq(S), IsInjective(q), NEW e \in S, e \notin Range(q),
         NEW w, w = Append(q, e)
  PROVE  IsInjective(w)
<1>1. /\ DOMAIN q = 1..Len(q) /\ Len(q) \in Nat
      /\ DOMAIN w = 1..Len(q) + 1
      /\ \A i \in 1..Len(q) : w[i] = q[i]
      /\ w[Len(q) + 1] = e
  BY LenProperties, AppendProperties
<1>2. SUFFICES ASSUME NEW a \in DOMAIN w, NEW b \in DOMAIN w, w[a] = w[b]
               PROVE  a = b
  BY DEF IsInjective
<1>3. \A i \in 1..Len(q) : w[i] # e
  BY <1>1 DEF Range
<1>4. a = Len(q) + 1 <=> b = Len(q) + 1
  BY <1>1, <1>2, <1>3
<1>5. a \in 1..Len(q) /\ b \in 1..Len(q) => a = b
  BY <1>1, <1>2 DEF IsInjective
<1> QED BY <1>1, <1>4, <1>5

\* What a prune that panics nobody does: the miner it joins, if any, is a CPU
\* miner that has ended, and it leaves the deque for good.
LEMMA PruneEffect ==
  ASSUME DequeInv, Prune, pc' # "panicked"
  PROVE  \E joined \in SUBSET Cpu :
           /\ \A m \in joined : phase[m] = "done"
           /\ Range(miners') = Range(miners) \ joined
           /\ IsInjective(miners')
           /\ oclminers' = oclminers
           /\ phase' = [m \in Miners |-> IF m \in joined THEN "idle" ELSE phase[m]]
           /\ coin' = Dropped(coin, joined) /\ zeros' = Dropped(zeros, joined)
           /\ mailCoin' = Dropped(mailCoin, joined)
           /\ mailZeros' = Dropped(mailZeros, joined)
           /\ found' = found
<1> USE DEF DequeInv, TypeInv, TypeOK
<1> DEFINE joined(i, j) == {miners[k] : k \in {i} \ {0}}
                             \cup {oclminers[k] : k \in {j} \ {0}}
<1>1. PICK i \in FirstStopped(miners), j \in FirstStopped(oclminers) :
        /\ ~ \E m \in joined(i, j) : phase[m] = "failed"
        /\ miners' = Without(miners, i)
        /\ oclminers' = Without(oclminers, j)
        /\ phase' = [m \in Miners |-> IF m \in joined(i, j) THEN "idle" ELSE phase[m]]
        /\ coin' = Dropped(coin, joined(i, j)) /\ zeros' = Dropped(zeros, joined(i, j))
        /\ mailCoin' = Dropped(mailCoin, joined(i, j))
        /\ mailZeros' = Dropped(mailZeros, joined(i, j))
        /\ found' = found
  BY DEF Prune
<1>2. j = 0
  <2>1. SUFFICES ASSUME j # 0 PROVE FALSE
    OBVIOUS
  <2>2. j \in DOMAIN oclminers /\ phase[oclminers[j]] = "done"
    BY <1>1, <2>1 DEF FirstStopped, Stopped
  <2>3. oclminers[j] \in Ocl
    BY <2>2, LenProperties, ElementOfSeq DEF ManagerType
  <2> QED BY <2>2, <2>3, ConstantsAssumption DEF CpuEnds, Miners
<1>3. oclminers' = oclminers
  BY <1>1, <1>2, WithoutNone DEF ManagerType
<1>4. CASE i = 0
  <2>1. joined(i, j) = {} /\ miners' = miners
    BY <1>1, <1>2, <1>4, WithoutNone DEF ManagerType
  <2> HIDE DEF joined
  <2> QED BY <1>1, <1>3, <2>1
<1>5. CASE i # 0
  <2>1. i \in DOMAIN miners /\ joined(i, j) = {miners[i]}
    BY <1>1, <1>2, <1>5 DEF FirstStopped, Stopped
  <2>2. phase[miners[i]] = "done"
    BY <1>1, <1>5, <2>1 DEF FirstStopped, Stopped
  <2>3. miners[i] \in Cpu
    BY <2>1, LenProperties, ElementOfSeq DEF ManagerType
  <2>4. Range(miners') = Range(miners) \ {miners[i]} /\ IsInjective(miners')
    BY <1>1, <2>1, WithoutRange DEF ManagerType
  <2> HIDE DEF joined
  <2> QED BY <1>1, <1>3, <2>1, <2>2, <2>3, <2>4
<1> QED BY <1>4, <1>5

\* The deque invariant holds initially.
LEMMA DequeInit == Init => DequeInv
<1> SUFFICES ASSUME Init PROVE DequeInv
  OBVIOUS
<1>1. Cardinality(Ocl) \in Nat /\ oclfuncs \in Seq(Ocl)
  BY ConstantsAssumption, FS_CardinalityType, TypeInit DEF TypeInv, TypeOK, ManagerType
<1>2. IsInjective(oclfuncs)
  BY DEF Init, Bijection, Injection
<1>3. OclOrder /\ IsInjective(miners)
  BY <1>1, <1>2, LenProperties, EmptySeq DEF Init, OclOrder, IsInjective
<1>4. OutsideIdle /\ CpuEnds
  BY DEF Init, OutsideIdle, CpuEnds, Miners
<1> QED BY <1>3, <1>4, TypeInit DEF DequeInv

\* Steps that touch neither a deque nor a thread's place keep it.
LEMMA DequeFrame ==
  ASSUME DequeInv, TypeInv', UNCHANGED <<miners, oclminers, oclfuncs, phase>>
  PROVE  DequeInv'
BY DEF DequeInv, OclOrder, OutsideIdle, CpuEnds, IsInjective, Live

\* Every step keeps it.
LEMMA DequeStep == DequeInv /\ [Next]_vars => DequeInv'
<1> SUFFICES ASSUME DequeInv, [Next]_vars PROVE DequeInv'
  OBVIOUS
<1>1. TypeInv /\ TypeInv'
  BY TypeStep DEF DequeInv
<1> USE <1>1 DEF managerVars, minerVars, threadVars, mailVars, Goto
<1>2. CASE StartNewMiner
  <2>1. CASE \E m \in Cpu \ Range(miners) : Launch(m) /\ miners' = Append(miners, m)
    <3>1. PICK m \in Cpu \ Range(miners) : Launch(m) /\ miners' = Append(miners, m)
      BY <2>1
    <3>2. miners \in Seq(Cpu)
      BY DEF TypeInv, TypeOK, ManagerType
    <3>3. IsInjective(miners')
      BY <3>1, <3>2, AppendDistinct DEF DequeInv
    <3>4. Range(miners') = Range(miners) \cup {m}
      BY <3>1, <3>2, AppendRange
    <3>5. OutsideIdle' /\ CpuEnds'
      <4>1. Live' = Live \cup {m} /\ m \in Miners
        BY <1>2, <3>1, <3>4 DEF StartNewMiner, Live, Miners
      <4> QED BY <3>1, <4>1
              DEF DequeInv, OutsideIdle, CpuEnds, Launch, TypeInv, TypeOK, MinerType
    <3>6. OclOrder'
      BY <1>2 DEF StartNewMiner, DequeInv, OclOrder, IsInjective
    <3> QED BY <3>3, <3>5, <3>6 DEF DequeInv
  <2>2. CASE UNCHANGED <<miners, phase, mailVars>>
    BY <1>2, <2>2, DequeFrame DEF StartNewMiner
  <2> QED BY <1>2, <2>1, <2>2 DEF StartNewMiner
<1>3. CASE StartOclMiner
  <2>1. CASE Len(oclminers) < Len(oclfuncs)
    <3>1. /\ oclminers \in Seq(Ocl) /\ oclfuncs \in Seq(Ocl)
          /\ Len(oclminers) \in Nat /\ Len(oclfuncs) \in Nat
      BY LenProperties DEF TypeInv, TypeOK, ManagerType
    <3>2. oclfuncs # << >> /\ Head(oclfuncs) \in Ocl /\ Head(oclfuncs) = oclfuncs[1]
      BY <2>1, <3>1, EmptySeq, HeadTailProperties
    <3>3. /\ Launch(Head(oclfuncs))
          /\ oclminers' = Append(oclminers, Head(oclfuncs))
          /\ oclfuncs' = Append(Tail(oclfuncs), Head(oclfuncs))
          /\ miners' = miners
      BY <1>3, <2>1 DEF StartOclMiner, Rotated
    <3>4. /\ Len(oclfuncs') = Len(oclfuncs) /\ IsInjective(oclfuncs')
          /\ \A i \in 1..Len(oclfuncs) :
               oclfuncs'[i] = IF i < Len(oclfuncs) THEN oclfuncs[i + 1] ELSE oclfuncs[1]
      BY <3>1, <3>2, <3>3, Rotation DEF DequeInv, OclOrder
    <3>5. /\ Len(oclminers') = Len(oclminers) + 1
          /\ \A i \in 1..Len(oclminers) : oclminers'[i] = oclminers[i]
          /\ oclminers'[Len(oclminers) + 1] = oclfuncs[1]
      BY <3>1, <3>2, <3>3, AppendProperties
    <3>6. ASSUME NEW i \in 1..Len(oclminers) + 1
          PROVE  oclminers'[i] = oclfuncs'[Len(oclfuncs) - (Len(oclminers) + 1) + i]
      <4>1. CASE i = Len(oclminers) + 1
        <5>1. Len(oclfuncs) - (Len(oclminers) + 1) + i = Len(oclfuncs)
          BY <3>1, <4>1
        <5> QED BY <2>1, <3>1, <3>4, <3>5, <4>1, <5>1
      <4>2. CASE i \in 1..Len(oclminers)
        <5> DEFINE j == Len(oclfuncs) - (Len(oclminers) + 1) + i
        <5>1. /\ j \in 1..Len(oclfuncs) /\ j < Len(oclfuncs)
              /\ j + 1 = Len(oclfuncs) - Len(oclminers) + i
          BY <2>1, <3>1, <4>2
        <5>2. oclfuncs'[j] = oclfuncs[j + 1]
          BY <3>4, <5>1
        <5>3. oclminers[i] = oclfuncs[j + 1]
          BY <4>2, <5>1 DEF DequeInv, OclOrder
        <5> QED BY <3>5, <4>2, <5>2, <5>3
      <4> QED BY <3>1, <4>1, <4>2
    <3>7. OclOrder'
      BY <2>1, <3>1, <3>4, <3>5, <3>6 DEF OclOrder
    <3>8. Live' = Live \cup {Head(oclfuncs)} /\ Head(oclfuncs) \in Miners
      <4>1. Range(oclminers') = Range(oclminers) \cup {Head(oclfuncs)}
        BY <3>1, <3>2, <3>3, AppendRange
      <4> QED BY <3>2, <3>3, <4>1 DEF Live, Miners
    <3>9. (IsInjective(miners) /\ OutsideIdle /\ CpuEnds)'
      BY <3>2, <3>3, <3>8, ConstantsAssumption
         DEF DequeInv, OutsideIdle, CpuEnds, Launch, TypeInv, TypeOK, MinerType
    <3> QED BY <3>7, <3>9 DEF DequeInv
  <2>2. CASE ~(Len(oclminers) < Len(oclfuncs))
    BY <1>3, <2>2, DequeFrame DEF StartOclMiner, Rotated
  <2> QED BY <2>1, <2>2
<1>4. CASE ReceiveStats \/ WaitOutBadCoins \/ ReceiveCoin \/ ClaimOk \/ ClaimBad
           \/ ClaimOtherError \/ SkipPoll \/ PollLastCoin \/ PollDifficulty
  BY <1>4, DequeFrame
     DEF ReceiveStats, WaitOutBadCoins, ReceiveCoin, ClaimOk, ClaimBad, ClaimOtherError,
         SkipPoll, PollLastCoin, PollDifficulty
<1>5. CASE Prune
  <2>1. CASE pc' = "panicked"
    <3>1. UNCHANGED <<miners, oclminers, oclfuncs, phase>>
      BY <1>5, <2>1 DEF Prune
    <3> QED BY <3>1, DequeFrame
  <2>2. CASE pc' # "panicked"
    <3>1. PICK joined \in SUBSET Cpu :
            /\ Range(miners') = Range(miners) \ joined
            /\ IsInjective(miners')
            /\ oclminers' = oclminers
            /\ phase' = [m \in Miners |-> IF m \in joined THEN "idle" ELSE phase[m]]
      BY <1>5, <2>2, PruneEffect
    <3>2. OclOrder'
      BY <1>5, <3>1 DEF Prune, DequeInv, OclOrder, IsInjective
    <3>3. OutsideIdle' /\ CpuEnds'
      <4>1. Live' = (Range(miners) \ joined) \cup Range(oclminers)
        BY <3>1 DEF Live
      <4>2. Live \ joined \subseteq Live'
        BY <4>1 DEF Live
      <4> QED BY <3>1, <4>2 DEF DequeInv, OutsideIdle, CpuEnds
    <3> QED BY <3>1, <3>2, <3>3 DEF DequeInv
  <2> QED BY <2>1, <2>2
<1>6. CASE CoolDown
  BY <1>6, DequeFrame DEF CoolDown
<1>7. ASSUME NEW m \in Miners, Miner(m)
      PROVE  DequeInv'
  <2>1. UNCHANGED <<miners, oclminers, oclfuncs>>
    BY <1>7, MinerFrame
  <2>2. phase[m] # "idle"
    BY <1>7, Zenon DEF Miner, Round, BootCoin, BootDifficulty, TakeCoin, TakeDifficulty,
       Hit, Miss, Send, Report, Finish, Fail, Panic, Step
  <2>3. \E to : phase' = [phase EXCEPT ![m] = to] /\ (to \in {"ended", "done"} => m \in Cpu)
    BY <1>7 DEF Miner, Round, BootCoin, BootDifficulty, TakeCoin, TakeDifficulty,
       Hit, Miss, Send, Report, Finish, Fail, Panic, Step, AfterRound, DequeInv, CpuEnds
  <2>4. Live' = Live /\ m \in Live
    BY <2>1, <2>2 DEF Live, DequeInv, OutsideIdle
  <2>5. OutsideIdle' /\ CpuEnds'
    BY <2>3, <2>4 DEF DequeInv, OutsideIdle, CpuEnds, TypeInv, TypeOK, MinerType
  <2> QED BY <2>1, <2>5 DEF DequeInv, OclOrder, IsInjective
<1>8. CASE UNCHANGED vars
  BY <1>8, DequeFrame DEF vars
<1> QED BY <1>2, <1>3, <1>4, <1>5, <1>6, <1>7, <1>8 DEF Next, Manager

\* The invariant's order of the devices gives the round robin.
LEMMA OclOrderRoundRobin == DequeInv => RoundRobin
<1> SUFFICES ASSUME DequeInv, Len(oclminers) < Len(oclfuncs),
                    NEW i \in DOMAIN oclminers, oclminers[i] = Head(oclfuncs)
             PROVE  FALSE
  BY DEF RoundRobin, Range
<1>1. /\ oclfuncs \in Seq(Ocl) /\ Len(oclfuncs) \in Nat /\ Len(oclminers) \in Nat
      /\ DOMAIN oclfuncs = 1..Len(oclfuncs) /\ DOMAIN oclminers = 1..Len(oclminers)
  BY LenProperties DEF DequeInv, TypeInv, TypeOK, ManagerType
<1>2. Head(oclfuncs) = oclfuncs[1]
  BY <1>1, EmptySeq, HeadTailProperties
<1> DEFINE j == Len(oclfuncs) - Len(oclminers) + i
<1>3. j \in 2..Len(oclfuncs)
  BY <1>1
<1>4. oclfuncs[j] = oclfuncs[1]
  BY <1>1, <1>2 DEF DequeInv, OclOrder
<1> HIDE DEF j
<1>5. j \in DOMAIN oclfuncs /\ 1 \in DOMAIN oclfuncs /\ j # 1
  BY <1>1, <1>3
<1> QED BY <1>4, <1>5 DEF DequeInv, OclOrder, IsInjective

\* "Go through miners in round robin order": for any number of devices, the one
\* to start next has no live miner.
THEOREM RoundRobinStarts == Spec => []RoundRobin
<1> QED BY DequeInit, DequeStep, OclOrderRoundRobin, PTL DEF Spec

-----------------------------------------------------------------------------
(***************************************************************************)
(* Mail.                                                                   *)
(***************************************************************************)

\* A CPU miner holds a result only between finding it and sending it.
CpuFound == \A m \in Cpu : found[m] # None => phase[m] = "send"

MailInv == /\ NoLostCoin /\ NoLostDifficulty
           /\ BootMailPresent
           /\ CpuLabelsTrue /\ CpuFound

\* A miner is started with the manager's coin and difficulty.
LEMMA LaunchMail ==
  ASSUME DequeInv, MailInv, NEW m \in Miners, Launch(m),
         m \in Cpu => m \notin Range(miners),
         Live' = Live \cup {m},
         UNCHANGED <<last_coin, last_num_zeros, threadVars>>
  PROVE  MailInv'
<1> USE DEF DequeInv, TypeInv, TypeOK, Launch, threadVars, Miners
<1>1. last_coin \in Coins /\ last_num_zeros \in Difficulties
  BY DEF ManagerType
<1>2. NoLostCoin'
  BY <1>1 DEF MailInv, NoLostCoin, MinerType, Live
<1>3. NoLostDifficulty'
  BY <1>1 DEF MailInv, NoLostDifficulty, MinerType, Live
<1>4. BootMailPresent'
  BY <1>1, ConstantsAssumption DEF MailInv, BootMailPresent, MinerType
<1>5. m \in Cpu => phase[m] = "idle"
  <2>1. Range(oclminers) \subseteq Ocl
    BY RangeOfSeq DEF ManagerType
  <2> QED BY <2>1, ConstantsAssumption DEF OutsideIdle, Live
<1>6. (CpuLabelsTrue /\ CpuFound)'
  BY <1>5 DEF MailInv, CpuLabelsTrue, CpuFound, MinerType
<1> QED BY <1>2, <1>3, <1>4, <1>6 DEF MailInv

\* Steps that leave the deques, the threads and the manager's coin and
\* difficulty alone keep the invariant.
LEMMA MailFrame ==
  ASSUME MailInv,
         UNCHANGED <<miners, oclminers, last_coin, last_num_zeros, phase, threadVars,
                     mailVars>>
  PROVE  MailInv'
BY DEF MailInv, NoLostCoin, NoLostDifficulty, BootMailPresent, CpuLabelsTrue, CpuFound,
   Live, threadVars, mailVars

\* Each step of the manager keeps it.
LEMMA MailManagerStep == DequeInv /\ DequeInv' /\ MailInv /\ Manager => MailInv'
<1> SUFFICES ASSUME DequeInv, DequeInv', MailInv, Manager PROVE MailInv'
  OBVIOUS
<1> USE DEF managerVars, minerVars, threadVars, mailVars, Goto
<1>1. CASE StartNewMiner
  <2>1. CASE \E m \in Cpu \ Range(miners) : Launch(m) /\ miners' = Append(miners, m)
    <3>1. PICK m \in Cpu \ Range(miners) : Launch(m) /\ miners' = Append(miners, m)
      BY <2>1
    <3>2. Range(miners') = Range(miners) \cup {m}
      BY <3>1, AppendRange DEF DequeInv, TypeInv, TypeOK, ManagerType
    <3>3. Live' = Live \cup {m} /\ m \in Miners
      BY <1>1, <3>1, <3>2 DEF StartNewMiner, Live, Miners
    <3> QED BY <1>1, <3>1, <3>3, LaunchMail DEF StartNewMiner
  <2>2. CASE UNCHANGED <<miners, phase, mailVars>>
    BY <1>1, <2>2, MailFrame DEF StartNewMiner
  <2> QED BY <1>1, <2>1, <2>2 DEF StartNewMiner
<1>2. CASE StartOclMiner
  <2>1. CASE Len(oclminers) < Len(oclfuncs)
    <3>1. /\ oclminers \in Seq(Ocl) /\ oclfuncs \in Seq(Ocl)
          /\ Len(oclminers) \in Nat /\ Len(oclfuncs) \in Nat
      BY LenProperties DEF DequeInv, TypeInv, TypeOK, ManagerType
    <3>2. Head(oclfuncs) \in Ocl
      BY <2>1, <3>1, EmptySeq, HeadTailProperties
    <3>3. /\ Launch(Head(oclfuncs)) /\ oclminers' = Append(oclminers, Head(oclfuncs))
          /\ UNCHANGED <<miners, last_coin, last_num_zeros, threadVars>>
      BY <1>2, <2>1 DEF StartOclMiner, Rotated
    <3>4. Range(oclminers') = Range(oclminers) \cup {Head(oclfuncs)}
      BY <3>1, <3>2, <3>3, AppendRange
    <3>5. /\ Live' = Live \cup {Head(oclfuncs)} /\ Head(oclfuncs) \in Miners
          /\ Head(oclfuncs) \notin Cpu
      BY <3>2, <3>3, <3>4, ConstantsAssumption DEF Live, Miners
    <3> QED BY <3>3, <3>5, LaunchMail
  <2>2. CASE ~(Len(oclminers) < Len(oclfuncs))
    BY <1>2, <2>2, MailFrame DEF StartOclMiner, Rotated
  <2> QED BY <2>1, <2>2
<1>3. CASE ReceiveStats \/ WaitOutBadCoins \/ ReceiveCoin \/ ClaimBad
           \/ ClaimOtherError \/ SkipPoll
  BY <1>3, MailFrame
     DEF ReceiveStats, WaitOutBadCoins, ReceiveCoin, ClaimBad, ClaimOtherError, SkipPoll
<1>4. ASSUME NEW c \in Coins, last_coin' = c, UpdateMinersCoin(c),
             UNCHANGED <<miners, oclminers, last_num_zeros, phase, threadVars, mailZeros>>
      PROVE  MailInv'
  <2>1. NoLostCoin'
    BY <1>4, LiveMiners DEF NoLostCoin, UpdateMinersCoin, Live, DequeInv
  <2>2. BootMailPresent'
    BY <1>4, ConstantsAssumption DEF MailInv, BootMailPresent, UpdateMinersCoin
  <2> QED BY <1>4, <2>1, <2>2
          DEF MailInv, NoLostDifficulty, CpuLabelsTrue, CpuFound, Live
<1>5. CASE ClaimOk
  BY <1>4, <1>5 DEF ClaimOk
<1>6. CASE PollLastCoin
  <2>1. CASE \E c \in Coins : c # last_coin /\ last_coin' = c /\ UpdateMinersCoin(c)
    BY <1>4, <1>6, <2>1 DEF PollLastCoin
  <2>2. CASE UNCHANGED <<last_coin, mailCoin>>
    BY <1>6, <2>2, MailFrame DEF PollLastCoin
  <2> QED BY <1>6, <2>1, <2>2 DEF PollLastCoin
<1>7. CASE PollDifficulty
  <2>1. CASE UNCHANGED <<last_num_zeros, mailZeros>>
    BY <1>7, <2>1, MailFrame DEF PollDifficulty
  <2>2. ASSUME NEW z \in Difficulties, last_num_zeros' = z, UpdateMinersDifficulty(z)
        PROVE  MailInv'
    <3>1. NoLostDifficulty'
      BY <1>7, <2>2, LiveMiners
         DEF PollDifficulty, NoLostDifficulty, UpdateMinersDifficulty, Live, DequeInv
    <3>2. BootMailPresent'
      BY <1>7, <2>2, ConstantsAssumption
         DEF PollDifficulty, MailInv, BootMailPresent, UpdateMinersDifficulty
    <3> QED BY <1>7, <3>1, <3>2
            DEF PollDifficulty, MailInv, NoLostCoin, CpuLabelsTrue, CpuFound, Live
  <2> QED BY <1>7, <2>1, <2>2 DEF PollDifficulty
<1>8. CASE Prune
  <2>1. CASE pc' = "panicked"
    BY <1>8, <2>1, MailFrame DEF Prune
  <2>2. CASE pc' # "panicked"
    <3>1. PICK joined \in SUBSET Cpu :
            /\ \A m \in joined : phase[m] = "done"
            /\ Range(miners') = Range(miners) \ joined
            /\ oclminers' = oclminers
            /\ phase' = [m \in Miners |-> IF m \in joined THEN "idle" ELSE phase[m]]
            /\ coin' = Dropped(coin, joined) /\ zeros' = Dropped(zeros, joined)
            /\ mailCoin' = Dropped(mailCoin, joined)
            /\ mailZeros' = Dropped(mailZeros, joined)
            /\ found' = found
      BY <1>8, <2>2, PruneEffect
    <3>2. UNCHANGED <<last_coin, last_num_zeros>>
      BY <1>8 DEF Prune
    <3>3. Live' \subseteq Live /\ Live' \cap joined = {} /\ Live \subseteq Miners
      <4>1. Range(oclminers) \subseteq Ocl
        BY RangeOfSeq DEF DequeInv, TypeInv, TypeOK, ManagerType
      <4> QED BY <3>1, <4>1, LiveMiners, ConstantsAssumption DEF Live, DequeInv
    <3>4. (NoLostCoin /\ NoLostDifficulty)'
      BY <3>1, <3>2, <3>3 DEF MailInv, NoLostCoin, NoLostDifficulty, Dropped
    <3>5. BootMailPresent'
      BY <3>1 DEF MailInv, BootMailPresent, Dropped
    <3>6. (CpuLabelsTrue /\ CpuFound)'
      BY <3>1 DEF MailInv, CpuLabelsTrue, CpuFound, Miners
    <3> QED BY <3>4, <3>5, <3>6 DEF MailInv
  <2> QED BY <2>1, <2>2
<1> QED BY <1>1, <1>2, <1>3, <1>5, <1>6, <1>7, <1>8 DEF Manager

\* A thread that leaves the mail and its coin, difficulty and result alone.
LEMMA MailThreadFrame ==
  ASSUME DequeInv, MailInv, NEW m \in Miners, Miner(m),
         UNCHANGED <<coin, zeros, mailVars>>,
         phase[m] \notin {"boot", "bootz"},
         phase'[m] \notin {"boot", "bootz"}
  PROVE  (NoLostCoin /\ NoLostDifficulty /\ BootMailPresent)'
<1>1. UNCHANGED <<miners, oclminers, last_coin, last_num_zeros>>
  BY MinerFrame DEF managerVars
<1>2. \A w \in Miners \ {m} : phase'[w] = phase[w]
  BY DEF Miner, Round, BootCoin, BootDifficulty, TakeCoin, TakeDifficulty, Hit, Miss,
     Send, Report, Finish, Fail, Panic, Step, DequeInv, TypeInv, TypeOK, MinerType
<1> QED BY <1>1, <1>2
        DEF MailInv, NoLostCoin, NoLostDifficulty, BootMailPresent, Live, mailVars

\* Each step of a thread keeps the mail invariant.
LEMMA MailMinerStep ==
  ASSUME DequeInv, DequeInv', MailInv, NEW m \in Miners, Miner(m)
  PROVE  MailInv'
<1>1. UNCHANGED <<miners, oclminers, last_coin, last_num_zeros>> /\ Live' = Live
  BY MinerFrame DEF managerVars, Live
<1>2. MinerType /\ MinerType' /\ Equipped
  BY DEF DequeInv, TypeInv, TypeOK
<1> USE DEF MailInv, threadVars, mailVars, Step
<1>3. CASE BootCoin(m)
  <2>1. (NoLostCoin /\ NoLostDifficulty)'
    BY <1>1, <1>2, <1>3
       DEF BootCoin, NoLostCoin, NoLostDifficulty, BootMailPresent, MinerType
  <2>2. (BootMailPresent /\ CpuLabelsTrue /\ CpuFound)'
    BY <1>2, <1>3
       DEF BootCoin, BootMailPresent, CpuLabelsTrue, CpuFound, MinerType, Miners
  <2> QED BY <2>1, <2>2
<1>4. CASE BootDifficulty(m)
  <2>1. (NoLostCoin /\ NoLostDifficulty)'
    BY <1>1, <1>2, <1>4
       DEF BootDifficulty, NoLostCoin, NoLostDifficulty, BootMailPresent, MinerType
  <2>2. (BootMailPresent /\ CpuLabelsTrue /\ CpuFound)'
    BY <1>2, <1>4
       DEF BootDifficulty, BootMailPresent, CpuLabelsTrue, CpuFound, MinerType, Miners
  <2> QED BY <2>1, <2>2
<1>5. CASE TakeCoin(m)
  <2>1. (NoLostCoin /\ NoLostDifficulty)'
    BY <1>1, <1>2, <1>5
       DEF TakeCoin, Taken, NoLostCoin, NoLostDifficulty, MinerType
  <2>2. BootMailPresent'
    BY <1>2, <1>5 DEF TakeCoin, BootMailPresent, MinerType
  <2>3. (CpuLabelsTrue /\ CpuFound)'
    BY <1>2, <1>5 DEF TakeCoin, CpuLabelsTrue, CpuFound, MinerType, Miners
  <2> QED BY <2>1, <2>2, <2>3
<1>6. CASE TakeDifficulty(m)
  <2>1. (NoLostCoin /\ NoLostDifficulty)'
    BY <1>1, <1>2, <1>6
       DEF TakeDifficulty, Taken, NoLostCoin, NoLostDifficulty, MinerType
  <2>2. BootMailPresent'
    BY <1>2, <1>6 DEF TakeDifficulty, AfterRound, BootMailPresent, MinerType
  <2>3. m \in Cpu => found' = found
    BY <1>6 DEF TakeDifficulty, CpuFound
  <2>4. (CpuLabelsTrue /\ CpuFound)'
    <3>1. CASE m \in Cpu
      BY <1>2, <1>6, <2>3, <3>1
         DEF TakeDifficulty, CpuLabelsTrue, CpuFound, MinerType, Miners
    <3>2. CASE m \notin Cpu
      BY <1>2, <1>6, <3>2
         DEF TakeDifficulty, AfterRound, CpuLabelsTrue, CpuFound, MinerType, Miners
    <3> QED BY <3>1, <3>2
  <2> QED BY <2>1, <2>2, <2>4
<1>7. CASE Hit(m)
  <2>1. (NoLostCoin /\ NoLostDifficulty /\ BootMailPresent)'
    BY <1>2, <1>7, MailThreadFrame DEF Hit, MinerType
  <2>2. PICK n \in HashZeros :
          /\ m \in Cpu => n >= zeros[m]
          /\ found' = [found EXCEPT ![m] = [prev |-> coin[m], label |-> zeros[m], zeros |-> n]]
    BY <1>7 DEF Hit, StartsWithZeros
  <2>3. (CpuLabelsTrue /\ CpuFound)'
    <3>1. m \in Cpu => found'[m].zeros >= found'[m].label
      BY <1>2, <2>2 DEF MinerType
    <3>2. \A w \in Miners \ {m} : found'[w] = found[w] /\ phase'[w] = phase[w]
      BY <1>2, <1>7, <2>2 DEF Hit, MinerType
    <3>3. m \in Cpu => phase'[m] = "send"
      BY <1>2, <1>7 DEF Hit, MinerType
    <3> QED BY <3>1, <3>2, <3>3 DEF CpuLabelsTrue, CpuFound, Miners
  <2> QED BY <2>1, <2>3
<1>8. CASE Miss(m)
  <2>1. (NoLostCoin /\ NoLostDifficulty /\ BootMailPresent)'
    BY <1>2, <1>8, MailThreadFrame DEF Miss, AfterRound, MinerType
  <2>2. (CpuLabelsTrue /\ CpuFound)'
    BY <1>2, <1>8 DEF Miss, CpuLabelsTrue, CpuFound, MinerType, Miners
  <2> QED BY <2>1, <2>2
<1>9. CASE Send(m)
  <2>1. (NoLostCoin /\ NoLostDifficulty /\ BootMailPresent)'
    BY <1>2, <1>9, MailThreadFrame DEF Send, AfterRound, MinerType
  <2>2. (CpuLabelsTrue /\ CpuFound)'
    BY <1>2, <1>9 DEF Send, CpuLabelsTrue, CpuFound, MinerType, Miners
  <2> QED BY <2>1, <2>2
<1>10. CASE Report(m)
  <2>1. (NoLostCoin /\ NoLostDifficulty /\ BootMailPresent)'
    BY <1>2, <1>10, MailThreadFrame DEF Report, MinerType
  <2>2. (CpuLabelsTrue /\ CpuFound)'
    BY <1>2, <1>10 DEF Report, CpuLabelsTrue, CpuFound, MinerType, Miners
  <2> QED BY <2>1, <2>2
<1>11. CASE Finish(m) \/ Fail(m) \/ Panic(m)
  <2>1. (NoLostCoin /\ NoLostDifficulty /\ BootMailPresent)'
    <3>1. /\ UNCHANGED <<coin, zeros, mailCoin, mailZeros>>
          /\ \E to \in {"done", "failed", "dead"} : phase' = [phase EXCEPT ![m] = to]
      BY <1>11 DEF Finish, Fail, Panic
    <3>2. (NoLostCoin /\ NoLostDifficulty)'
      BY <1>1, <3>1 DEF NoLostCoin, NoLostDifficulty
    <3>3. BootMailPresent'
      BY <1>2, <3>1 DEF BootMailPresent, MinerType
    <3> QED BY <3>2, <3>3
  <2>2. (CpuLabelsTrue /\ CpuFound)'
    BY <1>2, <1>11 DEF Finish, Fail, Panic, CpuLabelsTrue, CpuFound, MinerType, Miners
  <2> QED BY <2>1, <2>2
<1> HIDE DEF Step
<1> QED
  BY <1>3, <1>4, <1>5, <1>6, <1>7, <1>8, <1>9, <1>10, <1>11 DEF Miner, Round

\* The mail invariant, with what it rests on, holds in every state.
LEMMA MailCorrect == Spec => [](DequeInv /\ MailInv)
<1>1. Init => DequeInv /\ MailInv
  <2> SUFFICES ASSUME Init PROVE MailInv
    BY DequeInit
  <2>1. Live = {}
    BY DEF Init, Live, Range
  <2> QED BY <2>1 DEF Init, MailInv, NoLostCoin, NoLostDifficulty, BootMailPresent,
          CpuLabelsTrue, CpuFound, Miners
<1>2. DequeInv /\ MailInv /\ [Next]_vars => (DequeInv /\ MailInv)'
  <2> SUFFICES ASSUME DequeInv, MailInv, [Next]_vars PROVE DequeInv' /\ MailInv'
    OBVIOUS
  <2>1. DequeInv'
    BY DequeStep
  <2>2. CASE Manager
    BY <2>1, <2>2, MailManagerStep
  <2>3. CASE \E m \in Miners : Miner(m)
    BY <2>1, <2>3, MailMinerStep
  <2>4. CASE CoolDown
    BY <2>1, <2>4, MailFrame DEF CoolDown, managerVars, minerVars
  <2>5. CASE UNCHANGED vars
    BY <2>1, <2>5, MailFrame DEF vars, managerVars, minerVars
  <2> QED BY <2>2, <2>3, <2>4, <2>5, <2>1 DEF Next
<1> QED BY <1>1, <1>2, PTL DEF Spec

\* No coin update is lost between the manager and any live miner.
THEOREM CoinsReachMiners == Spec => []NoLostCoin
<1>1. MailInv => NoLostCoin
  BY DEF MailInv
<1> QED BY MailCorrect, <1>1, PTL

\* No difficulty update is lost between the manager and any live miner.
THEOREM DifficultiesReachMiners == Spec => []NoLostDifficulty
<1>1. MailInv => NoLostDifficulty
  BY DEF MailInv
<1> QED BY MailCorrect, <1>1, PTL

\* A starting thread never unwraps an empty mailbox.
THEOREM BootNeverPanics == Spec => []BootMailPresent
<1>1. MailInv => BootMailPresent
  BY DEF MailInv
<1> QED BY MailCorrect, <1>1, PTL

\* What a CPU miner sends has at least the difficulty it is labelled with.
THEOREM CpuLabelsHold == Spec => []CpuLabelsTrue
<1>1. MailInv => CpuLabelsTrue
  BY DEF MailInv
<1> QED BY MailCorrect, <1>1, PTL

-----------------------------------------------------------------------------
(***************************************************************************)
(* Steps.                                                                  *)
(***************************************************************************)

\* A take hands a miner the manager's coin and difficulty of that moment, or
\* leaves it with what it has.
LEMMA TakesCurrent ==
  ASSUME DequeInv, MailInv, NEW m \in Miners, Miner(m)
  PROVE  /\ coin' = coin \/ coin' = [coin EXCEPT ![m] = last_coin]
         /\ zeros' = zeros \/ zeros' = [zeros EXCEPT ![m] = last_num_zeros]
         /\ UNCHANGED <<last_coin, last_num_zeros>>
<1>1. m \in Live
  <2>1. phase[m] # "idle"
    BY Zenon DEF Miner, Round, BootCoin, BootDifficulty, TakeCoin, TakeDifficulty,
       Hit, Miss, Send, Report, Finish, Fail, Panic, Step
  <2> QED BY <2>1 DEF DequeInv, OutsideIdle
<1>2. /\ mailCoin[m] # None => mailCoin[m] = last_coin
      /\ mailZeros[m] # None => mailZeros[m] = last_num_zeros
  BY <1>1 DEF MailInv, NoLostCoin, NoLostDifficulty
<1>3. UNCHANGED <<last_coin, last_num_zeros>>
  BY MinerFrame DEF managerVars
<1> USE DEF Step, threadVars
<1>4. CASE BootCoin(m)
  BY <1>2, <1>3, <1>4 DEF BootCoin, MailInv, BootMailPresent
<1>5. CASE BootDifficulty(m)
  BY <1>2, <1>3, <1>5 DEF BootDifficulty, MailInv, BootMailPresent
<1>6. CASE TakeCoin(m)
  BY <1>2, <1>3, <1>6 DEF TakeCoin, Taken, DequeInv, TypeInv, TypeOK, MinerType
<1>7. CASE TakeDifficulty(m)
  BY <1>2, <1>3, <1>7 DEF TakeDifficulty, Taken, DequeInv, TypeInv, TypeOK, MinerType
<1>8. CASE Hit(m) \/ Miss(m) \/ Send(m) \/ Report(m) \/ Finish(m) \/ Fail(m) \/ Panic(m)
  BY <1>3, <1>8 DEF Hit, Miss, Send, Report, Finish, Fail, Panic
<1> QED BY <1>4, <1>5, <1>6, <1>7, <1>8 DEF Miner, Round

\* The manager changes what miners work on only by taking miners out of service.
LEMMA ManagerKeepsWork ==
  ASSUME DequeInv, Manager
  PROVE  /\ \E gone \in SUBSET Miners :
              /\ coin' = Dropped(coin, gone)
              /\ zeros' = Dropped(zeros, gone)
         /\ UNCHANGED <<coin, zeros>> \/ UNCHANGED <<last_coin, last_num_zeros>>
<1> USE DEF managerVars, minerVars, threadVars, mailVars
<1>1. CASE Prune /\ pc' # "panicked"
  <2>1. PICK joined \in SUBSET Cpu :
          coin' = Dropped(coin, joined) /\ zeros' = Dropped(zeros, joined)
    BY <1>1, PruneEffect
  <2>2. UNCHANGED <<last_coin, last_num_zeros>>
    BY <1>1 DEF Prune
  <2> QED BY <2>1, <2>2 DEF Miners
<1>2. CASE ~(Prune /\ pc' # "panicked")
  <2>1. UNCHANGED <<coin, zeros>>
    BY <1>2 DEF Manager, StartNewMiner, StartOclMiner, ReceiveStats, WaitOutBadCoins,
       ReceiveCoin, ClaimOk, ClaimBad, ClaimOtherError, SkipPoll, PollLastCoin,
       PollDifficulty, Prune
  <2>2. coin' = Dropped(coin, {}) /\ zeros' = Dropped(zeros, {})
    BY <2>1 DEF Dropped, DequeInv, TypeInv, TypeOK, MinerType
  <2> QED BY <2>1, <2>2
<1> QED BY <1>1, <1>2

\* Any miner that changes its coin changes to the manager's current one: the
\* manager, its mailboxes and its miners implement a board.
THEOREM CoinBoardImplemented == Spec => ImplementsCoinBoard
<1>1. Init => CoinBoard!Init
  BY DEF Init, CoinBoard!Init
<1>2. DequeInv /\ MailInv /\ DequeInv' /\ [Next]_vars
        => [CoinBoard!Next]_<<last_coin, coin>>
  <2> SUFFICES ASSUME DequeInv, MailInv, DequeInv', [Next]_vars
               PROVE  [CoinBoard!Next]_<<last_coin, coin>>
    OBVIOUS
  <2>1. last_coin' \in Coins
    BY DEF DequeInv, TypeInv, TypeOK, ManagerType
  <2>2. CASE Manager
    <3>1. CASE UNCHANGED <<coin, zeros>>
      BY <2>1, <3>1 DEF CoinBoard!Next, CoinBoard!Publish
    <3>2. CASE UNCHANGED <<last_coin, last_num_zeros>>
      BY <2>2, <3>2, ManagerKeepsWork DEF CoinBoard!Next, CoinBoard!Leave, Dropped
    <3> QED BY <2>2, <3>1, <3>2, ManagerKeepsWork
  <2>3. CASE \E m \in Miners : Miner(m)
    BY <2>3, TakesCurrent DEF CoinBoard!Next, CoinBoard!CatchUp
  <2>4. CASE CoolDown \/ UNCHANGED vars
    BY <2>4 DEF CoolDown, vars, managerVars, minerVars, threadVars
  <2> QED BY <2>2, <2>3, <2>4 DEF Next
<1> QED BY <1>1, <1>2, MailCorrect, PTL DEF Spec, ImplementsCoinBoard, CoinBoard!Spec

\* The same for the difficulty.
THEOREM DifficultyBoardImplemented == Spec => ImplementsDifficultyBoard
<1>1. Init => DifficultyBoard!Init
  BY DEF Init, DifficultyBoard!Init
<1>2. DequeInv /\ MailInv /\ DequeInv' /\ [Next]_vars
        => [DifficultyBoard!Next]_<<last_num_zeros, zeros>>
  <2> SUFFICES ASSUME DequeInv, MailInv, DequeInv', [Next]_vars
               PROVE  [DifficultyBoard!Next]_<<last_num_zeros, zeros>>
    OBVIOUS
  <2>1. last_num_zeros' \in Difficulties
    BY DEF DequeInv, TypeInv, TypeOK, ManagerType
  <2>2. CASE Manager
    <3>1. CASE UNCHANGED <<coin, zeros>>
      BY <2>1, <3>1 DEF DifficultyBoard!Next, DifficultyBoard!Publish
    <3>2. CASE UNCHANGED <<last_coin, last_num_zeros>>
      BY <2>2, <3>2, ManagerKeepsWork
         DEF DifficultyBoard!Next, DifficultyBoard!Leave, Dropped
    <3> QED BY <2>2, <3>1, <3>2, ManagerKeepsWork
  <2>3. CASE \E m \in Miners : Miner(m)
    BY <2>3, TakesCurrent DEF DifficultyBoard!Next, DifficultyBoard!CatchUp
  <2>4. CASE CoolDown \/ UNCHANGED vars
    BY <2>4 DEF CoolDown, vars, managerVars, minerVars, threadVars
  <2> QED BY <2>2, <2>3, <2>4 DEF Next
<1> QED
  BY <1>1, <1>2, MailCorrect, PTL
     DEF Spec, ImplementsDifficultyBoard, DifficultyBoard!Spec

-----------------------------------------------------------------------------
(***************************************************************************)
(* Pruning.                                                                *)
(***************************************************************************)

\* What a prune that the process survives does to the deque of CPU miners.
LEMMA PruneRemoves ==
  ASSUME DequeInv, Prune, pc' = "cpu"
  PROVE  \E f \in FirstStopped(miners) :
           /\ miners' = Without(miners, f)
           /\ \A m \in Miners :
                phase'[m] = IF f # 0 /\ m = miners[f] THEN "idle" ELSE phase[m]
<1> USE DEF DequeInv, TypeInv, TypeOK
<1>1. PICK f \in FirstStopped(miners), j \in FirstStopped(oclminers) :
        /\ miners' = Without(miners, f)
        /\ ~ \E m \in {miners[k] : k \in {f} \ {0}} \cup {oclminers[k] : k \in {j} \ {0}} :
               phase[m] = "failed"
        /\ phase' = [m \in Miners |->
                       IF m \in {miners[k] : k \in {f} \ {0}}
                                  \cup {oclminers[k] : k \in {j} \ {0}}
                       THEN "idle" ELSE phase[m]]
  BY DEF Prune
<1>2. j = 0
  <2>1. SUFFICES ASSUME j # 0 PROVE FALSE
    OBVIOUS
  <2>2. j \in DOMAIN oclminers /\ phase[oclminers[j]] = "done"
    BY <1>1, <2>1 DEF FirstStopped, Stopped
  <2>3. oclminers[j] \in Ocl
    BY <2>2, LenProperties, ElementOfSeq DEF ManagerType
  <2> QED BY <2>2, <2>3, ConstantsAssumption DEF CpuEnds, Miners
<1>3. phase' = [m \in Miners |-> IF m \in {miners[k] : k \in {f} \ {0}}
                                  THEN "idle" ELSE phase[m]]
  BY <1>1, <1>2
<1>4. CASE f = 0
  BY <1>1, <1>3, <1>4
<1>5. CASE f # 0
  <2>1. {miners[k] : k \in {f} \ {0}} = {miners[f]}
    BY <1>5
  <2>2. \A m \in Miners :
          phase'[m] = IF f # 0 /\ m = miners[f] THEN "idle" ELSE phase[m]
    BY <1>3, <1>5, <2>1
  <2> QED BY <1>1, <2>2
<1> QED BY <1>4, <1>5

\* A stopped CPU miner moves up at each prune and never back, until it is joined.
THEOREM StoppedAdvances == Spec => StoppedMovesUp
<1> DEFINE Advances(i) ==
      \/ phase'[miners[i]] = "idle"
      \/ \E j \in Stopped(miners)' :
           /\ miners'[j] = miners[i] /\ j <= i
           /\ pc = "prune" /\ pc' = "cpu" => j < i
<1>1. ASSUME DequeInv, Next, NEW i \in Stopped(miners)
      PROVE  Advances(i)
  <2> DEFINE m == miners[i]
  <2>1. /\ i \in DOMAIN miners /\ i \in 1..Len(miners) /\ Len(miners) \in Nat
        /\ m \in Cpu /\ m \in Miners /\ phase[m] \in {"done", "failed"}
        /\ miners \in Seq(Cpu) /\ phase \in [Miners -> Phases] /\ m \in Range(miners)
    <3>1. i \in DOMAIN miners /\ phase[m] \in {"done", "failed"}
      BY DEF Stopped
    <3>2. miners \in Seq(Cpu) /\ phase \in [Miners -> Phases]
      BY <1>1 DEF DequeInv, TypeInv, TypeOK, ManagerType, MinerType
    <3> QED BY <3>1, <3>2, LenProperties, ElementOfSeq DEF Miners, Range
  <2>2. ASSUME i \in DOMAIN miners', miners'[i] = m, phase'[m] = phase[m],
               pc = "prune" => pc' # "cpu"
        PROVE  Advances(i)
    BY <2>1, <2>2 DEF Stopped
  <2>3. CASE StartNewMiner
    <3>1. pc # "prune"
      BY <2>3 DEF StartNewMiner, Goto
    <3>2. ASSUME NEW w \in Cpu \ Range(miners), Launch(w), miners' = Append(miners, w)
          PROVE  Advances(i)
      <4>1. i \in DOMAIN miners' /\ miners'[i] = m
        BY <2>1, <3>2, AppendProperties
      <4>2. phase'[m] = phase[m]
        BY <2>1, <3>2 DEF Launch
      <4> QED BY <2>2, <3>1, <4>1, <4>2
    <3>3. CASE UNCHANGED <<miners, phase, mailVars>>
      BY <2>1, <2>2, <3>1, <3>3
    <3> QED BY <2>3, <3>2, <3>3 DEF StartNewMiner
  <2>4. CASE StartOclMiner
    <3>1. pc # "prune" /\ miners' = miners
      BY <2>4 DEF StartOclMiner, Goto
    <3>2. phase'[m] = phase[m]
      <4>1. CASE Len(oclminers) < Len(oclfuncs)
        <5>1. oclfuncs \in Seq(Ocl) /\ oclminers \in Seq(Ocl)
          BY <1>1 DEF DequeInv, TypeInv, TypeOK, ManagerType
        <5>2. Head(oclfuncs) \in Ocl
          BY <4>1, <5>1, LenProperties, EmptySeq, HeadTailProperties
        <5>3. phase' = [phase EXCEPT ![Head(oclfuncs)] = "boot"]
          BY <2>4, <4>1 DEF StartOclMiner, Launch
        <5> QED BY <2>1, <5>2, <5>3, ConstantsAssumption
      <4>2. CASE ~(Len(oclminers) < Len(oclfuncs))
        BY <2>4, <4>2 DEF StartOclMiner
      <4> QED BY <4>1, <4>2
    <3> QED BY <2>1, <2>2, <3>1, <3>2
  <2>5. CASE ReceiveStats \/ WaitOutBadCoins \/ ReceiveCoin \/ ClaimOk \/ ClaimBad
             \/ ClaimOtherError \/ SkipPoll \/ PollLastCoin \/ PollDifficulty \/ CoolDown
    <3>1. UNCHANGED <<miners, phase>> /\ (pc = "prune" => pc' # "cpu")
      BY <2>5 DEF ReceiveStats, WaitOutBadCoins, ReceiveCoin, ClaimOk, ClaimBad,
         ClaimOtherError, SkipPoll, PollLastCoin, PollDifficulty, CoolDown, Goto,
         managerVars, minerVars
    <3> QED BY <2>1, <2>2, <3>1
  <2>6. CASE Prune /\ pc' # "cpu"
    <3>1. UNCHANGED <<miners, phase>>
      BY <2>6 DEF Prune, minerVars
    <3> QED BY <2>1, <2>2, <2>6, <3>1
  <2>7. CASE Prune /\ pc' = "cpu"
    <3>1. PICK f \in FirstStopped(miners) :
            /\ miners' = Without(miners, f)
            /\ \A w \in Miners :
                 phase'[w] = IF f # 0 /\ w = miners[f] THEN "idle" ELSE phase[w]
      BY <1>1, <2>7, PruneRemoves
    <3>2. f \in Stopped(miners) /\ f <= i
      BY DEF FirstStopped
    <3>3. f \in 1..Len(miners) /\ f # 0 /\ f \in DOMAIN miners
      BY <2>1, <3>2, LenProperties DEF Stopped
    <3>4. CASE f = i
      BY <2>1, <3>1, <3>3, <3>4
    <3>5. CASE f # i
      <4>1. m # miners[f]
        BY <1>1, <2>1, <3>3, <3>5 DEF DequeInv, IsInjective
      <4>2. phase'[m] = phase[m]
        BY <2>1, <3>1, <4>1
      <4>3. i - 1 \in 1..Len(miners) - 1 /\ ~(i - 1 < f) /\ i - 1 + 1 = i /\ i - 1 < i
        BY <2>1, <3>2, <3>3, <3>5
      <4>4. /\ miners' \in Seq(Cpu) /\ Len(miners') = Len(miners) - 1
            /\ miners'[i - 1] = m
        BY <2>1, <3>1, <3>3, <4>3, WithoutType
      <4>5. i - 1 \in DOMAIN miners'
        BY <4>3, <4>4, LenProperties
      <4>6. i - 1 \in Stopped(miners)'
        BY <2>1, <4>2, <4>4, <4>5 DEF Stopped
      <4> QED BY <2>1, <4>3, <4>4, <4>6
    <3> QED BY <3>4, <3>5
  <2>8. ASSUME NEW w \in Miners, Miner(w)
        PROVE  Advances(i)
    <3>1. /\ phase[w] \notin {"done", "failed"}
          /\ \E to : phase' = [phase EXCEPT ![w] = to]
      BY <2>8, Zenon DEF Miner, Round, BootCoin, BootDifficulty, TakeCoin, TakeDifficulty,
         Hit, Miss, Send, Report, Finish, Fail, Panic, Step
    <3>2. miners' = miners /\ pc' = pc
      BY <2>8, MinerFrame DEF managerVars
    <3> QED BY <2>1, <2>2, <3>1, <3>2
  <2> HIDE DEF Advances, m
  <2> QED BY <1>1, <2>3, <2>4, <2>5, <2>6, <2>7, <2>8 DEF Next, Manager
<1>2. DequeInv /\ [Next]_vars => [\A i \in Stopped(miners) : Advances(i)]_vars
  BY <1>1
<1>3. Spec => []DequeInv
  BY DequeInit, DequeStep, PTL DEF Spec
<1> QED BY <1>2, <1>3, PTL DEF Spec, StoppedMovesUp

\* The deque never outgrows nproducers, and a slot is free exactly when the deque
\* is shorter: what StartNewMiner asks for is the test miners.len() < nproducers.
\* With StoppedAdvances, a stopped miner is joined within nproducers loops.
FreeSlots ==
  /\ Len(miners) <= Cardinality(Cpu)
  /\ Len(miners) < Cardinality(Cpu) <=> Cpu \ Range(miners) # {}

THEOREM SlotsCounted == Spec => []FreeSlots
<1>1. DequeInv => FreeSlots
  <2> SUFFICES ASSUME DequeInv PROVE FreeSlots
    OBVIOUS
  <2> DEFINE D == 1..Len(miners)
  <2>1. /\ miners \in Seq(Cpu) /\ Len(miners) \in Nat /\ IsInjective(miners)
        /\ miners \in [D -> Cpu]
    BY LenProperties DEF DequeInv, TypeInv, TypeOK, ManagerType
  <2>2. miners \in Injection(D, Cpu)
    BY <2>1 DEF Injection
  <2>3. IsFiniteSet(D) /\ Cardinality(D) = Len(miners)
    <3> DEFINE n == Len(miners)
    <3>1. n \in Nat
      BY <2>1
    <3> HIDE DEF n
    <3>2. Cardinality(1..n) = n
      BY <3>1, FS_Interval
    <3>3. IsFiniteSet(1..n)
      BY <3>1, FS_Interval
    <3> QED BY <3>2, <3>3 DEF n
  <2>4. IsFiniteSet(Cpu) /\ Cardinality(Cpu) \in Nat
    BY ConstantsAssumption, FS_CardinalityType
  <2>5. /\ Cardinality(D) <= Cardinality(Cpu)
        /\ Cardinality(D) = Cardinality(Cpu) <=> miners \in Surjection(D, Cpu)
    BY <2>2, <2>4, FS_Injection
  <2>6. miners \in Surjection(D, Cpu) <=> Cpu \subseteq Range(miners)
    BY <2>1 DEF Surjection, Range
  <2> QED BY <2>1, <2>3, <2>4, <2>5, <2>6 DEF FreeSlots
<1>2. Spec => []DequeInv
  BY DequeInit, DequeStep, PTL DEF Spec
<1> QED BY <1>1, <1>2, PTL

\* The unwrap in stop() ends the process only for a miner that returned an Err, and
\* only a miner that may fail does: without one, nothing ends the manager's loop.
FailureBehindPanic ==
  /\ pc = "panicked" => \E m \in Miners : phase[m] = "failed"
  /\ \A m \in Miners : phase[m] = "failed" => m \in MayFail

THEOREM PanicNeedsFailure == Spec => []FailureBehindPanic
<1>1. Init => FailureBehindPanic
  BY DEF Init, FailureBehindPanic
<1>2. DequeInv /\ FailureBehindPanic /\ [Next]_vars => FailureBehindPanic'
  <2> SUFFICES ASSUME DequeInv, FailureBehindPanic, [Next]_vars PROVE FailureBehindPanic'
    OBVIOUS
  <2>1. phase \in [Miners -> Phases]
    BY DEF DequeInv, TypeInv, TypeOK, MinerType
  <2>2. ASSUME UNCHANGED phase, pc' = pc \/ pc' # "panicked" PROVE FailureBehindPanic'
    BY <2>2 DEF FailureBehindPanic
  <2>3. ASSUME NEW m, Launch(m), pc' # "panicked" PROVE FailureBehindPanic'
    BY <2>1, <2>3 DEF Launch, FailureBehindPanic
  <2>4. CASE StartNewMiner \/ StartOclMiner
    BY <2>2, <2>3, <2>4 DEF StartNewMiner, StartOclMiner, Goto
  <2>5. CASE \/ ReceiveStats \/ WaitOutBadCoins \/ ReceiveCoin \/ ClaimOk \/ ClaimBad
             \/ ClaimOtherError \/ SkipPoll \/ PollLastCoin \/ PollDifficulty \/ CoolDown
             \/ UNCHANGED vars
    BY <2>2, <2>5 DEF ReceiveStats, WaitOutBadCoins, ReceiveCoin, ClaimOk, ClaimBad,
       ClaimOtherError, SkipPoll, PollLastCoin, PollDifficulty, CoolDown, Goto, vars,
       managerVars, minerVars
  <2>6. CASE Prune
    <3>1. CASE pc' = "panicked"
      <4>1. UNCHANGED phase
        BY <2>6, <3>1 DEF Prune, minerVars
      <4>2. \E m \in Live : phase[m] = "failed"
        BY <2>6, <3>1 DEF Prune, FirstStopped, Stopped, Live, Range
      <4> QED BY <4>1, <4>2, LiveMiners DEF DequeInv, FailureBehindPanic
    <3>2. CASE pc' # "panicked"
      BY <2>1, <2>6, <3>2, PruneEffect DEF FailureBehindPanic
    <3> QED BY <3>1, <3>2
  <2>7. ASSUME NEW m \in Miners, Miner(m) PROVE FailureBehindPanic'
    <3>1. \E to : phase' = [phase EXCEPT ![m] = to] /\ (to = "failed" => m \in MayFail)
      <4>1. CASE Fail(m)
        BY <4>1 DEF Fail, Step
      <4>2. CASE ~Fail(m)
        <5>1. \E to \in Phases \ {"failed"} : phase' = [phase EXCEPT ![m] = to]
          BY <2>7, <4>2, Zenon DEF Miner, Round, BootCoin, BootDifficulty, TakeCoin,
             TakeDifficulty, Hit, Miss, Send, Report, Finish, Panic, Step, AfterRound, Phases
        <5> QED BY <5>1
      <4> QED BY <4>1, <4>2
    <3>2. pc' = pc /\ pc # "panicked"
      BY <2>7, MinerFrame
    <3> QED BY <2>1, <3>1, <3>2 DEF FailureBehindPanic
  <2> QED BY <2>4, <2>5, <2>6, <2>7 DEF Next, Manager
<1>3. Spec => []DequeInv
  BY DequeInit, DequeStep, PTL DEF Spec
<1> QED BY <1>1, <1>2, <1>3, PTL DEF Spec
=============================================================================
