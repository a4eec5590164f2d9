------------------------------- MODULE OclLoop -------------------------------
(***************************************************************************)
(* The loop of the OpenCL miner with both of its concerns: the tuning of   *)
(* the work group multiplier (OclTuning) and the difficulty with its mask  *)
(* (HashTests).  A round that is cut short by a new coin takes no          *)
(* difficulty; one that counts takes it first, if there is a new one.      *)
(***************************************************************************)
EXTENDS OclTuning, HashTests

loopVars == <<vars, difficultyVars>>

LoopInit == Init /\ BootDifficulty

CountedRound == Counted /\ (TakeDifficulty \/ UNCHANGED difficultyVars)

Uncounted ==
  /\ (\E ms \in Durations : DiscardRound(ms)) \/ EnqueueFails \/ TenMinutesPass
  /\ UNCHANGED difficultyVars

LoopNext == CountedRound \/ Uncounted

LoopSpec == LoopInit /\ [][LoopNext]_loopVars
FairLoopSpec == LoopSpec /\ Fairness
=============================================================================
