---------------------------- MODULE OclLoopProofs ----------------------------
(***************************************************************************)
(* The loop of the OpenCL miner behaves like the tuning and like the       *)
(* difficulty alone, so that what is proved of either holds of the loop.   *)
(***************************************************************************)
EXTENDS OclLoop, OclTuningProofs, HashTestsProofs

\* A new difficulty in the middle of a search does not disturb the tuning.
THEOREM LoopTunes == LoopSpec => Spec
<1>1. LoopInit => Init
  BY DEF LoopInit
<1>2. [LoopNext]_loopVars => [Next]_vars
  BY DEF LoopNext, CountedRound, Uncounted, Next, loopVars
<1> QED  BY <1>1, <1>2, PTL DEF LoopSpec, Spec

\* Whatever the tuning does with a round, the mask follows the difficulty.
THEOREM LoopMasks == LoopSpec => DifficultySpec
<1>1. LoopInit => BootDifficulty
  BY DEF LoopInit
<1>2. [LoopNext]_loopVars => [TakeDifficulty]_difficultyVars
  BY DEF LoopNext, CountedRound, Uncounted, loopVars, difficultyVars
<1> QED  BY <1>1, <1>2, PTL DEF LoopSpec, DifficultySpec

\* The types and the safety properties of both, of the loop that runs them together.
THEOREM LoopSafe ==
  LoopSpec => /\ [](TypeOK /\ IdleOnlyIfFirstTooSlow /\ WorkBounded)
              /\ [](TestsAgree /\ MaskExact)
              /\ TooSlowForAReason
BY LoopTunes, LoopMasks, TuningTypes, IdleOnlyAtFirst, SearchBounded, SlownessHasAReason,
   TestsOnBytesAndDigitsAgree, MaskIsExact, PTL
=============================================================================
