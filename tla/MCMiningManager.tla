--------------------------- MODULE MCMiningManager ---------------------------
EXTENDS MiningManager, TLC

\* Coins and devices are interchangeable.
Symmetry == Permutations(Coins) \cup Permutations(Ocl)
=============================================================================
