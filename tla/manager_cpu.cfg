SPECIFICATION FairSpec
CONSTANTS
  Cpu = {c1, c2}
  Ocl = {}
  Coins = {k1}
  Difficulties = {1, 2}
  HashZeros = {1}
  None = None
  COIN_CAP = 1
  STATS_CAP = 1
  BAD_LIMIT = 1
  MayFail = {c1}
CHECK_DEADLOCK FALSE
INVARIANTS
  CpuLabelsTrue
PROPERTIES
  StoppedPruned
  StoppedMovesUp
