SPECIFICATION Spec
CONSTANTS
  Cpu = {}
  Ocl = {g1, g2}
  Coins = {k1, k2}
  Difficulties = {1, 2}
  HashZeros = {1}
  None = None
  COIN_CAP = 1
  STATS_CAP = 1
  BAD_LIMIT = 1
  MayFail = {g1, g2}
SYMMETRY Symmetry
CHECK_DEADLOCK FALSE
INVARIANTS
  TypeOK
  NoLostCoin
  BootMailPresent
  RoundRobin
  NoLostDifficulty
PROPERTIES
  ImplementsCoinBoard
  ImplementsDifficultyBoard
