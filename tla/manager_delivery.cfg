SPECIFICATION FairSpec
CONSTANTS
  Cpu = {c1}
  Ocl = {g1}
  Coins = {k1, k2}
  Difficulties = {1}
  HashZeros = {1}
  None = None
  COIN_CAP = 1
  STATS_CAP = 1
  BAD_LIMIT = 1
  MayFail = {}
PROPERTIES
  CatchesUp
  CoinsDrained
