SPECIFICATION FairSpec
CONSTANTS
  Coins = {k0, k1, k2, k3}
  None = None
  StartCoin = k0
  NProxies = 2
  MAX_CLAIM_PROXIES = 1
  MaxCrashes = 1
INVARIANTS
  TypeOK
  WalletSound
  WalletComplete
  OnlyRealCoins
PROPERTIES
  ImplementsLedger
  SettledStays
  LearnsTip
