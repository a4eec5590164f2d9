SPECIFICATION Spec
CONSTANTS
  main = main
  poller = poller
  Proxies = {p1, p2}
  Threads <- MCThreads
  Reader = poller
  Quota <- MCQuota
  None = None
  KeepAge = 1
  BadAge = 2
  MaxFails = 1
  MaxTime = 5
SYMMETRY Symmetry
INVARIANTS
  TypeOK
  Accounted
  NoCircularWait
PROPERTIES
  DropsOnlyOutlived
  ImplementsPool
