SPECIFICATION FairLoopSpec
CONSTANTS
  ITERATIONS = 2
  MAX_LOOP_MS = 3
  HASHES = 4
  MinMs = 1
  MaxMs = 4
  HostMs = 1
  MaxDiscards = 1
  WordDigits = 4
  Digits = {0, 5}
  Difficulties = {3, 4, 5, 6}
CHECK_DEADLOCK FALSE
INVARIANTS
  TypeOK
  IdleOnlyIfFirstTooSlow
  WorkBounded
  TestsAgree
  MaskExact
PROPERTIES
  TooSlowForAReason
  PeakFound
