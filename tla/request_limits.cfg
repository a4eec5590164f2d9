SPECIFICATION Spec
CONSTANTS
  CLAIM_LIMIT = 4
  COIN_LIMIT = 2
  DIFFICULTY_LIMIT = 1
  Window = 2
  MaxTime = 6
INVARIANTS
  TypeOK
  NeverTooMany
  ClaimsReserved
  CountsLastMinute
