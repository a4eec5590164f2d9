SPECIFICATION Spec
CONSTANTS
  WorkItems = 2
  N_LOOPS = 2
  N_LOOPS_2 = 2
  BLOB_LEN_FAST = 4
  HALF = 4
  SHIFT_I = 1
  SHIFT_J = 2
INVARIANTS
  TypeOK
  HitsReported
  RebuiltExactly
  MixtureOfReports
  NoMessageTwice
