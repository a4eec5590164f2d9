SPECIFICATION Spec
CONSTANTS
  ITERATIONS = 2
  MAX_LOOP_MS = 3
  HASHES = 4
  MinMs = 1
  MaxMs = 1
  HostMs = 0
  MaxDiscards = 0
INVARIANTS
  WithinMaxMs
