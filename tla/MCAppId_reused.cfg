SPECIFICATION AppIdSpec
CONSTANTS
  Pids = {1, 2}
  Programs <- MCPrograms
  TTL = 2
  MaxStarts = 3
  MaxExecs = 1
  Horizon = 3
INVARIANT HitsOwn
CHECK_DEADLOCK FALSE
