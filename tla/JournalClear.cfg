SPECIFICATION Spec
CONSTANTS
  r1 = r1
  r2 = r2
  Requests = {r1, r2}
  Unmatched = {r1}
  Settings <- SmallOrLarge
  Workers = {1, 2}
  Clears = {1}
  BufferEntries = 1
  BufferBytes = 2
  BatchSize = 2
  UseRangeScan = TRUE
  MaxFaults = 1
INVARIANT ClearEmpties
CHECK_DEADLOCK FALSE
