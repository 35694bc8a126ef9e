SPECIFICATION Spec
CONSTANTS
  p1 = p1
  p2 = p2
  r1 = r1
  r2 = r2
  Pods = {p1, p2}
  VBs = {v1}
  Colls = {mappings}
  Requests = {r1, r2}
  PodOf <- OnePerPod
  UseRangeScan = TRUE
  Resyncs = FALSE
  PublishAttempts = 2
  MaxSeq = 2
  MaxEpoch = 2
  MaxUuid = 1
  MaxFaults = 0
SYMMETRY SwapPods
INVARIANTS TypeOK PublishedWritesSeen
PROPERTIES PublishedNeverWeakens
CHECK_DEADLOCK FALSE
