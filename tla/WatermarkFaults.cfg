SPECIFICATION FairSpec
CONSTANTS
  p1 = p1
  p2 = p2
  r1 = r1
  r2 = r2
  Pods = {p1, p2}
  VBs = {v1}
  Colls = {mappings}
  Requests = {r1}
  PodOf <- OneWriter
  UseRangeScan = TRUE
  Resyncs = FALSE
  PublishAttempts = 2
  MaxSeq = 1
  MaxEpoch = 1
  MaxUuid = 2
  MaxFaults = 1
INVARIANTS OwnWritesSeen PublishedWritesSeen
PROPERTIES SnapshotNeverRegresses ConvergesUnlessWedged
CHECK_DEADLOCK FALSE
