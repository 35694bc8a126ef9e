SPECIFICATION FairSpec
CONSTANTS
  r1 = r1
  r2 = r2
  p1 = p1
  p2 = p2
  i1 = i1
  i2 = i2
  a = a
  f = f
  NoText = NoText
  Requests = {r1, r2}
  Ids = {i1}
  Pods = {p1}
  IdsOf <- AnyId
  PodOf <- Alone
  Texts = {a, f}
  FileTexts = {f}
  Mappings <- Ephemeral
  Tagged = {a}
  Contents = {0}
  Batches <- NoBatches
  Ops = {"create", "delete", "expire", "file"}
  MaxRequests = 2
  MaxFaults = 1
  Resyncs = TRUE
PROPERTIES Converges
CHECK_DEADLOCK FALSE
