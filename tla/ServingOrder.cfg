SPECIFICATION Spec
CONSTANTS
  r1 = r1
  r2 = r2
  p1 = p1
  p2 = p2
  i1 = i1
  i2 = i2
  a = a
  f = f
  NoText = NoText
  Requests = {r1}
  Ids = {i1, i2}
  Pods = {p1}
  IdsOf <- AnyId
  PodOf <- Alone
  Texts = {a}
  FileTexts = {}
  Mappings <- Ephemeral
  Tagged = {a}
  Contents = {0}
  Batches <- NoBatches
  Ops = {"create", "delete"}
  MaxRequests = 4
  MaxFaults = 0
  Resyncs = FALSE
INVARIANTS OrderAgrees
CHECK_DEADLOCK FALSE
