SPECIFICATION MCSpec
CONSTANTS
  r1 = r1
  r2 = r2
  p1 = p1
  p2 = p2
  i1 = i1
  i2 = i2
  a = a
  f = f
  NoText = NoText
  Requests = {r1, r2}
  Ids = {i1, i2}
  Texts = {a, f}
  IdsOf <- FirstNames
  Mappings <- Ephemeral
  Tagged = {a}
  Contents = {0, 1}
  Batches <- Pruning
  Ops = {"create", "update", "delete", "reset", "deleteAll", "removeByMetadata", "save", "import", "file", "settings"}
  MaxRequests = 3
  MaxFaults = 1
  Pods = {p1, p2}
  PodOf <- BothPods
  FileTexts = {f}
  Resyncs = FALSE
INVARIANTS TypeOK Settled ReadYourWrites  SeqsDistinct ImportOutcome
PROPERTIES PrecedenceKept
CHECK_DEADLOCK FALSE
