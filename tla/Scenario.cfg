SPECIFICATION Spec
CONSTANTS
  r1 = r1
  r2 = r2
  q = q
  x = x
  p1 = p1
  p2 = p2
  n1 = n1
  A = A
  None = None
  Started = Started
  Pods = {p1, p2}
  Names = {n1}
  States = {Started, A}
  Requests = {r1, r2}
  Setters = {q}
  Resets = {x}
  PodOf <- PodMap
  Candidates <- Flows
  CasAttempts = 2
  MaxFaults = 1
INVARIANTS TypeOK AnsweredInOneWorld LostOnlyToAnother ResetRestarts
PROPERTIES OneSharedMachine
CHECK_DEADLOCK FALSE
