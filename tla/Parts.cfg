SPECIFICATION MCSpec
CONSTANTS
  Mappings = {"a"}
  Bodies = {"b"}
  Contents = {"one", "two"}
  MaxEdits = 2
  MaxFaults = 1
  StubLists <- Lineups
  Requests <- Calls
  Exchanges <- Ways
  MaxDuration = 7
  MaxStall = 2
INVARIANTS PollTrusts FirstInOrder WholeMessage ScanIsEval EvalSelects JsonEqualityExact RepeatsDistribute RecordedAgrees NearestFirst DistanceIsLeast
PROPERTIES EditsTakeEffect
\* A selection ends with its verdict, and a pure function has no next step.
CHECK_DEADLOCK FALSE
