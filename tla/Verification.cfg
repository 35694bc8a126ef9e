SPECIFICATION MCSpec
CONSTANTS
  Mappings = {"a"}
  Bodies = {"b"}
  Contents = {"one", "two"}
  MaxEdits = 2
  MaxFaults = 1
  StubLists <- Lineups
  Requests <- Calls
  Exchanges <- Ways
  MaxDuration = 7
  MaxStall = 2
INVARIANTS VerificationAgrees
CHECK_DEADLOCK FALSE
