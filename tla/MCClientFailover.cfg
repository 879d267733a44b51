SPECIFICATION Spec
CONSTANTS
  NoRoom = NoRoom
  NoThread = NoThread
  NumServers = 3
  Room = {r1}
  Capacity = 2
  MaxFailures = 2
  MaxOthers = 1
  OtherName = {0}
  ReuseAddress = FALSE
  MaxName = 3
  LocationMayFail = TRUE
  ConnectMayFail = TRUE
  Stale <- SomeStale
  LeftoverId <- SomeId
  LeftoverRoom <- SomeRoom
CHECK_DEADLOCK FALSE
INVARIANTS TypeOK LockDiscipline IdIsCurrent OneSession
PROPERTIES RequestsReturn FailureIsRecoveredElsewhere SessionHeard
