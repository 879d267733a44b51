SPECIFICATION Spec
CONSTANTS
  NoRoom = NoRoom
  NoThread = NoThread
  NumServers = 2
  Room = {r1}
  Capacity = 2
  MaxFailures = 1
  MaxOthers = 1
  OtherName = {0, 1}
  ReuseAddress = FALSE
  MaxName = 2
  LocationMayFail = FALSE
  ConnectMayFail = FALSE
  Stale <- NoStale
  LeftoverId <- NoId
  LeftoverRoom <- NoRoomYet
CHECK_DEADLOCK FALSE
PROPERTIES OthersUntouched
