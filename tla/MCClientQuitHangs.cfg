SPECIFICATION Spec
CONSTANTS
  NoRoom = NoRoom
  NoThread = NoThread
  NumServers = 2
  Room = {r1}
  Capacity = 2
  MaxFailures = 1
  MaxOthers = 0
  OtherName = {0}
  ReuseAddress = FALSE
  MaxName = 1
  LocationMayFail = FALSE
  ConnectMayFail = FALSE
  Stale <- NoStale
  LeftoverId <- NoId
  LeftoverRoom <- NoRoomYet
CHECK_DEADLOCK FALSE
PROPERTIES QuitReturns
