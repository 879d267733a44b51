SPECIFICATION Spec
CONSTANTS
  NULL = NULL
  NoId = NoId
  Member = {m1, m2}
  Room = {r1, r2}
  MemberId = {i1, i2}
  MemberName = {u1, u2}
  RoomName = {n1, n2}
  LongName = {long}
  MAX_NUM_OF_ROOMS = 2
  MAX_NUM_OF_MEMBERS_PER_ROOM = 2
  MAX_NUM_OF_MEMBERS = 2
ACTION_CONSTRAINT Canonical
CHECK_DEADLOCK FALSE
PROPERTIES LoopsEnd SilentSessionsEnd ImplementsService ImplementsLiveService
