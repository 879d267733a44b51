SPECIFICATION Spec
CONSTANTS
  NULL = NULL
  NoId = NoId
  Member = {m1, m2, m3, m4}
  Room = {r1, r2, r3, r4}
  MemberId = {i1, i2, i3, i4}
  MemberName = {u1, u2, u3, u4}
  RoomName = {n1, n2, n3, n4}
  LongName = {long}
  MAX_NUM_OF_ROOMS = 3
  MAX_NUM_OF_MEMBERS_PER_ROOM = 2
  MAX_NUM_OF_MEMBERS = 3
ACTION_CONSTRAINT Canonical InScope
CHECK_DEADLOCK FALSE
INVARIANTS TypeOK SessionListSound RostersSound RoomListSound CountersAgree
  NoDanglingPointer IdsAndNamesUnique WithinLimits EmptyFlagMeansEmpty BroadcastFollowsRoll
  SweepMarksAll
PROPERTIES OccupiedRoomKept SweepLooksOnce
