-------------------------- MODULE ChatServerProofs --------------------------
(***************************************************************************)
(* What holds of the server for every number of members, rooms and names    *)
(* and for every setting of the three limits.                               *)
(***************************************************************************)
EXTENDS ChatServer, DListProofs

-----------------------------------------------------------------------------
(* The helpers of ChatServer return values of the types of the variables. *)

\* The list of a room, taken out of the roster, is a list.
LEMMA RoomAsListType ==
  ASSUME NEW R \in RosterType, NEW r \in Room
  PROVE  RoomList(R, r) \in DListType
BY DEF RosterType, DListType, RoomList

\* Putting a list back in the roster yields a roster.
LEMMA SetRoomListType ==
  ASSUME NEW R \in RosterType, NEW r \in Room, NEW L \in DListType
  PROVE  SetRoomList(R, r, L) \in RosterType
BY DEF RosterType, DListType, SetRoomList

\* Leaving a room (process_switch_room_request, remove_member).
LEMMA LeaveRoomType ==
  ASSUME TypeOK, NEW m \in Member
  PROVE  LeaveRoom(m) \in RosterType
<1> DEFINE r == member[m].current_room
<1>1. roster \in RosterType /\ r \in RoomPtr BY DEF TypeOK, MemberType
<1>2. CASE r = NULL BY <1>1, <1>2 DEF LeaveRoom
<1>3. CASE r # NULL
  <2>1. r \in Room BY <1>1, <1>3 DEF RoomPtr
  <2>2. Unlink(RoomList(roster, r), m) \in DListType
    BY <1>1, <2>1, RoomAsListType, UnlinkType
  <2> QED BY <1>1, <1>3, <2>1, <2>2, SetRoomListType DEF LeaveRoom
<1> QED BY <1>2, <1>3

\* Entering one.
LEMMA EnterRoomType ==
  ASSUME TypeOK, NEW m \in Member, NEW r \in Room
  PROVE  EnterRoom(m, r) \in RosterType
<1>1. LeaveRoom(m) \in RosterType BY LeaveRoomType
<1>2. RoomList(LeaveRoom(m), r) \in DListType BY <1>1, RoomAsListType
<1>3. LinkTail(ClearLinks(RoomList(LeaveRoom(m), r), m), m) \in DListType
  BY <1>2, ClearLinksType, LinkTailType
<1> QED BY <1>1, <1>3, SetRoomListType DEF EnterRoom

\* remove_member.
LEMMA RosterAfterRemovalType ==
  ASSUME TypeOK, NEW m \in Member
  PROVE  RosterAfterRemoval(m) \in RosterType
<1>1. LeaveRoom(m) \in RosterType BY LeaveRoomType
<1> QED BY <1>1 DEF RosterAfterRemoval, RosterType, MemberPtr

\* A room with nobody on its list.
LEMMA RosterClearedType ==
  ASSUME TypeOK, NEW r \in Room
  PROVE  RosterCleared(r) \in RosterType
BY DEF RosterCleared, SetRoomList, TypeOK, RosterType, MemberPtr

\* A room with another count.
LEMMA RoomWithCount ==
  ASSUME NEW x \in RoomType, NEW v \in Int
  PROVE  [x EXCEPT !.num_of_members = v] \in RoomType
BY DEF RoomType

\* Counting a member out of its room.
LEMMA CountsAfterLeavingType ==
  ASSUME TypeOK, NEW m \in Member
  PROVE  CountsAfterLeaving(m) \in [Room -> RoomType]
<1> DEFINE r == member[m].current_room
<1>1. room \in [Room -> RoomType] /\ r \in RoomPtr BY DEF TypeOK, MemberType
<1>2. CASE r = NULL BY <1>1, <1>2 DEF CountsAfterLeaving
<1>3. CASE r # NULL
  <2>1. r \in Room /\ room[r] \in RoomType BY <1>1, <1>3 DEF RoomPtr
  <2>2. room[r].num_of_members - 1 \in Int BY <2>1 DEF RoomType
  <2>3. [room[r] EXCEPT !.num_of_members = @ - 1] \in RoomType BY <2>1, <2>2, RoomWithCount
  <2> QED BY <1>1, <1>3, <2>3 DEF CountsAfterLeaving
<1> QED BY <1>2, <1>3

\* Counting a member in.
LEMMA RoomEnteredType ==
  ASSUME NEW r \in Room, NEW counts \in [Room -> RoomType]
  PROVE  RoomEntered(r, counts) \in [Room -> RoomType]
<1> DEFINE x == [counts[r] EXCEPT !.num_of_members = @ + 1]
<1>1. counts[r].num_of_members + 1 \in Int BY DEF RoomType
<1>2. x \in RoomType BY <1>1, RoomWithCount
<1>3. [x EXCEPT !.empty_flag = 0] \in RoomType BY <1>2 DEF RoomType
<1>4. RoomEntered(r, counts) = [counts EXCEPT ![r] = [x EXCEPT !.empty_flag = 0]]
  BY DEF RoomEntered
<1> QED BY <1>3, <1>4

\* A request is noted in the quiet flag of its member.
LEMMA HeardType ==
  ASSUME TypeOK, NEW m \in Member
  PROVE  Heard(m) \in [Member -> MemberType]
BY DEF Heard, TypeOK, MemberType

\* create_room and remove_room.
LEMMA RoomListOpsType ==
  ASSUME TypeOK, NEW r \in Room
  PROVE  LinkRoom(r) \in RoomListType /\ UnlinkRoom(r) \in RoomListType
<1>1. LinkRoom(r) \in RoomListType BY DEF LinkRoom, TypeOK, RoomListType, RoomPtr
<1>2. UnlinkRoom(r) \in RoomListType BY DEF UnlinkRoom, TypeOK, RoomListType, RoomPtr
<1> QED BY <1>1, <1>2

\* The part of TypeOK that remove_member is about.
LEMMA RemoveMemberType ==
  ASSUME TypeOK, NEW m \in Member, RemoveMember(m)
  PROVE  /\ members' \in SUBSET Member
         /\ member' \in [Member -> MemberType]
         /\ mem_list' \in DListType
         /\ total_num_of_members' \in Int
         /\ rooms' \in SUBSET Room
         /\ room' \in [Room -> RoomType]
         /\ room_list' \in RoomListType
         /\ roster' \in RosterType
         /\ total_num_of_rooms' \in Int
<1>1. roster' \in RosterType BY RosterAfterRemovalType DEF RemoveMember
<1>2. room' \in [Room -> RoomType] BY CountsAfterLeavingType DEF RemoveMember
<1>3. mem_list' \in DListType BY UnlinkType, ClearLinksType DEF RemoveMember, TypeOK
<1>4. member' \in [Member -> MemberType]
  BY DEF RemoveMember, TypeOK, MemberType, BlankMember, RoomPtr
<1> QED BY <1>1, <1>2, <1>3, <1>4 DEF RemoveMember, TypeOK

\* And the part that create_room is about.
LEMMA AddRoomType ==
  ASSUME TypeOK, NEW name \in RoomName \cup LongName, AddRoom(name)
  PROVE  /\ rooms' \in SUBSET Room
         /\ room' \in [Room -> RoomType]
         /\ room_list' \in RoomListType
         /\ roster' \in RosterType
         /\ total_num_of_rooms' \in Int
<1>1. name \in RoomName BY DEF AddRoom, create_room
<1>2. PICK r \in Room \ rooms :
        /\ rooms' = rooms \cup {r}
        /\ room' = [room EXCEPT ![r] = [BlankRoom EXCEPT !.room_name = name]]
        /\ room_list' = LinkRoom(r)
        /\ roster' = RosterCleared(r)
  BY DEF AddRoom
<1>3. [BlankRoom EXCEPT !.room_name = name] \in RoomType BY <1>1 DEF BlankRoom, RoomType
<1> QED BY <1>2, <1>3, RoomListOpsType, RosterClearedType DEF AddRoom, TypeOK

-----------------------------------------------------------------------------
(* Type correctness. *)

\* The initial tables are empty.
LEMMA TypeInit == Init => TypeOK
BY DEF Init, TypeOK, PC, BlankMember, BlankRoom, NoReply, EmptyList, DListType, MemberType,
       RoomType, RoomListType, RosterType, MemberPtr, RoomPtr

\* Every handler and every loop iteration keeps the types.
LEMMA TypeStep == TypeOK /\ [Next]_vars => TypeOK'
<1> SUFFICES ASSUME TypeOK, [Next]_vars PROVE TypeOK' OBVIOUS
<1> USE DEF Serving, Request, loopVars, sessionVars, roomVars, replyVars, Answer,
            AnswerWithList, NoAnswer, NoReply
<1>1. ASSUME NEW name \in RoomName, InitRoom(name) PROVE TypeOK'
  BY <1>1, AddRoomType DEF InitRoom, TypeOK
<1>2. CASE InitDone BY <1>2 DEF InitDone, TypeOK, PC
<1>3. CASE SweepMember
  <2>1. cursor \in Member /\ mem_list.next[cursor] \in MemberPtr
    BY <1>3 DEF SweepMember, TypeOK, MemberPtr, DListType
  <2>2. pc' = "sweep_members" /\ cursor' \in MemberPtr
    BY <1>3, <2>1 DEF SweepMember, NextToSweep
  <2>3. CASE ~IsQuiet(cursor)
    <3>1. member' \in [Member -> MemberType]
      <4>1. member \in [Member -> MemberType] BY DEF TypeOK
      <4>2. [member[cursor] EXCEPT !.quiet_flag = 1] \in MemberType BY <2>1, <4>1 DEF MemberType
      <4> QED BY <1>3, <2>3, <4>1, <4>2 DEF SweepMember
    <3>2. UNCHANGED <<members, mem_list, total_num_of_members, rooms, room, room_list,
                      total_num_of_rooms, roster, mt, sent, reply>>
      BY <1>3, <2>3 DEF SweepMember
    <3> QED BY <2>2, <3>1, <3>2 DEF TypeOK, PC
  <2>4. CASE IsQuiet(cursor)
    <3>1. RemoveMember(cursor) BY <1>3, <2>4 DEF SweepMember
    <3> QED BY <1>3, <2>1, <2>2, <3>1, RemoveMemberType DEF SweepMember, TypeOK
  <2> QED BY <2>3, <2>4
<1>4. CASE SweepMembersDone
  BY <1>4 DEF SweepMembersDone, TypeOK, PC, RoomListType
<1>5. CASE SweepRoom
  <2>1. cursor \in Room /\ room_list.next[cursor] \in RoomPtr
    BY <1>5 DEF SweepRoom, TypeOK, RoomPtr, RoomListType
  <2>2. room' \in [Room -> RoomType]
    <3>1. [room[cursor] EXCEPT !.empty_flag = 1] \in RoomType
      BY <2>1 DEF TypeOK, RoomType
    <3>2. BlankRoom \in RoomType BY DEF BlankRoom, RoomType
    <3>3. \/ room' = room
          \/ room' = [room EXCEPT ![cursor] = [room[cursor] EXCEPT !.empty_flag = 1]]
          \/ room' = [room EXCEPT ![cursor] = BlankRoom]
      BY <1>5 DEF SweepRoom
    <3>4. room \in [Room -> RoomType] BY DEF TypeOK
    <3> QED BY <2>1, <3>1, <3>2, <3>3, <3>4
  <2>3. roster' \in RosterType
    <3>1. RosterCleared(cursor) \in RosterType BY <2>1, RosterClearedType
    <3>2. roster' = roster \/ roster' = RosterCleared(cursor) BY <1>5 DEF SweepRoom
    <3> QED BY <3>1, <3>2 DEF TypeOK
  <2>4. room_list' \in RoomListType
    BY <1>5, <2>1, RoomListOpsType DEF SweepRoom, TypeOK
  <2>5. total_num_of_rooms' \in Int /\ rooms' \in SUBSET Room
    BY <1>5, <2>1 DEF SweepRoom, TypeOK
  <2> QED BY <1>5, <2>1, <2>2, <2>3, <2>4, <2>5 DEF SweepRoom, NextRoom, TypeOK
<1>6. CASE SweepDone BY <1>6 DEF SweepDone, TypeOK, PC, MemberPtr
<1>7. CASE Deliver
  <2>1. cursor \in Member /\ roster \in RosterType /\ sent \in Seq(Member)
    BY <1>7 DEF Deliver, TypeOK, MemberPtr
  <2>2. sent' \in Seq(Member) BY <1>7, <2>1 DEF Deliver
  <2>3. cursor' \in MemberPtr BY <1>7, <2>1 DEF Deliver, NextToSend, RosterType
  <2>4. pc' = "broadcast" /\ UNCHANGED <<members, member, mem_list, total_num_of_members, rooms,
                      room, room_list, total_num_of_rooms, roster, mt, reply>>
    BY <1>7 DEF Deliver
  <2> QED BY <2>2, <2>3, <2>4 DEF TypeOK, PC
<1>8. CASE DeliverFail \/ DeliverDone
  <2>1. EndBroadcast BY <1>8 DEF DeliverFail, DeliverDone
  <2>2. pc' = "select" /\ cursor' = NULL /\ mt' = NULL /\ sent' \in Seq(Member)
    BY <2>1 DEF EndBroadcast
  <2>3. UNCHANGED <<members, member, mem_list, total_num_of_members, rooms, room, room_list,
                    total_num_of_rooms, roster, reply>>
    BY <2>1 DEF EndBroadcast
  <2> QED BY <2>2, <2>3 DEF TypeOK, PC, MemberPtr
<1>9. ASSUME NEW name \in MemberName, RegisterRefused(name) PROVE TypeOK'
  BY <1>9 DEF RegisterRefused, TypeOK, FAIL, REGISTER_REQUEST
<1>10. ASSUME NEW m \in Member, NEW name \in MemberName, NEW id \in MemberId,
              Register(m, name, id)
       PROVE TypeOK'
  <2>1. mem_list' \in DListType BY <1>10, ClearLinksType, LinkTailType DEF Register, TypeOK
  <2>2. member' \in [Member -> MemberType]
    BY <1>10 DEF Register, TypeOK, MemberType, RoomPtr
  <2>3. reply' \in [type : 0..19, member_id : MemberId \cup {NoId}]
    BY <1>10 DEF Register, SUCC, REGISTER_REQUEST
  <2> QED BY <1>10, <2>1, <2>2, <2>3 DEF Register, TypeOK
<1>11. ASSUME NEW m \in Member, ControlRequest(m) PROVE TypeOK'
  <2>1. Heard(m) \in [Member -> MemberType] /\ member[m].member_id \in MemberId \cup {NoId}
    BY HeardType DEF TypeOK, MemberType
  <2> USE DEF SUCC, FAIL, ROOM_LIST_REQUEST, MEMBER_LIST_REQUEST, SWITCH_ROOM_REQUEST,
              CREATE_ROOM_REQUEST
  <2>2. CASE Quit(m) BY <2>2, RemoveMemberType DEF Quit, TypeOK
  <2>3. CASE KeepAlive(m) BY <2>3, <2>1 DEF KeepAlive, TypeOK
  <2>4. CASE RoomListRequest(m) BY <2>4, <2>1 DEF RoomListRequest, TypeOK
  <2>5. ASSUME NEW name \in RoomName \cup LongName, CreateRoom(m, name) PROVE TypeOK'
    BY <2>5, <2>1, AddRoomType DEF CreateRoom, TypeOK
  <2>6. ASSUME NEW name \in RoomName \cup LongName, CreateRoomRefused(m, name) PROVE TypeOK'
    BY <2>6, <2>1 DEF CreateRoomRefused, TypeOK
  <2>7. ASSUME NEW name \in RoomName \cup LongName, CreateRoomCrash(m, name) PROVE TypeOK'
    BY <2>7, <2>1 DEF CreateRoomCrash, TypeOK, PC
  <2>8. ASSUME NEW name \in RoomName, SwitchRefused(m, name) PROVE TypeOK'
    BY <2>8, <2>1 DEF SwitchRefused, TypeOK
  <2>9. ASSUME NEW name \in RoomName, MemberListRequest(m, name) PROVE TypeOK'
    BY <2>9, <2>1 DEF MemberListRequest, TypeOK
  <2>10. ASSUME NEW r \in Room, SwitchRoom(m, r) PROVE TypeOK'
    <3>1. member' \in [Member -> MemberType]
      BY <2>10, <2>1 DEF SwitchRoom, MemberType, RoomPtr
    <3>2. roster' \in RosterType BY <2>10, EnterRoomType DEF SwitchRoom
    <3>3. room' \in [Room -> RoomType]
      BY <2>10, CountsAfterLeavingType, RoomEnteredType DEF SwitchRoom
    <3> QED BY <2>10, <2>1, <3>1, <3>2, <3>3 DEF SwitchRoom, TypeOK
  <2> QED BY <1>11, <2>2, <2>3, <2>4, <2>5, <2>6, <2>7, <2>8, <2>9, <2>10 DEF ControlRequest
<1>12. ASSUME NEW m \in Member, ChatMessage(m) PROVE TypeOK'
  <2>1. pc' \in PC /\ pc' # "sweep_rooms" BY <1>12 DEF ChatMessage, PC
  <2>2. cursor' \in MemberPtr /\ mt' \in MemberPtr
    BY <1>12 DEF ChatMessage, TypeOK, RosterType, MemberType, RoomPtr, MemberPtr
  <2>3. member' \in [Member -> MemberType] BY <1>12, HeardType DEF ChatMessage
  <2>4. sent' \in Seq(Member) BY <1>12 DEF ChatMessage
  <2>5. reply' \in [type : 0..19, member_id : MemberId \cup {NoId}] BY <1>12 DEF ChatMessage
  <2>6. UNCHANGED <<members, mem_list, total_num_of_members, rooms, room, room_list,
                    total_num_of_rooms, roster>>
    BY <1>12 DEF ChatMessage
  <2> QED BY <2>1, <2>2, <2>3, <2>4, <2>5, <2>6 DEF TypeOK
<1>13. ASSUME NEW m \in Member, ChatMessageDropped(m) PROVE TypeOK'
  BY <1>13, HeardType DEF ChatMessageDropped, TypeOK
<1>14. ASSUME NEW type \in MemberRequest, NEW id, InvalidId(type, id) PROVE TypeOK'
  BY <1>14 DEF InvalidId, TypeOK, MemberRequest, FAIL, ROOM_LIST_REQUEST, MEMBER_LIST_REQUEST,
               SWITCH_ROOM_REQUEST, CREATE_ROOM_REQUEST, MEMBER_KEEP_ALIVE, QUIT_REQUEST,
               OTHER_REQUEST
<1>15. CASE SweepStart BY <1>15 DEF SweepStart, TypeOK, PC, DListType
<1>16. CASE UNCHANGED vars BY <1>16 DEF vars, TypeOK
<1> QED BY <1>1, <1>2, <1>3, <1>4, <1>5, <1>6, <1>7, <1>8, <1>9, <1>10, <1>11, <1>12, <1>13,
           <1>14, <1>15, <1>16 DEF Next, ServerStep

\* The server never stores a value of the wrong type: in particular no cursor,
\* head, tail or link is ever anything but NULL or a struct of the right kind.
THEOREM TypeCorrect == Spec => []TypeOK
BY TypeInit, TypeStep, PTL DEF Spec

-----------------------------------------------------------------------------
(***************************************************************************)
(* The session table, for every number of members and every limit: the      *)
(* list of server_util.c is sound, the counter counts, the limit holds and  *)
(* ids and names are unique.  These facts are inductive by themselves: what *)
(* the server does with rooms does not touch them.                          *)
(***************************************************************************)
\* total_num_of_members counts the list, within its limit.
SessionsCounted ==
  /\ total_num_of_members = Cardinality(members)
  /\ Cardinality(members) <= MAX_NUM_OF_MEMBERS

\* The sweep of the members stands on a member or past the last one: tmp_mt, read
\* before the free, is never the struct that is freed.
SweepOnMember == pc = "sweep_members" => cursor \in members \cup {NULL}

\* The inductive invariant: none of SessionListSound and SessionsCounted is kept
\* by a sweep that stands on a struct that is not a member.
SessionInv ==
  TypeOK /\ SessionListSound /\ SessionsCounted /\ SweepOnMember /\ IdsAndNamesUnique

-----------------------------------------------------------------------------
(* What a step does to the session table. *)

\* The table, its ids and its names stay as they are.
SessionsKept ==
  /\ UNCHANGED <<members, mem_list, total_num_of_members>>
  /\ \A m \in Member : /\ member'[m].member_id = member[m].member_id
                       /\ member'[m].member_name = member[m].member_name

\* A step keeps the sessions, removes one or adds one.
LEMMA SessionCases ==
  ASSUME SessionInv, [Next]_vars
  PROVE  \/ SessionsKept
         \/ \E m \in members : RemoveMember(m)
         \/ \E m \in Member, name \in MemberName, id \in MemberId : Register(m, name, id)
<1> USE DEF SessionInv, sessionVars
<1>1. \A m, x \in Member : /\ Heard(m)[x].member_id = member[x].member_id
                           /\ Heard(m)[x].member_name = member[x].member_name
  BY DEF Heard, TypeOK, MemberType
<1>2. ASSUME UNCHANGED sessionVars PROVE SessionsKept BY <1>2 DEF SessionsKept
<1>3. ASSUME NEW m \in Member, member' = Heard(m),
             UNCHANGED <<members, mem_list, total_num_of_members>>
      PROVE  SessionsKept
  BY <1>1, <1>3 DEF SessionsKept
<1>4. ASSUME NEW name \in RoomName, InitRoom(name) PROVE SessionsKept BY <1>2, <1>4 DEF InitRoom
<1>5. CASE SweepMember
  <2>1. CASE IsQuiet(cursor)
    BY <1>5, <2>1 DEF SweepMember, SweepOnMember
  <2>2. CASE ~IsQuiet(cursor)
    BY <1>5, <2>2 DEF SweepMember, SessionsKept, TypeOK, MemberType
  <2> QED BY <2>1, <2>2
<1>6. CASE InitDone \/ SweepMembersDone \/ SweepRoom \/ SweepDone \/ Deliver \/ DeliverFail \/ DeliverDone
  BY <1>2, <1>6 DEF InitDone, SweepMembersDone, SweepRoom, SweepDone, Deliver, DeliverFail,
                    DeliverDone, EndBroadcast
<1>7. ASSUME NEW m \in Member, ControlRequest(m) PROVE SessionsKept \/ \E x \in members : RemoveMember(x)
  <2>1. CASE Quit(m) BY <2>1 DEF Quit, Request
  <2>2. ASSUME NEW r \in Room, SwitchRoom(m, r) PROVE SessionsKept
    <3>1. \A x \in Member : /\ member'[x].member_id = Heard(m)[x].member_id
                            /\ member'[x].member_name = Heard(m)[x].member_name
      BY <2>2, HeardType DEF SwitchRoom, MemberType
    <3> QED BY <1>1, <2>2, <3>1 DEF SwitchRoom, SessionsKept
  <2>3. CASE KeepAlive(m) \/ RoomListRequest(m) BY <1>3, <2>3 DEF KeepAlive, RoomListRequest
  <2>4. ASSUME NEW name, CreateRoom(m, name) \/ CreateRoomRefused(m, name) \/ CreateRoomCrash(m, name)
        PROVE  SessionsKept
    BY <1>3, <2>4 DEF CreateRoom, CreateRoomRefused, CreateRoomCrash
  <2>5. ASSUME NEW name, SwitchRefused(m, name) \/ MemberListRequest(m, name) PROVE SessionsKept
    BY <1>3, <2>5 DEF SwitchRefused, MemberListRequest
  <2> QED BY <1>7, <2>1, <2>2, <2>3, <2>4, <2>5 DEF ControlRequest
<1>8. ASSUME NEW m \in Member, ChatMessage(m) \/ ChatMessageDropped(m) PROVE SessionsKept
  BY <1>3, <1>8 DEF ChatMessage, ChatMessageDropped
<1>9. ASSUME NEW name, RegisterRefused(name) PROVE SessionsKept BY <1>2, <1>9 DEF RegisterRefused
<1>10. ASSUME NEW type, NEW id, InvalidId(type, id) PROVE SessionsKept BY <1>2, <1>10 DEF InvalidId
<1>11. CASE SweepStart BY <1>2, <1>11 DEF SweepStart
<1>12. CASE UNCHANGED vars BY <1>2, <1>12 DEF vars
<1> QED BY <1>4, <1>5, <1>6, <1>7, <1>8, <1>9, <1>10, <1>11, <1>12 DEF Next, ServerStep

-----------------------------------------------------------------------------
(* Each part of the invariant, for the three kinds of steps. *)

\* The list stays sound.
LEMMA SessionListStep ==
  ASSUME SessionInv, [Next]_vars
  PROVE  SessionListSound'
<1> USE DEF SessionInv, SessionListSound, TypeOK
<1>1. CASE SessionsKept BY <1>1 DEF SessionsKept
<1>2. ASSUME NEW m \in members, RemoveMember(m) PROVE SessionListSound'
  <2>1. Ordered(members \ {m}, ClearLinks(Unlink(mem_list, m), m)) BY RemoveSound
  <2> QED BY <1>2, <2>1 DEF RemoveMember
<1>3. ASSUME NEW m \in Member, NEW name, NEW id, Register(m, name, id) PROVE SessionListSound'
  <2>1. m \in Member \ members BY <1>3 DEF Register
  <2>2. Ordered(members \cup {m}, LinkTail(ClearLinks(mem_list, m), m)) BY <2>1, LinkTailSound
  <2> QED BY <1>3, <2>2 DEF Register
<1> QED BY <1>1, <1>2, <1>3, SessionCases

\* The counter counts, and the limit holds: it is tested with == before a
\* registration, which is enough because the counter is never beyond it.
LEMMA SessionsCountedStep ==
  ASSUME SessionInv, [Next]_vars
  PROVE  SessionsCounted'
<1> USE DEF SessionInv, SessionsCounted, TypeOK
<1>1. CASE SessionsKept BY <1>1 DEF SessionsKept
<1>2. ASSUME NEW m \in members, RemoveMember(m) PROVE SessionsCounted'
  <2>1. Cardinality(members \ {m}) = Cardinality(members) - 1 BY NodesCount
  <2>2. Cardinality(members) \in Nat /\ MAX_NUM_OF_MEMBERS \in Int BY NodesCount, ServerAssumption
  <2> QED BY <1>2, <2>1, <2>2 DEF RemoveMember
<1>3. ASSUME NEW m \in Member, NEW name, NEW id, Register(m, name, id) PROVE SessionsCounted'
  <2>1. Cardinality(members \cup {m}) = Cardinality(members) + 1 BY <1>3, NodesCount DEF Register
  <2>2. Cardinality(members) \in Nat /\ MAX_NUM_OF_MEMBERS \in Int BY NodesCount, ServerAssumption
  <2>3. total_num_of_members # MAX_NUM_OF_MEMBERS BY <1>3 DEF Register, RegisterAllowed
  <2> QED BY <1>3, <2>1, <2>2, <2>3 DEF Register
<1> QED BY <1>1, <1>2, <1>3, SessionCases

\* The search that process_register_request makes once the new member is linked in
\* compares the id with that of every other member, and with no other.
LEMMA SearchFinds ==
  ASSUME SessionInv, NEW m \in Member \ members, NEW id
  PROVE  FreshId(m, id) <=> ~UsedId(id)
<1> DEFINE L == LinkTail(ClearLinks(mem_list, m), m)
           S == members \cup {m}
<1>1. members \in SUBSET Member /\ mem_list \in DListType /\ Ordered(members, mem_list)
  BY DEF SessionInv, TypeOK, SessionListSound
<1>2. Ordered(S, L) BY <1>1, LinkTailSound
<1>3. L \in DListType BY <1>1, ClearLinksType, LinkTailType
<1>4. L.tail = m BY <1>1 DEF LinkTail, ClearLinks, DListType
<1> HIDE DEF L
<1>5. PICK q \in [1..Cardinality(S) -> S] : Orders(q, S, L) BY <1>2 DEF Ordered
<1>6. DOMAIN L.next = Member /\ S \in SUBSET Member BY <1>1, <1>3 DEF DListType
<1>7. Threads(q, S, L.head, L.next) BY <1>5 DEF Orders
<1>8. SetOf(Chain(L.next, L.head)) = S
  <2> HIDE DEF S
  <2>1. Chain(L.next, L.head) = q
    <3> DEFINE next == L.next
               head == L.head
    <3>1. DOMAIN next = Member /\ Threads(q, S, head, next) BY <1>6, <1>7
    <3> HIDE DEF next, head
    <3>2. Chain(next, head) = q
      BY <3>1, <1>5, <1>6, ChainOfThreads, MemberFinite, NullIsNoMember
    <3> QED BY <3>2 DEF next, head
  <2>2. q \in [1..Cardinality(S) -> S] BY <1>5
  <2>3. \A x \in S : \E i \in DOMAIN q : q[i] = x BY <1>7, <2>2 DEF Threads
  <2>4. SetOf(q) = S BY <2>2, <2>3 DEF SetOf
  <2> QED BY <2>1, <2>4
<1>9. FreshId(m, id) <=> \A x \in S \ {m} : member[x].member_id # id
  BY <1>4, <1>8 DEF FreshId, L
<1> QED BY <1>9 DEF UsedId

\* Ids and user names stay unique: a registration that repeats one is refused.
LEMMA MemberKeysStep ==
  ASSUME SessionInv, [Next]_vars
  PROVE  MemberKeysUnique'
<1> USE DEF SessionInv, IdsAndNamesUnique, MemberKeysUnique
<1>1. CASE SessionsKept BY <1>1 DEF SessionsKept, TypeOK
<1>2. ASSUME NEW m \in members, RemoveMember(m) PROVE MemberKeysUnique'
  <2>1. \A x \in members' : x \in members /\ member'[x] = member[x]
    BY <1>2 DEF RemoveMember, TypeOK
  <2> QED BY <2>1
<1>3. ASSUME NEW m \in Member, NEW name \in MemberName, NEW id \in MemberId, Register(m, name, id)
      PROVE  MemberKeysUnique'
  <2>1. /\ member'[m].member_id = id /\ member'[m].member_name = name
        /\ \A x \in members : member'[x] = member[x] /\ x # m
        /\ members' = members \cup {m}
    BY <1>3 DEF Register, TypeOK
  <2>2. \A x \in members : member[x].member_id # id /\ member[x].member_name # name
    <3>1. m \in Member \ members BY <1>3 DEF Register
    <3>2. ~UsedId(id) BY <1>3, <3>1, SearchFinds DEF Register
    <3> QED BY <1>3, <3>2 DEF Register, UsedId, RegisterAllowed, UsedMemberName
  <2>3. id # NoId BY ServerAssumption
  <2> QED BY <2>1, <2>2, <2>3
<1> QED BY <1>1, <1>2, <1>3, SessionCases

\* A step leaves the rooms and their names, frees one or links a new one.
LEMMA RoomNameCases ==
  ASSUME SessionInv, [Next]_vars
  PROVE  \/ \A r \in rooms' : r \in rooms /\ room'[r].room_name = room[r].room_name
         \/ \E name \in RoomName \cup LongName : AddRoom(name)
<1> DEFINE Kept == \A r \in rooms' : r \in rooms /\ room'[r].room_name = room[r].room_name
<1> USE DEF SessionInv, roomVars
<1>1. ASSUME UNCHANGED roomVars PROVE Kept BY <1>1
<1>2. ASSUME NEW m \in Member PROVE \A r \in Room : CountsAfterLeaving(m)[r].room_name = room[r].room_name
  BY DEF CountsAfterLeaving, TypeOK, RoomType, MemberType, RoomPtr
<1>3. ASSUME NEW m \in members, RemoveMember(m) PROVE Kept
  BY <1>2, <1>3 DEF RemoveMember, TypeOK
<1>4. ASSUME NEW m \in Member, NEW r \in Room, SwitchRoom(m, r) PROVE Kept
  <2> DEFINE counts == CountsAfterLeaving(m)
  <2>1. counts \in [Room -> RoomType] BY CountsAfterLeavingType
  <2> HIDE DEF counts
  <2>2. \A s \in Room : RoomEntered(r, counts)[s].room_name = counts[s].room_name
    BY <2>1 DEF RoomEntered, RoomType
  <2> QED BY <1>2, <1>4, <2>2 DEF SwitchRoom, TypeOK, counts
<1>5. CASE SweepRoom
  <2>1. room \in [Room -> RoomType] /\ rooms \subseteq Room BY DEF TypeOK
  <2> QED BY <1>5, <2>1 DEF SweepRoom, RoomType
<1>6. CASE SweepMember BY <1>1, <1>3, <1>6 DEF SweepMember, SweepOnMember
<1>7. CASE InitDone \/ SweepMembersDone \/ SweepDone \/ Deliver \/ DeliverFail \/ DeliverDone
  BY <1>1, <1>7 DEF InitDone, SweepMembersDone, SweepDone, Deliver, DeliverFail, DeliverDone, EndBroadcast
<1>8. ASSUME NEW m \in Member, ControlRequest(m)
      PROVE  Kept \/ \E name \in RoomName \cup LongName : AddRoom(name)
  <2>1. CASE Quit(m) BY <1>3, <2>1 DEF Quit, Request
  <2>2. CASE KeepAlive(m) \/ RoomListRequest(m) BY <1>1, <2>2 DEF KeepAlive, RoomListRequest
  <2>3. ASSUME NEW name \in RoomName \cup LongName, CreateRoom(m, name) PROVE AddRoom(name)
    BY <2>3 DEF CreateRoom
  <2>4. ASSUME NEW name, CreateRoomRefused(m, name) \/ CreateRoomCrash(m, name) PROVE Kept
    BY <1>1, <2>4 DEF CreateRoomRefused, CreateRoomCrash
  <2>5. ASSUME NEW name, SwitchRefused(m, name) \/ MemberListRequest(m, name) PROVE Kept
    BY <1>1, <2>5 DEF SwitchRefused, MemberListRequest
  <2> QED BY <1>4, <1>8, <2>1, <2>2, <2>3, <2>4, <2>5 DEF ControlRequest
<1>9. ASSUME NEW m \in Member, ChatMessage(m) \/ ChatMessageDropped(m) PROVE Kept
  BY <1>1, <1>9 DEF ChatMessage, ChatMessageDropped
<1>10. ASSUME NEW name, RegisterRefused(name) PROVE Kept BY <1>1, <1>10 DEF RegisterRefused
<1>11. ASSUME NEW m, NEW name, NEW id, Register(m, name, id) PROVE Kept BY <1>1, <1>11 DEF Register
<1>12. ASSUME NEW type, NEW id, InvalidId(type, id) PROVE Kept BY <1>1, <1>12 DEF InvalidId
<1>13. CASE SweepStart \/ UNCHANGED vars BY <1>1, <1>13 DEF SweepStart, vars
<1>14. ASSUME NEW name \in RoomName, InitRoom(name) PROVE AddRoom(name) BY <1>14 DEF InitRoom
<1> QED BY <1>5, <1>6, <1>7, <1>8, <1>9, <1>10, <1>11, <1>12, <1>13, <1>14 DEF Next, ServerStep

\* Room names stay unique: create_room refuses a name in use.
LEMMA RoomNamesStep ==
  ASSUME SessionInv, [Next]_vars
  PROVE  RoomNamesUnique'
<1> USE DEF SessionInv, IdsAndNamesUnique, RoomNamesUnique
<1>1. CASE \A r \in rooms' : r \in rooms /\ room'[r].room_name = room[r].room_name BY <1>1
<1>2. ASSUME NEW name \in RoomName \cup LongName, AddRoom(name) PROVE RoomNamesUnique'
  <2>1. PICK r \in Room \ rooms :
          rooms' = rooms \cup {r} /\ room' = [room EXCEPT ![r] = [BlankRoom EXCEPT !.room_name = name]]
    BY <1>2 DEF AddRoom
  <2>2. /\ room'[r].room_name = name
        /\ \A s \in rooms : room'[s] = room[s] /\ s # r
    BY <2>1 DEF TypeOK, BlankRoom
  <2>3. \A s \in rooms : room[s].room_name # name
    BY <1>2 DEF AddRoom, create_room, UsedRoomName
  <2> QED BY <2>1, <2>2, <2>3
<1> QED BY <1>1, <1>2, RoomNameCases

\* The sweep goes from a member to the next one on the list, which is another
\* struct and still there when the first is freed; nothing else runs meanwhile.
LEMMA SweepOnMemberStep ==
  ASSUME SessionInv, [Next]_vars
  PROVE  SweepOnMember'
<1> USE DEF SessionInv, SweepOnMember
<1>1. /\ mem_list.head \in members \cup {NULL}
      /\ \A m \in members : mem_list.next[m] \in (members \ {m}) \cup {NULL}
  BY WalkStaysOnList DEF TypeOK, SessionListSound
<1>2. CASE SweepMember
  <2>1. cursor \in members BY <1>2 DEF SweepMember
  <2>2. pc' = pc /\ cursor' \in (members \ {cursor}) \cup {NULL}
    BY <1>1, <1>2, <2>1 DEF SweepMember, NextToSweep
  <2>3. members' \in {members, members \ {cursor}} BY <1>2 DEF SweepMember, RemoveMember
  <2> QED BY <2>2, <2>3
<1>3. CASE SweepStart BY <1>1, <1>3 DEF SweepStart, sessionVars
<1>4. CASE UNCHANGED vars BY <1>4 DEF vars, sessionVars, loopVars
<1>5. CASE ~SweepMember /\ ~SweepStart /\ ~UNCHANGED vars
  <2> USE DEF Serving, Request, loopVars
  <2>1. ASSUME NEW m \in Member, ControlRequest(m) PROVE pc' # "sweep_members"
    <3>1. CASE Quit(m) \/ KeepAlive(m) \/ RoomListRequest(m)
      BY <3>1 DEF Quit, KeepAlive, RoomListRequest
    <3>2. ASSUME NEW name, CreateRoom(m, name) \/ CreateRoomRefused(m, name) \/ CreateRoomCrash(m, name)
          PROVE  pc' # "sweep_members"
      BY <3>2 DEF CreateRoom, CreateRoomRefused, CreateRoomCrash
    <3>3. ASSUME NEW name, SwitchRefused(m, name) \/ MemberListRequest(m, name)
          PROVE  pc' # "sweep_members"
      BY <3>3 DEF SwitchRefused, MemberListRequest
    <3>4. ASSUME NEW r, SwitchRoom(m, r) PROVE pc' # "sweep_members" BY <3>4 DEF SwitchRoom
    <3> QED BY <2>1, <3>1, <3>2, <3>3, <3>4 DEF ControlRequest
  <2>2. CASE ServerStep
    BY <1>5, <2>2 DEF ServerStep, InitDone, SweepMembersDone, SweepRoom, SweepDone, Deliver,
                      DeliverFail, DeliverDone, EndBroadcast
  <2>3. ASSUME NEW m, ChatMessage(m) \/ ChatMessageDropped(m) PROVE pc' # "sweep_members"
    BY <2>3 DEF ChatMessage, ChatMessageDropped
  <2>4. ASSUME NEW name, RegisterRefused(name) \/ InitRoom(name) PROVE pc' # "sweep_members"
    BY <2>4 DEF RegisterRefused, InitRoom
  <2>5. ASSUME NEW m, NEW name, NEW id, Register(m, name, id) PROVE pc' # "sweep_members"
    BY <2>5 DEF Register
  <2>6. ASSUME NEW type, NEW id, InvalidId(type, id) PROVE pc' # "sweep_members"
    BY <2>6 DEF InvalidId
  <2> QED BY <1>5, <2>1, <2>2, <2>3, <2>4, <2>5, <2>6 DEF Next
<1> QED BY <1>2, <1>3, <1>4, <1>5

-----------------------------------------------------------------------------
(* The theorems. *)

\* The tables are empty when the server starts.
LEMMA SessionInvInit == Init => SessionInv
<1> SUFFICES ASSUME Init PROVE SessionInv OBVIOUS
<1>1. TypeOK BY TypeInit
<1>2. SessionListSound BY EmptySound DEF Init, SessionListSound, EmptyList
<1>3. SessionsCounted BY FS_EmptySet, FS_CardinalityType, MemberFinite, ServerAssumption DEF Init, SessionsCounted
<1>4. SweepOnMember /\ IdsAndNamesUnique
  BY DEF Init, SweepOnMember, IdsAndNamesUnique, MemberKeysUnique, RoomNamesUnique
<1> QED BY <1>1, <1>2, <1>3, <1>4 DEF SessionInv

\* Every step of the server keeps the invariant.
LEMMA SessionInvStep == SessionInv /\ [Next]_vars => SessionInv'
<1> SUFFICES ASSUME SessionInv, [Next]_vars PROVE SessionInv' OBVIOUS
<1>1. TypeOK' BY TypeStep DEF SessionInv
<1> QED BY <1>1, SessionListStep, SessionsCountedStep, MemberKeysStep, RoomNamesStep, SweepOnMemberStep
        DEF SessionInv, IdsAndNamesUnique

\* The invariant holds in every reachable state.
LEMMA SessionInvHolds == Spec => []SessionInv
BY SessionInvInit, SessionInvStep, PTL DEF Spec

\* However members register, quit and are swept, and however many there are, the
\* session list is a sound list of exactly the members in use.
THEOREM SessionListCorrect == Spec => []SessionListSound
BY SessionInvHolds, PTL DEF SessionInv

\* Ids, user names and room names stay unique: a search finds the one there is.
THEOREM IdsAndNamesCorrect == Spec => []IdsAndNamesUnique
BY SessionInvHolds, PTL DEF SessionInv
=============================================================================
