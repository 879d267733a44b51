----------------------------- MODULE ChatServer -----------------------------
(***************************************************************************)
(* The chat server: the session and room tables of server_util.c and the    *)
(* select loop of server_main.c that drives them.  The process has one      *)
(* thread, so a handler is one action; the three loops in which it walks a  *)
(* list it may change or may leave early (the sweep of the members, the     *)
(* sweep of the rooms, the broadcast of a chat message) take one step per   *)
(* iteration and keep the pointer the code keeps.                           *)
(*                                                                          *)
(* A struct is an address in Member or Room.  malloc may return any address *)
(* that is not in use; a freed struct reads as blank, so that a pointer to  *)
(* it can be recognised.  A search of a list by name or id is a quantifier  *)
(* over the structs of the list: the invariants say that a walk visits      *)
(* exactly those, and that at most one of them matches.                     *)
(***************************************************************************)
EXTENDS DList, Integers

CONSTANTS
  Room,           \* the addresses malloc can return for a struct room_type
  MemberId,       \* the ids 1..65535
  NoId,           \* the id 0 of a reply to a stranger
  MemberName,     \* user names, after the truncation of process_register_request
  RoomName,       \* room names that create_room accepts
  LongName,       \* room names longer than MAX_ROOM_NAME_LEN
  MAX_NUM_OF_ROOMS,
  MAX_NUM_OF_MEMBERS_PER_ROOM,
  MAX_NUM_OF_MEMBERS

\* malloc does not fail below the limits, and there are ids to spare.
ASSUME ServerAssumption ==
  /\ NULL \notin Room /\ IsFiniteSet(Room)
  /\ NoId \notin MemberId /\ IsFiniteSet(MemberId)
  /\ LongName \cap RoomName = {} /\ NULL \notin RoomName
  /\ MAX_NUM_OF_ROOMS \in 1..Cardinality(Room)
  /\ MAX_NUM_OF_MEMBERS_PER_ROOM \in Nat \ {0}
  /\ MAX_NUM_OF_MEMBERS \in 1..Cardinality(Member)
  /\ MAX_NUM_OF_MEMBERS <= Cardinality(MemberId)

VARIABLES
  pc,                    \* where the server is, below
  members,               \* the struct member_type objects in use
  member,                \* their contents, except the links
  mem_list,              \* mem_list_head, mem_list_tail, next_member, prev_member
  total_num_of_members,
  rooms,                 \* the struct room_type objects in use
  room,                  \* their contents, except the links
  room_list,             \* room_list_head, room_list_tail, next_room
  roster,                \* member_list_head/tail of each room and
                         \* next_room_member/prev_room_member of each member
  total_num_of_rooms,
  cursor,                \* mt, rt or tmp_mptr: where the loop is
  mt,                    \* the sender, in process_chat_msg
  sent,                  \* history: the members sendto has succeeded for
  reply,                 \* the last answer: send_control_msg_reply
  listing                \* and the list that is its text

sessionVars == <<members, member, mem_list, total_num_of_members>>
roomVars    == <<rooms, room, room_list, total_num_of_rooms>>
loopVars    == <<pc, cursor, mt, sent>>
replyVars   == <<reply, listing>>
vars == <<sessionVars, roomVars, roster, loopVars, replyVars>>

RoomPtr == Room \cup {NULL}

\* Server locations: in init_server, in select, in one of the three loops, or
\* dead of a null dereference.
PC == {"init", "select", "sweep_members", "sweep_rooms", "broadcast", "crashed"}

BlankMember == [member_id |-> NoId, member_name |-> NULL,
                quiet_flag |-> 0, current_room |-> NULL]
BlankRoom   == [room_name |-> NULL, num_of_members |-> 0, empty_flag |-> 0]
NoReply     == [type |-> 0, member_id |-> NoId]

MemberType == [member_id : MemberId \cup {NoId}, member_name : MemberName \cup {NULL},
               quiet_flag : {0, 1}, current_room : RoomPtr]
RoomType   == [room_name : RoomName \cup {NULL}, num_of_members : Int,
               empty_flag : {0, 1}]
RoomListType == [head : RoomPtr, tail : RoomPtr, next : [Room -> RoomPtr]]
RosterType == [head : [Room -> MemberPtr], tail : [Room -> MemberPtr],
               next : [Member -> MemberPtr], prev : [Member -> MemberPtr]]

\* Message types, defs.h: each request that is answered is followed by the type
\* of its success and then of its failure.
REGISTER_REQUEST    == 1
ROOM_LIST_REQUEST   == 4
MEMBER_LIST_REQUEST == 7
SWITCH_ROOM_REQUEST == 10
CREATE_ROOM_REQUEST == 13
MEMBER_KEEP_ALIVE   == 16
QUIT_REQUEST        == 17
\* A type among those of the requests that no handler has: defs.h gives 5, 6, 8,
\* 9, 11, 12, 14 and 15 to the answers.
OTHER_REQUEST       == 5
SUCC(request) == request + 1

\* Mutated form of FAIL: one type too far.
FAILNextType(request) == request + 3

FAIL(request) == request + 2

MemberRequest == {ROOM_LIST_REQUEST, MEMBER_LIST_REQUEST, SWITCH_ROOM_REQUEST,
                  CREATE_ROOM_REQUEST, MEMBER_KEEP_ALIVE, QUIT_REQUEST, OTHER_REQUEST}

\* The type of every variable but listing, the text of an answer.  While a
\* loop runs, its cursor points to the kind of struct the loop walks.
TypeOK ==
  /\ pc \in PC
  /\ members \in SUBSET Member
  /\ member \in [Member -> MemberType]
  /\ mem_list \in DListType
  /\ total_num_of_members \in Int
  /\ rooms \in SUBSET Room
  /\ room \in [Room -> RoomType]
  /\ room_list \in RoomListType
  /\ roster \in RosterType
  /\ total_num_of_rooms \in Int
  /\ cursor \in IF pc = "sweep_rooms" THEN RoomPtr ELSE MemberPtr
  /\ mt \in MemberPtr /\ sent \in Seq(Member)
  /\ reply \in [type : 0..19, member_id : MemberId \cup {NoId}]

Init ==
  /\ pc = "init"
  /\ members = {}
  /\ member = [m \in Member |-> BlankMember]
  /\ mem_list = EmptyList
  /\ total_num_of_members = 0
  /\ rooms = {}
  /\ room = [r \in Room |-> BlankRoom]
  /\ room_list = [head |-> NULL, tail |-> NULL, next |-> [r \in Room |-> NULL]]
  /\ roster = [head |-> [r \in Room |-> NULL], tail |-> [r \in Room |-> NULL],
               next |-> [m \in Member |-> NULL], prev |-> [m \in Member |-> NULL]]
  /\ total_num_of_rooms = 0
  /\ cursor = NULL /\ mt = NULL /\ sent = <<>>
  /\ reply = NoReply /\ listing = <<>>

-----------------------------------------------------------------------------
(* Helpers on the state. *)

\* The list of the members of room r, as a DList.
RoomList(R, r) == [head |-> R.head[r], tail |-> R.tail[r],
                   next |-> R.next, prev |-> R.prev]
SetRoomList(R, r, L) == [head |-> [R.head EXCEPT ![r] = L.head],
                         tail |-> [R.tail EXCEPT ![r] = L.tail],
                         next |-> L.next, prev |-> L.prev]

\* The roster when room r has nobody on its list, by bzero or because r is freed.
RosterCleared(r) ==
  SetRoomList(roster, r, [head |-> NULL, tail |-> NULL,
                          next |-> roster.next, prev |-> roster.prev])

Occupants(r) == {m \in members : member[m].current_room = r}
Roll(r) == Chain(roster.next, roster.head[r])

\* find_member_with_id and the two searches by name.
UsedId(id)         == \E m \in members : member[m].member_id = id
UsedMemberName(n)  == \E m \in members : member[m].member_name = n
UsedRoomName(n)    == \E r \in rooms : room[r].room_name = n

Answer(type, id) == reply' = [type |-> type, member_id |-> id] /\ listing' = <<>>
AnswerWithList(type, id, list) ==
  reply' = [type |-> type, member_id |-> id] /\ listing' = list
NoAnswer == reply' = NoReply /\ listing' = <<>>

\* Mutated form of Heard: a member that speaks keeps its quiet flag.
HeardNothing(m) == member

\* The message of a member that has a valid id.
Heard(m) == [member EXCEPT ![m].quiet_flag = 0]

\* process_control_msg and process_chat_msg run to completion between selects.
Serving == pc = "select" /\ UNCHANGED loopVars
Request(m) == Serving /\ m \in members

-----------------------------------------------------------------------------
(* Members come and go. *)

\* Mutated form of RegisterAllowed: the limit is noticed one member too late.
RegisterAllowedOverfull(name) ==
  /\ ~(total_num_of_members > MAX_NUM_OF_MEMBERS)
  /\ ~UsedMemberName(name)

\* process_register_request takes a member in when there is room for one and
\* the name is not in use.
RegisterAllowed(name) ==
  /\ total_num_of_members # MAX_NUM_OF_MEMBERS
  /\ ~UsedMemberName(name)

\* Mutated form of FreshId: the search stops at the member before the new one.
FreshIdTooShort(m, id) ==
  LET L == LinkTail(ClearLinks(mem_list, m), m)
  IN  \A x \in SetOf(Chain(L.next, L.head)) \ {L.tail, L.prev[L.tail]} :
        member[x].member_id # id

\* The for(;;) loop of process_register_request draws until the id is none of
\* those that a walk finds from the head to the tail, which is the new member m.
FreshId(m, id) ==
  LET L == LinkTail(ClearLinks(mem_list, m), m)
  IN  \A x \in SetOf(Chain(L.next, L.head)) \ {L.tail} : member[x].member_id # id

RegisterRefused(name) ==
  /\ Serving
  /\ ~RegisterAllowed(name)
  /\ Answer(FAIL(REGISTER_REQUEST), NoId)
  /\ UNCHANGED <<sessionVars, roomVars, roster>>

Register(m, name, id) ==
  /\ Serving
  /\ m \in Member \ members
  /\ RegisterAllowed(name)
  /\ FreshId(m, id)
  /\ members' = members \cup {m}
  /\ member' = [member EXCEPT ![m] = [member_id |-> id, member_name |-> name,
                                      quiet_flag |-> 0, current_room |-> NULL]]
  /\ mem_list' = LinkTail(ClearLinks(mem_list, m), m)
  /\ total_num_of_members' = total_num_of_members + 1
  /\ Answer(SUCC(REGISTER_REQUEST), id)
  /\ UNCHANGED <<roomVars, roster>>

\* The roster once m has left the room it is in, if any.
LeaveRoom(m) ==
  LET r == member[m].current_room
  IN  IF r = NULL THEN roster ELSE SetRoomList(roster, r, Unlink(RoomList(roster, r), m))

\* Mutated form of CountsAfterLeaving: the room is left without being counted down.
CountsKept(m) == room

CountsAfterLeaving(m) ==
  LET r == member[m].current_room
  IN  IF r = NULL THEN room ELSE [room EXCEPT ![r].num_of_members = @ - 1]

\* Mutated form of RosterAfterRemoval: remove_member forgets the room of m.
RosterKept(m) == roster

RosterAfterRemoval(m) ==
  LET R == LeaveRoom(m)
  IN  [head |-> R.head, tail |-> R.tail,
       next |-> [R.next EXCEPT ![m] = NULL], prev |-> [R.prev EXCEPT ![m] = NULL]]

\* remove_member and the free that follows it.
RemoveMember(m) ==
  /\ roster' = RosterAfterRemoval(m)
  /\ room' = CountsAfterLeaving(m)
  /\ mem_list' = ClearLinks(Unlink(mem_list, m), m)
  /\ members' = members \ {m}
  /\ member' = [member EXCEPT ![m] = BlankMember]
  /\ total_num_of_members' = total_num_of_members - 1
  /\ UNCHANGED <<rooms, room_list, total_num_of_rooms>>

Quit(m) ==
  /\ Request(m)
  /\ RemoveMember(m)
  /\ NoAnswer

\* MEMBER_KEEP_ALIVE, and the default branch that OTHER_REQUEST takes.
KeepAlive(m) ==
  /\ Request(m)
  /\ member' = Heard(m)
  /\ NoAnswer
  /\ UNCHANGED <<members, mem_list, total_num_of_members, roomVars, roster>>

\* Any request but REGISTER_REQUEST with an id that no member has.  The reply
\* is typed as if every request had a failure of its own two types further on,
\* which MEMBER_KEEP_ALIVE and QUIT_REQUEST have not.
InvalidId(type, id) ==
  /\ Serving
  /\ ~UsedId(id)
  /\ Answer(FAIL(type), NoId)
  /\ UNCHANGED <<sessionVars, roomVars, roster>>

-----------------------------------------------------------------------------
(* Rooms. *)

\* Mutated form of create_room: a name already in use is accepted.
create_room_twice(name) ==
  CASE name \in LongName                      -> 1
    [] total_num_of_rooms = MAX_NUM_OF_ROOMS  -> 2
    [] OTHER                                  -> 0

\* What create_room returns; 0 when it links a new room.
create_room(name) ==
  CASE name \in LongName                      -> 1
    [] total_num_of_rooms = MAX_NUM_OF_ROOMS  -> 2
    [] UsedRoomName(name)                     -> 3
    [] OTHER                                  -> 0

\* room_list_tail->next_room = rt, with a tail that is NULL.
TailIsLost == room_list.head # NULL /\ room_list.tail = NULL

\* The room list with the new room r, whose next_room is NULL, at its tail.
LinkRoom(r) ==
  LET next == [room_list.next EXCEPT ![r] = NULL]
  IN  IF room_list.head = NULL
      THEN [head |-> r, tail |-> r, next |-> next]
      ELSE [head |-> room_list.head, tail |-> r,
            next |-> [next EXCEPT ![room_list.tail] = r]]

\* create_room up to its return, for a name it does not refuse.
AddRoom(name) ==
  /\ create_room(name) = 0
  /\ ~TailIsLost
  /\ \E r \in Room \ rooms :
       /\ rooms' = rooms \cup {r}
       /\ room' = [room EXCEPT ![r] = [BlankRoom EXCEPT !.room_name = name]]
       /\ room_list' = LinkRoom(r)
       /\ roster' = RosterCleared(r)
  /\ total_num_of_rooms' = total_num_of_rooms + 1

\* init_server, for a name of the room file; what create_room returns is ignored.
InitRoom(name) ==
  /\ pc = "init" /\ UNCHANGED loopVars
  /\ AddRoom(name)
  /\ NoAnswer
  /\ UNCHANGED sessionVars

InitDone ==
  /\ pc = "init" /\ pc' = "select"
  /\ NoAnswer
  /\ UNCHANGED <<sessionVars, roomVars, roster, cursor, mt, sent>>

CreateRoom(m, name) ==
  /\ Request(m)
  /\ member' = Heard(m)
  /\ AddRoom(name)
  /\ Answer(SUCC(CREATE_ROOM_REQUEST), member[m].member_id)
  /\ UNCHANGED <<members, mem_list, total_num_of_members>>

CreateRoomRefused(m, name) ==
  /\ Request(m)
  /\ member' = Heard(m)
  /\ create_room(name) # 0
  /\ Answer(FAIL(CREATE_ROOM_REQUEST), member[m].member_id)
  /\ UNCHANGED <<members, mem_list, total_num_of_members, roomVars, roster>>

\* The new room is linked after a tail that remove_room has set to NULL.
CreateRoomCrash(m, name) ==
  /\ pc = "select" /\ m \in members
  /\ create_room(name) = 0 /\ TailIsLost
  /\ pc' = "crashed"
  /\ member' = Heard(m)
  /\ NoAnswer
  /\ UNCHANGED <<members, mem_list, total_num_of_members, roomVars, roster, cursor, mt, sent>>

\* process_room_list_request.
RoomListRequest(m) ==
  LET chain == Chain(room_list.next, room_list.head)
      entry(r) == <<room[r].room_name, room[r].num_of_members>>
  IN /\ Request(m)
     /\ member' = Heard(m)
     /\ IF total_num_of_rooms = 0
        THEN Answer(FAIL(ROOM_LIST_REQUEST), member[m].member_id)
        ELSE AnswerWithList(SUCC(ROOM_LIST_REQUEST), member[m].member_id,
                            [i \in DOMAIN chain |-> entry(chain[i])])
     /\ UNCHANGED <<members, mem_list, total_num_of_members, roomVars, roster>>

\* process_member_list_request: the names of the members of a room.
MemberListRequest(m, name) ==
  /\ Request(m)
  /\ member' = Heard(m)
  /\ \/ /\ \/ ~UsedRoomName(name)
           \/ \E r \in rooms : room[r].room_name = name /\ roster.head[r] = NULL
        /\ Answer(FAIL(MEMBER_LIST_REQUEST), member[m].member_id)
     \/ \E r \in rooms :
          /\ room[r].room_name = name /\ roster.head[r] # NULL
          /\ AnswerWithList(SUCC(MEMBER_LIST_REQUEST), member[m].member_id,
                            [i \in DOMAIN Roll(r) |-> member[Roll(r)[i]].member_name])
  /\ UNCHANGED <<members, mem_list, total_num_of_members, roomVars, roster>>

-----------------------------------------------------------------------------
(* Switching rooms. *)

IsFull(r) == room[r].num_of_members = MAX_NUM_OF_MEMBERS_PER_ROOM

SwitchRefused(m, name) ==
  /\ Request(m)
  /\ member' = Heard(m)
  /\ \/ ~UsedRoomName(name)
     \/ \E r \in rooms : /\ room[r].room_name = name
                         /\ IsFull(r) \/ member[m].current_room = r
  /\ Answer(FAIL(SWITCH_ROOM_REQUEST), member[m].member_id)
  /\ UNCHANGED <<members, mem_list, total_num_of_members, roomVars, roster>>

\* Mutated form of EnterRoom: m is linked in with the links of its old room.
EnterRoomStaleLinks(m, r) == SetRoomList(LeaveRoom(m), r, LinkTail(RoomList(LeaveRoom(m), r), m))

\* The roster once m, out of its old room, is at the tail of room r.
EnterRoom(m, r) ==
  LET R == LeaveRoom(m)
  IN  SetRoomList(R, r, LinkTail(ClearLinks(RoomList(R, r), m), m))

\* Mutated form of RoomEntered: the empty flag of the room stays up.
RoomEnteredKeepFlag(r, counts) == [counts EXCEPT ![r].num_of_members = @ + 1]

RoomEntered(r, counts) == [counts EXCEPT ![r].num_of_members = @ + 1, ![r].empty_flag = 0]

SwitchRoom(m, r) ==
  /\ Request(m)
  /\ r \in rooms
  /\ ~IsFull(r)
  /\ member[m].current_room # r
  /\ member' = [Heard(m) EXCEPT ![m].current_room = r]
  /\ roster' = EnterRoom(m, r)
  /\ room' = RoomEntered(r, CountsAfterLeaving(m))
  /\ Answer(SUCC(SWITCH_ROOM_REQUEST), member[m].member_id)
  /\ UNCHANGED <<members, mem_list, total_num_of_members, rooms, room_list, total_num_of_rooms>>

-----------------------------------------------------------------------------
(* The sweep: select timed out. *)

SweepStart ==
  /\ pc = "select" /\ pc' = "sweep_members"
  /\ cursor' = mem_list.head
  /\ NoAnswer
  /\ UNCHANGED <<sessionVars, roomVars, roster, mt, sent>>

\* Mutated form of NextToSweep: the link is read once the member may have been freed.
NextToSweepFreed(m) == IF member[m].quiet_flag # 0 THEN NULL ELSE mem_list.next[m]

\* tmp_mt, saved before the member may be freed.
NextToSweep(m) == mem_list.next[m]

\* Mutated form of IsQuiet: whoever is in a room is spared.
IsQuietOutside(m) == member[m].quiet_flag # 0 /\ member[m].current_room = NULL

IsQuiet(m) == member[m].quiet_flag # 0

\* One iteration over the members: quiet for a whole interval, and out.
SweepMember ==
  /\ pc = "sweep_members" /\ cursor # NULL
  /\ IF IsQuiet(cursor)
     THEN RemoveMember(cursor)
     ELSE /\ member' = [member EXCEPT ![cursor].quiet_flag = 1]
          /\ UNCHANGED <<members, mem_list, total_num_of_members, roomVars, roster>>
  /\ cursor' = NextToSweep(cursor)
  /\ UNCHANGED <<pc, mt, sent, replyVars>>

SweepMembersDone ==
  /\ pc = "sweep_members" /\ cursor = NULL
  /\ pc' = "sweep_rooms" /\ cursor' = room_list.head
  /\ UNCHANGED <<sessionVars, roomVars, roster, mt, sent, replyVars>>

\* Mutated form of UnlinkRoom: the predecessor keeps its pointer to the room.
UnlinkRoomKeepNext(r) ==
  IF room_list.head = r
  THEN [room_list EXCEPT !.head = room_list.next[r]]
  ELSE room_list

\* remove_room: the list without r, the tail as the code leaves it, NULL
\* whenever r was the last room; the link of r is blank once r is freed.
UnlinkRoom(r) ==
  LET head == IF room_list.head = r THEN room_list.next[r] ELSE room_list.head
      last == room_list.next[r] = NULL
      past(x) == IF x \in rooms /\ room_list.next[x] = r /\ room_list.head # r
                 THEN room_list.next[r] ELSE room_list.next[x]
  IN  [head |-> head,
       tail |-> IF last THEN NULL ELSE room_list.tail,
       next |-> [x \in Room |-> IF x = r THEN NULL ELSE past(x)]]

\* Mutated form of IsVacant: the members of the room are not looked at.
IsAnyRoom(r) == TRUE

IsVacant(r) == room[r].num_of_members = 0

\* Mutated form of NextRoom: the loop goes on only from a room it has dealt with.
NextRoomIfVacant(r) == IF IsVacant(r) THEN room_list.next[r] ELSE r

\* Mutated form of NextRoom: the link is read once the room may have been freed.
NextRoomFreed(r) ==
  IF IsVacant(r) /\ room[r].empty_flag # 0 THEN NULL ELSE room_list.next[r]

\* tmp_rt, saved before the room may be freed.
NextRoom(r) == room_list.next[r]

\* One iteration over the rooms: empty for a whole interval, and out.
SweepRoom ==
  /\ pc = "sweep_rooms" /\ cursor # NULL
  /\ \/ /\ ~IsVacant(cursor)
        /\ UNCHANGED <<roomVars, roster>>
     \/ /\ IsVacant(cursor) /\ room[cursor].empty_flag = 0
        /\ room' = [room EXCEPT ![cursor].empty_flag = 1]
        /\ UNCHANGED <<rooms, room_list, total_num_of_rooms, roster>>
     \/ /\ IsVacant(cursor) /\ room[cursor].empty_flag # 0
        /\ rooms' = rooms \ {cursor}
        /\ room' = [room EXCEPT ![cursor] = BlankRoom]
        /\ room_list' = UnlinkRoom(cursor)
        /\ total_num_of_rooms' = total_num_of_rooms - 1
        /\ roster' = RosterCleared(cursor)
  /\ cursor' = NextRoom(cursor)
  /\ UNCHANGED <<sessionVars, pc, mt, sent, replyVars>>

SweepDone ==
  /\ pc = "sweep_rooms" /\ cursor = NULL
  /\ pc' = "select"
  /\ UNCHANGED <<sessionVars, roomVars, roster, cursor, mt, sent, replyVars>>

-----------------------------------------------------------------------------
(* A chat message: process_chat_msg. *)

\* From a member in no room: dropped.  (From an unknown id nothing changes.)
ChatMessageDropped(m) ==
  /\ Request(m)
  /\ member' = Heard(m)
  /\ member[m].current_room = NULL
  /\ NoAnswer
  /\ UNCHANGED <<members, mem_list, total_num_of_members, roomVars, roster>>

ChatMessage(m) ==
  /\ pc = "select" /\ m \in members
  /\ member[m].current_room # NULL
  /\ member' = Heard(m)
  /\ pc' = "broadcast"
  /\ mt' = m /\ cursor' = roster.head[member[m].current_room] /\ sent' = <<>>
  /\ NoAnswer
  /\ UNCHANGED <<members, mem_list, total_num_of_members, roomVars, roster>>

\* Mutated form of NextToSend: the walk follows the session list.
NextInSession(m) == mem_list.next[m]

NextToSend(m) == roster.next[m]

\* One iteration: sendto has taken the message for this member.
Deliver ==
  /\ pc = "broadcast" /\ cursor # NULL
  /\ sent' = Append(sent, cursor)
  /\ cursor' = NextToSend(cursor)
  /\ UNCHANGED <<sessionVars, roomVars, roster, pc, mt, replyVars>>

\* The return of process_chat_msg to the select loop.
EndBroadcast ==
  /\ pc' = "select" /\ cursor' = NULL /\ mt' = NULL /\ sent' = <<>>
  /\ UNCHANGED <<sessionVars, roomVars, roster, replyVars>>

\* sendto has failed for this member: the code returns.
DeliverFail == pc = "broadcast" /\ cursor # NULL /\ EndBroadcast

DeliverDone == pc = "broadcast" /\ cursor = NULL /\ EndBroadcast

-----------------------------------------------------------------------------
ControlRequest(m) ==
  \/ Quit(m)
  \/ KeepAlive(m)
  \/ RoomListRequest(m)
  \/ \E name \in RoomName \cup LongName : \/ CreateRoom(m, name)
                                          \/ CreateRoomRefused(m, name)
                                          \/ CreateRoomCrash(m, name)
  \/ \E name \in RoomName : SwitchRefused(m, name) \/ MemberListRequest(m, name)
  \/ \E r \in Room : SwitchRoom(m, r)

\* The steps the server takes on its own, once select has returned.
ServerStep ==
  \/ InitDone
  \/ SweepMember \/ SweepMembersDone \/ SweepRoom \/ SweepDone
  \/ Deliver \/ DeliverFail \/ DeliverDone

Next ==
  \/ \E name \in RoomName : InitRoom(name)
  \/ ServerStep
  \/ \E name \in MemberName : \/ RegisterRefused(name)
                              \/ \E m \in Member, id \in MemberId : Register(m, name, id)
  \/ \E m \in Member : ControlRequest(m) \/ ChatMessage(m) \/ ChatMessageDropped(m)
  \/ \E type \in MemberRequest, id \in MemberId \cup {NoId} : InvalidId(type, id)
  \/ SweepStart

\* select may wait forever, but a handler or a sweep that has begun goes on.
Spec == Init /\ [][Next]_vars /\ WF_vars(ServerStep)

-----------------------------------------------------------------------------
(* Properties. *)

\* The session list is a doubly linked list of exactly the members in use:
\* register links at the tail, quit and the sweep unlink anywhere, and no order
\* of them loses a member, keeps a freed one or ties the list in a loop.
SessionListSound == Ordered(members, mem_list)

\* The list of a room is a doubly linked list of exactly the members whose
\* current_room it is: the two records of who is in a room agree, through
\* switches, quits and sweeps (process_switch_room_request, remove_member).
RostersSound == \A r \in rooms : Ordered(Occupants(r), RoomList(roster, r))

\* q enumerates the rooms of S in the order of the singly linked list L, whose
\* tail is the last of them, or lost.
LinkedAs(q, S, L) ==
  /\ Threads(q, S, L.head, L.next)
  /\ L.tail # NULL => S # {} /\ L.tail = q[Cardinality(S)]

\* L is a singly linked list of exactly the rooms of S.
Linked(S, L) == \E q \in [1..Cardinality(S) -> S] : LinkedAs(q, S, L)

\* A walk from room_list_head visits each room in use once and nothing else, and
\* a tail that is not NULL is the last of them (create_room, remove_room).
RoomListSound == Linked(rooms, room_list)

\* The counters the limits, the room sweep and the list replies rely on count
\* what is there: total_num_of_members, total_num_of_rooms, num_of_members.
CountersAgree ==
  /\ total_num_of_members = Cardinality(members)
  /\ total_num_of_rooms = Cardinality(rooms)
  /\ \A r \in rooms : room[r].num_of_members = Cardinality(Occupants(r))

\* No pointer the code may follow leads to a struct that has been freed: the
\* room of a member, the position of a sweep, the sender of a chat message and
\* the member it is being sent to.
NoDanglingPointer ==
  /\ \A m \in members : member[m].current_room \in rooms \cup {NULL}
  /\ pc = "sweep_members" => cursor \in members \cup {NULL}
  /\ pc = "sweep_rooms"   => cursor \in rooms \cup {NULL}
  /\ pc = "broadcast"     => mt \in members /\ cursor \in Occupants(member[mt].current_room) \cup {NULL}

\* Two members differ in id and in name, and none answers to the id of a stranger.
MemberKeysUnique ==
  /\ \A a, b \in members : a # b => /\ member[a].member_id # member[b].member_id
                                    /\ member[a].member_name # member[b].member_name
  /\ \A m \in members : member[m].member_id # NoId

RoomNamesUnique == \A r, s \in rooms : r # s => room[r].room_name # room[s].room_name

\* An id, a user name or a room name leads to one struct only, so that the
\* first match of a search is the only one (find_member_with_id, register,
\* create_room, switch); and no member answers to the id of a stranger.
IdsAndNamesUnique == MemberKeysUnique /\ RoomNamesUnique

\* The limits of defs.h bound the tables themselves, whatever the counters say.
WithinLimits ==
  /\ Cardinality(members) <= MAX_NUM_OF_MEMBERS
  /\ Cardinality(rooms) <= MAX_NUM_OF_ROOMS
  /\ \A r \in rooms : Cardinality(Occupants(r)) <= MAX_NUM_OF_MEMBERS_PER_ROOM

\* A room whose empty_flag is up has nobody in it: entering a room takes the
\* flag down, and nobody is in a room whose flag the sweep puts up.
EmptyFlagMeansEmpty == \A r \in rooms : room[r].empty_flag = 1 => Occupants(r) = {}

\* The sweep frees no room that has a member in it.
OccupiedRoomKept == [][\A r \in rooms : Occupants(r) # {} => r \in rooms']_vars

\* What a sweep has still to look at.
MembersAhead == SetOf(Chain(mem_list.next, cursor))
RoomsAhead   == SetOf(Chain(room_list.next, cursor))

\* A sweep passes nobody over although it frees what it stands on: behind it every
\* member has its quiet flag up, and every room that nobody is in its empty flag.
SweepMarksAll ==
  /\ pc = "sweep_members" =>
       \A m \in members \ MembersAhead : member[m].quiet_flag # 0
  /\ pc = "sweep_rooms" =>
       /\ \A m \in members : member[m].quiet_flag # 0
       /\ \A r \in rooms \ RoomsAhead : Occupants(r) = {} => room[r].empty_flag # 0

\* And it looks at nobody twice, which would take the second chance away: it begins
\* with all there is, each step puts the one under the cursor behind it and no
\* other, and it ends when nothing is ahead.  (So it ends: a list is finite.)
SweepLooksOnce ==
  [][/\ pc # "sweep_members" /\ pc' = "sweep_members" => MembersAhead' = members
     /\ pc = "sweep_members" /\ pc' = "sweep_members" =>
          cursor \in MembersAhead /\ MembersAhead' = MembersAhead \ {cursor}
     /\ pc = "sweep_members" /\ pc' # "sweep_members" =>
          MembersAhead = {} /\ pc' = "sweep_rooms" /\ RoomsAhead' = rooms
     /\ pc = "sweep_rooms" /\ pc' = "sweep_rooms" =>
          cursor \in RoomsAhead /\ RoomsAhead' = RoomsAhead \ {cursor}
     /\ pc = "sweep_rooms" /\ pc' # "sweep_rooms" => RoomsAhead = {}]_vars

\* In the middle of a broadcast, those who have the message are the first on the
\* list of the sender's room, in order, and the next one is up: nobody is sent
\* the message twice, nobody is passed over and nobody outside the room gets it.
BroadcastFollowsRoll ==
  LET r == member[mt].current_room
      n == Cardinality(Occupants(r))
      k == Len(sent)
  IN  pc = "broadcast" =>
        \E q \in [1..n -> Occupants(r)] :
          /\ Orders(q, Occupants(r), RoomList(roster, r))
          /\ k <= n /\ \A i \in 1..k : sent[i] = q[i]
          /\ cursor = IF k = n THEN NULL ELSE q[k + 1]

\* create_room: "add the new room to the tail" finds a tail to add it to.
CreateRoomReturns == pc # "crashed"

\* A sweep or a broadcast that has begun comes to its end.
LoopsEnd == pc \in {"sweep_members", "sweep_rooms", "broadcast"} ~> pc = "select"

\* If the server keeps sweeping, a session lasts only while the server keeps
\* hearing from it: a client that crashed is gone in the end.
SilentSessionsEnd ==
  \A m \in Member :
    []<>(pc = "sweep_members") /\ <>[](m \in members) => []<>(member[m].quiet_flag = 0)
=============================================================================
