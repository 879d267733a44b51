---------------------------- MODULE ServiceProofs ----------------------------
(***************************************************************************)
(* The server implements the service of ChatService, for every number of    *)
(* members and rooms and every limit: each of its steps is, under the       *)
(* mapping of ChatServerRefinement, a step of the service or none at all.   *)
(* What a walk of a list yields is known from the enumerations that the     *)
(* lemmas of DListProofs and RoomProofs build; from them follows what each  *)
(* operation does to the tables the service sees.                           *)
(***************************************************************************)
EXTENDS ChatServerRefinement, RoomProofs, SequenceTheorems

\* A function on 1..n is a sequence of length n.
LEMMA RowIsSeq ==
  ASSUME NEW S, NEW n \in Nat, NEW q \in [1..n -> S]
  PROVE  q \in Seq(S) /\ Len(q) = n /\ DOMAIN q = 1..n
OBVIOUS

-----------------------------------------------------------------------------
(* What the walks of the lists yield. *)

MemberRow == Chain(mem_list.next, mem_list.head)
RoomRow   == Chain(room_list.next, room_list.head)

\* The sequences in which the loops visit the members, the rooms and the members
\* of a room enumerate them.
RowsFollow ==
  /\ MemberRow \in [1..Cardinality(members) -> members]
  /\ Orders(MemberRow, members, mem_list)
  /\ RoomRow \in [1..Cardinality(rooms) -> rooms]
  /\ LinkedAs(RoomRow, rooms, room_list)
  /\ \A r \in rooms : /\ Roll(r) \in [1..Cardinality(Occupants(r)) -> Occupants(r)]
                      /\ Orders(Roll(r), Occupants(r), RoomList(roster, r))

\* An enumeration that orders the list of a room is what the loop visits.
LEMMA RollIs ==
  ASSUME TypeOK, NEW r \in rooms, NEW S \in SUBSET Member, NEW q \in [1..Cardinality(S) -> S],
         Orders(q, S, RoomList(roster, r))
  PROVE  Roll(r) = q
<1>1. Threads(q, S, roster.head[r], roster.next) BY DEF Orders, RoomList
<1>2. DOMAIN roster.next = Member BY DEF TypeOK, RosterType
<1> QED BY <1>1, <1>2, MemberFinite, NullIsNoMember, ChainOfThreads DEF Roll

\* The same of the session list.
LEMMA MemberRowIs ==
  ASSUME TypeOK, NEW q \in [1..Cardinality(members) -> members], Orders(q, members, mem_list)
  PROVE  MemberRow = q
<1>1. Threads(q, members, mem_list.head, mem_list.next) BY DEF Orders
<1>2. DOMAIN mem_list.next = Member /\ members \in SUBSET Member BY DEF TypeOK, DListType
<1> QED BY <1>1, <1>2, MemberFinite, NullIsNoMember, ChainOfThreads DEF MemberRow

\* And of the room list.
LEMMA RoomRowIs ==
  ASSUME TypeOK, NEW q \in [1..Cardinality(rooms) -> rooms], LinkedAs(q, rooms, room_list)
  PROVE  RoomRow = q
<1>1. Threads(q, rooms, room_list.head, room_list.next) BY DEF LinkedAs
<1>2. DOMAIN room_list.next = Room /\ rooms \in SUBSET Room BY DEF TypeOK, RoomListType
<1> QED BY <1>1, <1>2, ServerAssumption, ChainOfThreads DEF RoomRow

\* What the loops visit that go on from the k-th node, or have visited them all.
LEMMA RollFrom ==
  ASSUME TypeOK, NEW r \in rooms, NEW S \in SUBSET Member, NEW q \in [1..Cardinality(S) -> S],
         Orders(q, S, RoomList(roster, r)), NEW k, NEW c, At(c, q, Cardinality(S), k)
  PROVE  Chain(roster.next, c) = From(q, Cardinality(S), k)
<1>1. Threads(q, S, roster.head[r], roster.next) BY DEF Orders, RoomList
<1>2. DOMAIN roster.next = Member BY DEF TypeOK, RosterType
<1> QED BY <1>1, <1>2, MemberFinite, NullIsNoMember, ChainFrom

LEMMA MemberRowFrom ==
  ASSUME TypeOK, NEW q \in [1..Cardinality(members) -> members], Orders(q, members, mem_list),
         NEW k, NEW c, At(c, q, Cardinality(members), k)
  PROVE  Chain(mem_list.next, c) = From(q, Cardinality(members), k)
<1>1. Threads(q, members, mem_list.head, mem_list.next) BY DEF Orders
<1>2. DOMAIN mem_list.next = Member /\ members \in SUBSET Member BY DEF TypeOK, DListType
<1> QED BY <1>1, <1>2, MemberFinite, NullIsNoMember, ChainFrom

LEMMA RoomRowFrom ==
  ASSUME TypeOK, NEW q \in [1..Cardinality(rooms) -> rooms], LinkedAs(q, rooms, room_list),
         NEW k, NEW c, At(c, q, Cardinality(rooms), k)
  PROVE  Chain(room_list.next, c) = From(q, Cardinality(rooms), k)
<1>1. Threads(q, rooms, room_list.head, room_list.next) BY DEF LinkedAs
<1>2. DOMAIN room_list.next = Room /\ rooms \in SUBSET Room BY DEF TypeOK, RoomListType
<1> QED BY <1>1, <1>2, ServerAssumption, ChainFrom

LEMMA RowsFollowInv == RoomInv => RowsFollow
<1> SUFFICES ASSUME RoomInv PROVE RowsFollow OBVIOUS
<1> USE DEF RoomInv, SessionInv
<1>1. PICK q \in [1..Cardinality(members) -> members] : Orders(q, members, mem_list)
  BY DEF SessionListSound, Ordered
<1>2. PICK p \in [1..Cardinality(rooms) -> rooms] : LinkedAs(p, rooms, room_list)
  BY DEF RoomListSound, Linked
<1>3. ASSUME NEW r \in rooms
      PROVE  /\ Roll(r) \in [1..Cardinality(Occupants(r)) -> Occupants(r)]
             /\ Orders(Roll(r), Occupants(r), RoomList(roster, r))
  <2>1. PICK o \in [1..Cardinality(Occupants(r)) -> Occupants(r)] :
          Orders(o, Occupants(r), RoomList(roster, r))
    BY DEF RostersSound, Ordered
  <2>2. Occupants(r) \in SUBSET Member BY DEF Occupants, TypeOK
  <2> QED BY <2>1, <2>2, RollIs
<1> QED BY <1>1, <1>2, <1>3, MemberRowIs, RoomRowIs DEF RowsFollow

-----------------------------------------------------------------------------
(* What the service sees of the tables. *)

IdOf(m)   == member[m].member_id
NameOf(r) == room[r].room_name

MemberIds == {IdOf(m) : m \in members}
RoomNames == {NameOf(r) : r \in rooms}

\* f is a table with these keys.
TableOf(f, Keys) == f = [k \in Keys |-> f[k]]

LEMMA TableExcept ==
  ASSUME NEW f, NEW Keys, TableOf(f, Keys), NEW k, NEW v
  PROVE  TableOf([f EXCEPT ![k] = v], Keys)
BY DEF TableOf

\* The sessions by the ids of the members, the rolls by the names of the rooms,
\* and the rooms that are vacant.
TablesFollow ==
  /\ TableOf(sessionMap, MemberIds)
  /\ \A m \in members : sessionMap[IdOf(m)] = SessionOf(m)
  /\ TableOf(rollMap, RoomNames)
  /\ \A r \in rooms : rollMap[NameOf(r)] = IdsOf(Roll(r))
  /\ vacantMap = {NameOf(r) : r \in {x \in rooms : room[x].empty_flag # 0}}
  /\ SetOf(orderMap) = RoomNames

LEMMA TablesFollowInv == RoomInv => TablesFollow
<1> SUFFICES ASSUME RoomInv PROVE TablesFollow OBVIOUS
<1>1. RowsFollow BY RowsFollowInv
<1>2. SetOf(IdsOf(MemberRow)) = MemberIds
  <2>1. /\ DOMAIN MemberRow = 1..Cardinality(members)
        /\ \A i \in 1..Cardinality(members) : MemberRow[i] \in members
        /\ \A m \in members : \E i \in 1..Cardinality(members) : MemberRow[i] = m
    BY <1>1 DEF RowsFollow, Orders, Threads
  <2>2. SetOf(IdsOf(MemberRow)) = {IdOf(MemberRow[i]) : i \in 1..Cardinality(members)}
    BY <2>1 DEF SetOf, IdsOf, IdOf
  <2> QED BY <2>1, <2>2 DEF MemberIds
<1>3. SetOf(orderMap) = RoomNames
  <2>1. /\ DOMAIN RoomRow = 1..Cardinality(rooms)
        /\ \A i \in 1..Cardinality(rooms) : RoomRow[i] \in rooms
        /\ \A r \in rooms : \E i \in 1..Cardinality(rooms) : RoomRow[i] = r
    BY <1>1 DEF RowsFollow, LinkedAs, Threads
  <2>2. SetOf(orderMap) = {NameOf(RoomRow[i]) : i \in 1..Cardinality(rooms)}
    BY <2>1 DEF SetOf, NamesOf, NameOf, orderMap, RoomRow
  <2> QED BY <2>1, <2>2 DEF RoomNames
<1>4. \A m \in members : Struct(IdOf(m)) = m
  BY DEF Struct, IdOf, RoomInv, SessionInv, IdsAndNamesUnique, MemberKeysUnique
<1>5. \A r \in rooms : Named(NameOf(r)) = r
  BY DEF Named, NameOf, RoomInv, SessionInv, IdsAndNamesUnique, RoomNamesUnique
<1>6. TableOf(sessionMap, MemberIds)
  BY <1>2 DEF TableOf, sessionMap, MemberRow
<1>7. \A m \in members : sessionMap[IdOf(m)] = SessionOf(m)
  BY <1>2, <1>4 DEF sessionMap, MemberRow, MemberIds
<1>8. TableOf(rollMap, RoomNames)
  BY <1>3 DEF TableOf, rollMap
<1>9. \A r \in rooms : rollMap[NameOf(r)] = IdsOf(Roll(r))
  BY <1>3, <1>5 DEF rollMap, RoomNames
<1>10. vacantMap = {NameOf(r) : r \in {x \in rooms : room[x].empty_flag # 0}}
  BY <1>3, <1>5 DEF vacantMap, RoomNames
<1> QED BY <1>3, <1>6, <1>7, <1>8, <1>9, <1>10 DEF TablesFollow

-----------------------------------------------------------------------------
(* The names of the rooms. *)

\* A room in use has a name create_room accepts.
RoomsNamed == \A r \in rooms : room[r].room_name \in RoomName

\* What the steps of the refinement rest on.
ServedInv == RoomInv /\ RoomsNamed

LEMMA ServedInvInit == Init => ServedInv
BY RoomInvInit DEF ServedInv, RoomsNamed, Init

LEMMA ServedInvStep == ServedInv /\ [Next]_vars => ServedInv'
<1> SUFFICES ASSUME ServedInv, [Next]_vars PROVE ServedInv' OBVIOUS
<1> USE DEF ServedInv
<1>1. RoomInv' BY RoomInvStep
<1>0. SessionInv BY DEF RoomInv
<1>2. ASSUME \A r \in rooms' : r \in rooms /\ room'[r].room_name = room[r].room_name
      PROVE  RoomsNamed'
  BY <1>2 DEF RoomsNamed
<1>3. ASSUME NEW name \in RoomName \cup LongName, AddRoom(name) PROVE RoomsNamed'
  <2>1. PICK r \in Room \ rooms :
          rooms' = rooms \cup {r} /\ room' = [room EXCEPT ![r] = [BlankRoom EXCEPT !.room_name = name]]
    BY <1>3 DEF AddRoom
  <2>2. room'[r].room_name = name /\ \A s \in rooms : room'[s] = room[s]
    BY <2>1, <1>0 DEF SessionInv, TypeOK, BlankRoom
  <2>3. name \in RoomName BY <1>3 DEF AddRoom, create_room
  <2> QED BY <2>1, <2>2, <2>3 DEF RoomsNamed
<1>4. RoomsNamed' BY <1>0, <1>2, <1>3, RoomNameCases
<1> QED BY <1>1, <1>4

LEMMA ServedInvHolds == Spec => []ServedInv
BY ServedInvInit, ServedInvStep, PTL DEF Spec

\* All of this together, in the state before and the state after a step.
Seen == ServedInv /\ RowsFollow /\ TablesFollow

LEMMA SeenInv == ServedInv => Seen
BY RowsFollowInv, TablesFollowInv DEF Seen, ServedInv

LEMMA SeenInvNext == ServedInv' => Seen'
BY SeenInv, PTL

\* The keys of the tables, and what they lead to.
LEMMA KeysOfTables ==
  ASSUME Seen
  PROVE  /\ DOMAIN sessionMap = MemberIds /\ DOMAIN rollMap = RoomNames
         /\ \A m \in members : /\ IdOf(m) \in MemberIds /\ IdOf(m) \in MemberId
                               /\ sessionMap[IdOf(m)] = SessionOf(m)
         /\ \A m, x \in members : IdOf(m) = IdOf(x) => m = x
         /\ \A r \in rooms : /\ NameOf(r) \in RoomNames /\ NameOf(r) \in RoomName /\ NameOf(r) # NULL
                             /\ rollMap[NameOf(r)] = IdsOf(Roll(r))
         /\ \A r, s \in rooms : NameOf(r) = NameOf(s) => r = s
         /\ \A m \in members : member[m].current_room \in rooms \cup {NULL} /\ m \in Member
         /\ NULL \notin Room /\ rooms \subseteq Room
<1> USE DEF Seen, ServedInv, RoomInv, SessionInv
<1>1. /\ \A m \in members : /\ IdOf(m) \in MemberIds /\ IdOf(m) \in MemberId
      /\ \A m, x \in members : IdOf(m) = IdOf(x) => m = x
  BY DEF MemberIds, IdOf, IdsAndNamesUnique, MemberKeysUnique, TypeOK, MemberType
<1>2. /\ \A r \in rooms : NameOf(r) \in RoomNames /\ NameOf(r) \in RoomName /\ NameOf(r) # NULL
      /\ \A r, s \in rooms : NameOf(r) = NameOf(s) => r = s
  BY ServerAssumption DEF RoomNames, NameOf, RoomsNamed, IdsAndNamesUnique, RoomNamesUnique
<1>3. /\ \A m \in members : member[m].current_room \in rooms \cup {NULL} /\ m \in Member
      /\ NULL \notin Room /\ rooms \subseteq Room
  BY ServerAssumption DEF InLiveRoom, TypeOK
<1>4. TableOf(sessionMap, MemberIds) /\ TableOf(rollMap, RoomNames) BY DEF TablesFollow
<1>5. DOMAIN sessionMap = MemberIds /\ DOMAIN rollMap = RoomNames BY <1>4 DEF TableOf
<1> QED BY <1>1, <1>2, <1>3, <1>5 DEF TablesFollow

-----------------------------------------------------------------------------
(* What a step does to the tables of the service. *)

\* A table with the sessions of the members is the table of the sessions.
LEMMA SessionMapIs ==
  ASSUME TablesFollow', NEW f, TableOf(f, MemberIds'),
         \A m \in members' : f[IdOf(m)'] = SessionOf(m)'
  PROVE  sessionMap' = f
<1> DEFINE Keys == MemberIds'
<1>1. TableOf(sessionMap', Keys) /\ \A m \in members' : sessionMap'[IdOf(m)'] = SessionOf(m)'
  BY DEF TablesFollow, TableOf
<1>2. \A k \in Keys : sessionMap'[k] = f[k] BY <1>1 DEF MemberIds
<1> HIDE DEF Keys
<1> QED BY <1>1, <1>2 DEF TableOf, Keys

\* The same of the rolls.
LEMMA RollMapIs ==
  ASSUME TablesFollow', NEW f, TableOf(f, RoomNames'),
         \A r \in rooms' : f[NameOf(r)'] = IdsOf(Roll(r))'
  PROVE  rollMap' = f
<1> DEFINE Keys == RoomNames'
<1>1. TableOf(rollMap', Keys) /\ \A r \in rooms' : rollMap'[NameOf(r)'] = IdsOf(Roll(r))'
  BY DEF TablesFollow, TableOf
<1>2. \A k \in Keys : rollMap'[k] = f[k] BY <1>1 DEF RoomNames
<1> HIDE DEF Keys
<1> QED BY <1>1, <1>2 DEF TableOf, Keys

\* A step that leaves the members and what the service sees of them.
LEMMA SessionsSame ==
  ASSUME Seen, Seen', members' = members,
         \A m \in members : IdOf(m)' = IdOf(m) /\ SessionOf(m)' = SessionOf(m)
  PROVE  sessionMap' = sessionMap
<1>1. TableOf(sessionMap, MemberIds') BY DEF Seen, TablesFollow, MemberIds
<1>2. \A m \in members' : sessionMap[IdOf(m)'] = SessionOf(m)' BY DEF Seen, TablesFollow
<1> QED BY <1>1, <1>2, SessionMapIs DEF Seen

\* A step that leaves the rooms and their rolls.
LEMMA RoomsSame ==
  ASSUME Seen, Seen', UNCHANGED <<rooms, room_list, roster>>,
         \A r \in rooms : room'[r].room_name = room[r].room_name /\ room'[r].empty_flag = room[r].empty_flag,
         \A m \in members : IdOf(m)' = IdOf(m)
  PROVE  UNCHANGED <<orderMap, rollMap, vacantMap>>
<1>1. \A r \in rooms : NameOf(r)' = NameOf(r) BY DEF NameOf
<1>2. orderMap' = orderMap
  <2>1. RoomRow' = RoomRow /\ \A i \in DOMAIN RoomRow : RoomRow[i] \in rooms
    BY DEF Seen, RowsFollow, RoomRow
  <2> QED BY <2>1 DEF orderMap, NamesOf, RoomRow
<1>3. rollMap' = rollMap
  <2>1. ASSUME NEW r \in rooms PROVE IdsOf(Roll(r))' = IdsOf(Roll(r))
    <3>1. Roll(r)' = Roll(r) BY DEF Roll
    <3>2. \A i \in DOMAIN Roll(r) : Roll(r)[i] \in members
      BY DEF Seen, RowsFollow, Occupants
    <3>3. \A i \in DOMAIN Roll(r) : member'[Roll(r)[i]].member_id = member[Roll(r)[i]].member_id
      BY <3>2 DEF IdOf
    <3> QED BY <3>1, <3>3 DEF IdsOf
  <2>2. TableOf(rollMap, RoomNames') BY <1>1 DEF Seen, TablesFollow, RoomNames
  <2>3. \A r \in rooms' : rollMap[NameOf(r)'] = IdsOf(Roll(r))' BY <1>1, <2>1 DEF Seen, TablesFollow
  <2> QED BY <2>2, <2>3, RollMapIs DEF Seen
<1>4. vacantMap' = vacantMap BY <1>1 DEF Seen, TablesFollow
<1> QED BY <1>2, <1>3, <1>4

\* A message of a member: its session is no longer silent.
LEMMA HearSessions ==
  ASSUME Seen, Seen', NEW m \in members, member' = Heard(m), members' = members,
         \A r \in rooms : room'[r].room_name = room[r].room_name
  PROVE  /\ sessionMap' = Service!Spoken(IdOf(m))
         /\ \A x \in members : IdOf(x)' = IdOf(x)
<1>1. m \in Member /\ member \in [Member -> MemberType] /\ members \subseteq Member
  BY DEF Seen, ServedInv, RoomInv, SessionInv, TypeOK
<1>2. \A x \in members : IdOf(x)' = IdOf(x) BY <1>1 DEF IdOf, Heard, MemberType
<1>3. \A x \in members : member[x].current_room \in rooms \cup {NULL} BY KeysOfTables
<1>4. \A x \in members : SessionOf(x)' = IF x = m THEN [SessionOf(m) EXCEPT !.silent = FALSE]
                                         ELSE SessionOf(x)
  BY <1>1, <1>3 DEF SessionOf, Heard, MemberType
<1> DEFINE f == Service!Spoken(IdOf(m))
<1>5. f = [sessionMap EXCEPT ![IdOf(m)] = [SessionOf(m) EXCEPT !.silent = FALSE]]
  BY DEF Service!Spoken, Seen, TablesFollow
<1>6. TableOf(f, MemberIds')
  <2>1. MemberIds' = MemberIds BY <1>2 DEF MemberIds
  <2>2. TableOf(sessionMap, MemberIds) BY DEF Seen, TablesFollow
  <2> HIDE DEF f
  <2> QED BY <1>5, <2>1, <2>2, TableExcept
<1>7. \A x \in members' : f[IdOf(x)'] = SessionOf(x)' BY <1>2, <1>4, <1>5, KeysOfTables
<1> HIDE DEF f
<1>8. sessionMap' = f BY <1>6, <1>7, SessionMapIs DEF Seen
<1> QED BY <1>2, <1>8 DEF f

\* And where it changes nothing else.
LEMMA HearTables ==
  ASSUME Seen, Seen', NEW m \in members, member' = Heard(m),
         UNCHANGED <<members, roomVars, roster>>
  PROVE  sessionMap' = Service!Spoken(IdOf(m)) /\ UNCHANGED <<orderMap, rollMap, vacantMap>>
<1>1. UNCHANGED <<rooms, room, room_list>> BY DEF roomVars
<1>2. sessionMap' = Service!Spoken(IdOf(m)) /\ \A x \in members : IdOf(x)' = IdOf(x)
  BY <1>1, HearSessions
<1>3. UNCHANGED <<orderMap, rollMap, vacantMap>> BY <1>1, <1>2, RoomsSame
<1> QED BY <1>2, <1>3

-----------------------------------------------------------------------------
(* Requests that change nothing but the silence of the member. *)

\* What such a request is to the service, whatever it is answered.
LEMMA RequestHeard ==
  ASSUME Seen, Seen', NEW m \in Member, Request(m), member' = Heard(m),
         UNCHANGED <<members, roomVars, roster>>
  PROVE  /\ m \in members /\ IdOf(m) \in MemberId /\ IdOf(m) = member[m].member_id
         /\ Service!Hear(IdOf(m))
<1>1. m \in members /\ UNCHANGED loopVars /\ pc = "select" BY DEF Request, Serving
<1>2. sessionMap' = Service!Spoken(IdOf(m)) /\ UNCHANGED <<orderMap, rollMap, vacantMap>>
  BY <1>1, HearTables
<1>3. phaseMap = "open" /\ UNCHANGED <<phaseMap, dueMap, pendingMap>>
  BY <1>1 DEF loopVars, phaseMap, dueMap, pendingMap
<1>4. IdOf(m) \in Service!Ids /\ IdOf(m) \in MemberId BY <1>1, KeysOfTables DEF Service!Ids
<1> QED BY <1>1, <1>2, <1>3, <1>4 DEF Service!Hear, Service!Idle, IdOf

\* MEMBER_KEEP_ALIVE, and a chat message from a member in no room.
LEMMA PingStep ==
  ASSUME Seen, Seen', NEW m \in Member, KeepAlive(m) \/ ChatMessageDropped(m)
  PROVE  Service!Next
<1>1. Request(m) /\ member' = Heard(m) /\ UNCHANGED <<members, roomVars, roster>> /\ NoAnswer
  BY DEF KeepAlive, ChatMessageDropped
<1>2. Service!Ping(IdOf(m))
  BY <1>1, RequestHeard DEF Service!Ping, Service!Silence, Service!Reply, NoAnswer, NoReply
<1> QED BY <1>1, <1>2, RequestHeard DEF Service!Next, Service!MemberStep

\* The walk of the room list has as many steps as there are rooms, and the walk
\* of a room as many as the room has members: the counters say how many.
LEMMA RowLengths ==
  ASSUME Seen
  PROVE  /\ total_num_of_rooms \in Nat
         /\ DOMAIN RoomRow = 1..total_num_of_rooms /\ DOMAIN orderMap = 1..total_num_of_rooms
         /\ Len(orderMap) = total_num_of_rooms
         /\ \A i \in 1..total_num_of_rooms : RoomRow[i] \in rooms /\ orderMap[i] = NameOf(RoomRow[i])
         /\ \A r \in rooms : /\ room[r].num_of_members \in Nat
                             /\ DOMAIN Roll(r) = 1..room[r].num_of_members
                             /\ DOMAIN IdsOf(Roll(r)) = 1..room[r].num_of_members
                             /\ Len(IdsOf(Roll(r))) = room[r].num_of_members
                             /\ \A i \in 1..room[r].num_of_members :
                                  Roll(r)[i] \in members /\ IdsOf(Roll(r))[i] = IdOf(Roll(r)[i])
<1> USE DEF Seen, ServedInv, RoomInv
<1>1. rooms \in SUBSET Room /\ members \in SUBSET Member BY DEF SessionInv, TypeOK
<1>2. Cardinality(rooms) \in Nat BY <1>1, RoomsCount
<1>3. total_num_of_rooms = Cardinality(rooms) BY DEF RoomsCounted
<1>4. RoomRow \in [1..total_num_of_rooms -> rooms] BY <1>3 DEF RowsFollow
<1>5. /\ orderMap \in [1..total_num_of_rooms -> RoomNames]
      /\ \A i \in 1..total_num_of_rooms : orderMap[i] = NameOf(RoomRow[i])
  BY <1>4 DEF orderMap, NamesOf, RoomRow, NameOf, RoomNames
<1>6. Len(orderMap) = total_num_of_rooms BY <1>2, <1>3, <1>5, RowIsSeq
<1>7. ASSUME NEW r \in rooms
      PROVE  /\ room[r].num_of_members \in Nat
             /\ DOMAIN Roll(r) = 1..room[r].num_of_members
             /\ DOMAIN IdsOf(Roll(r)) = 1..room[r].num_of_members
             /\ Len(IdsOf(Roll(r))) = room[r].num_of_members
             /\ \A i \in 1..room[r].num_of_members :
                  Roll(r)[i] \in members /\ IdsOf(Roll(r))[i] = IdOf(Roll(r)[i])
  <2> DEFINE n == room[r].num_of_members
             q == IdsOf(Roll(r))
  <2>1. Occupants(r) \in SUBSET Member /\ Occupants(r) \subseteq members BY <1>1 DEF Occupants
  <2>2. n = Cardinality(Occupants(r)) BY DEF OccupantsCounted
  <2>3. n \in Nat BY <2>1, <2>2, NodesCount
  <2>4. Roll(r) \in [1..n -> Occupants(r)] BY <2>2 DEF RowsFollow
  <2>5. q \in [1..n -> MemberIds] /\ \A i \in 1..n : q[i] = IdOf(Roll(r)[i])
    BY <2>1, <2>4 DEF IdsOf, IdOf, MemberIds
  <2>6. Len(q) = n BY <2>3, <2>5, RowIsSeq
  <2> QED BY <2>1, <2>3, <2>4, <2>5, <2>6
<1> QED BY <1>2, <1>3, <1>4, <1>5, <1>6, <1>7

\* ROOM_LIST_REQUEST: the counters agree with the lists, so the answer is what the
\* service says of its rooms.
LEMMA ListRoomsStep ==
  ASSUME Seen, Seen', NEW m \in Member, RoomListRequest(m)
  PROVE  Service!Next
<1> DEFINE entry(r) == <<room[r].room_name, room[r].num_of_members>>
           list == [i \in DOMAIN RoomRow |-> entry(RoomRow[i])]
<1>1. Request(m) /\ member' = Heard(m) /\ UNCHANGED <<members, roomVars, roster>>
  BY DEF RoomListRequest
<1>2. /\ m \in members /\ IdOf(m) \in MemberId /\ IdOf(m) = member[m].member_id
      /\ Service!Hear(IdOf(m))
  BY <1>1, RequestHeard
<1>3. IF total_num_of_rooms = 0 THEN Answer(6, IdOf(m)) ELSE AnswerWithList(5, IdOf(m), list)
  BY <1>2 DEF RoomListRequest, RoomRow, SUCC, FAIL, ROOM_LIST_REQUEST
<1>4. orderMap = <<>> <=> total_num_of_rooms = 0
  <2>1. DOMAIN orderMap = 1..total_num_of_rooms /\ Len(orderMap) = total_num_of_rooms
        /\ total_num_of_rooms \in Nat
    BY RowLengths
  <2>2. orderMap = [i \in DOMAIN orderMap |-> orderMap[i]] BY DEF orderMap, NamesOf
  <2> QED BY <2>1, <2>2
<1>5. list = [i \in DOMAIN orderMap |-> <<orderMap[i], Len(rollMap[orderMap[i]])>>]
  <2>1. \A i \in DOMAIN orderMap : entry(RoomRow[i]) = <<orderMap[i], Len(rollMap[orderMap[i]])>>
    <3> SUFFICES ASSUME NEW i \in DOMAIN orderMap
                 PROVE  entry(RoomRow[i]) = <<orderMap[i], Len(rollMap[orderMap[i]])>>
      OBVIOUS
    <3>1. RoomRow[i] \in rooms /\ orderMap[i] = NameOf(RoomRow[i]) BY RowLengths
    <3>2. rollMap[orderMap[i]] = IdsOf(Roll(RoomRow[i])) BY <3>1, KeysOfTables
    <3>3. Len(rollMap[orderMap[i]]) = room[RoomRow[i]].num_of_members BY <3>1, <3>2, RowLengths
    <3> QED BY <3>1, <3>3 DEF NameOf
  <2>2. DOMAIN RoomRow = DOMAIN orderMap BY RowLengths
  <2> QED BY <2>1, <2>2
<1> HIDE DEF list
<1>6. Service!ListRooms(IdOf(m))
  BY <1>2, <1>3, <1>4, <1>5 DEF Service!ListRooms, Service!Reply, Answer, AnswerWithList
<1> QED BY <1>2, <1>6 DEF Service!Next, Service!MemberStep

\* A name is in use when the service has a room of that name.
LEMMA NamesInUse ==
  ASSUME Seen, NEW name
  PROVE  UsedRoomName(name) <=> name \in Service!Rooms
BY KeysOfTables DEF UsedRoomName, Service!Rooms, RoomNames, NameOf

\* MEMBER_LIST_REQUEST.
LEMMA ListMembersStep ==
  ASSUME Seen, Seen', NEW m \in Member, NEW name \in RoomName, MemberListRequest(m, name)
  PROVE  Service!Next
<1>1. Request(m) /\ member' = Heard(m) /\ UNCHANGED <<members, roomVars, roster>>
  BY DEF MemberListRequest
<1>2. /\ m \in members /\ IdOf(m) \in MemberId /\ IdOf(m) = member[m].member_id
      /\ Service!Hear(IdOf(m))
  BY <1>1, RequestHeard
<1> USE DEF SUCC, FAIL, MEMBER_LIST_REQUEST, Answer, AnswerWithList, Service!Reply
<1>3. ASSUME NEW r \in rooms PROVE roster.head[r] = NULL <=> rollMap[NameOf(r)] = <<>>
  <2> DEFINE q == IdsOf(Roll(r))
             n == room[r].num_of_members
  <2>1. n \in Nat /\ DOMAIN q = 1..n /\ Len(q) = n /\ rollMap[NameOf(r)] = q
    BY RowLengths, KeysOfTables
  <2>2. q = [i \in DOMAIN q |-> q[i]] BY DEF IdsOf
  <2>3. n = Cardinality(Occupants(r)) BY DEF Seen, ServedInv, RoomInv, OccupantsCounted
  <2>4. Ordered(Occupants(r), RoomList(roster, r)) /\ Occupants(r) \in SUBSET Member
    BY DEF Seen, ServedInv, RoomInv, RostersSound, SessionInv, TypeOK, Occupants
  <2>5. roster.head[r] = NULL <=> Occupants(r) = {}
    <3>1. RoomList(roster, r).head = roster.head[r] BY DEF RoomList
    <3> QED BY <2>4, <3>1, WalkStaysOnList
  <2>6. Occupants(r) = {} <=> n = 0 BY <2>3, <2>4, NodesCount
  <2> HIDE DEF q, n
  <2> QED BY <2>1, <2>2, <2>5, <2>6
<1>4. CASE ~UsedRoomName(name) /\ Answer(9, IdOf(m))
  <2>1. Service!ListMembers(IdOf(m), name) BY <1>2, <1>4, NamesInUse DEF Service!ListMembers
  <2> QED BY <1>2, <2>1 DEF Service!Next, Service!MemberStep
<1>5. ASSUME NEW r \in rooms, room[r].room_name = name, roster.head[r] = NULL, Answer(9, IdOf(m))
      PROVE  Service!Next
  <2>1. rollMap[name] = <<>> BY <1>3, <1>5 DEF NameOf
  <2>2. Service!ListMembers(IdOf(m), name) BY <1>2, <1>5, <2>1 DEF Service!ListMembers
  <2> QED BY <1>2, <2>2 DEF Service!Next, Service!MemberStep
<1>6. ASSUME NEW r \in rooms, room[r].room_name = name, roster.head[r] # NULL,
             AnswerWithList(8, IdOf(m), [i \in DOMAIN Roll(r) |-> member[Roll(r)[i]].member_name])
      PROVE  Service!Next
  <2>1. rollMap[name] # <<>> /\ name \in Service!Rooms /\ rollMap[name] = IdsOf(Roll(r))
    BY <1>3, <1>6, KeysOfTables DEF NameOf, Service!Rooms
  <2>2. [i \in DOMAIN Roll(r) |-> member[Roll(r)[i]].member_name] =
        [i \in DOMAIN rollMap[name] |-> sessionMap[rollMap[name][i]].name]
    <3>1. DOMAIN Roll(r) = DOMAIN rollMap[name] BY <2>1, RowLengths
    <3>2. ASSUME NEW i \in DOMAIN Roll(r)
          PROVE  sessionMap[rollMap[name][i]].name = member[Roll(r)[i]].member_name
      <4>1. Roll(r)[i] \in members /\ rollMap[name][i] = IdOf(Roll(r)[i]) BY <2>1, RowLengths
      <4>2. sessionMap[IdOf(Roll(r)[i])] = SessionOf(Roll(r)[i]) BY <4>1, KeysOfTables
      <4>3. SessionOf(Roll(r)[i]).name = member[Roll(r)[i]].member_name BY DEF SessionOf
      <4> QED BY <4>1, <4>2, <4>3
    <3> QED BY <3>1, <3>2
  <2>3. Service!ListMembers(IdOf(m), name) BY <1>2, <1>6, <2>1, <2>2 DEF Service!ListMembers
  <2> QED BY <1>2, <2>3 DEF Service!Next, Service!MemberStep
<1> QED BY <1>2, <1>4, <1>5, <1>6 DEF MemberListRequest

\* create_room takes the names that the service may open a room under.
LEMMA MayOpenIs ==
  ASSUME Seen, NEW name \in RoomName \cup LongName
  PROVE  create_room(name) = 0 <=> Service!MayOpen(name)
<1>1. Len(orderMap) = total_num_of_rooms BY RowLengths
<1>2. total_num_of_rooms \in Nat /\ total_num_of_rooms <= MAX_NUM_OF_ROOMS /\ MAX_NUM_OF_ROOMS \in Nat
  BY RowLengths, ServerAssumption DEF Seen, ServedInv, RoomInv, RoomsCounted
<1>3. name \in LongName <=> name \notin RoomName BY ServerAssumption
<1>4. UsedRoomName(name) <=> name \in Service!Rooms BY NamesInUse
<1> QED BY <1>1, <1>2, <1>3, <1>4 DEF create_room, Service!MayOpen

\* CREATE_ROOM_REQUEST, refused.
LEMMA CreateRoomRefusedStep ==
  ASSUME Seen, Seen', NEW m \in Member, NEW name \in RoomName \cup LongName,
         CreateRoomRefused(m, name)
  PROVE  Service!Next
<1>1. Request(m) /\ member' = Heard(m) /\ UNCHANGED <<members, roomVars, roster>>
  BY DEF CreateRoomRefused
<1>2. /\ m \in members /\ IdOf(m) \in MemberId /\ IdOf(m) = member[m].member_id
      /\ Service!Hear(IdOf(m))
  BY <1>1, RequestHeard
<1>3. ~Service!MayOpen(name) BY MayOpenIs DEF CreateRoomRefused
<1>4. Answer(15, IdOf(m)) BY <1>2 DEF CreateRoomRefused, FAIL, CREATE_ROOM_REQUEST
<1>5. Service!RefuseRoom(IdOf(m), name)
  BY <1>2, <1>3, <1>4 DEF Service!RefuseRoom, Service!Reply, Answer
<1> QED BY <1>2, <1>5 DEF Service!Next, Service!MemberStep

\* A member may enter a room that is not full and that it is not in.
LEMMA MayEnterIs ==
  ASSUME Seen, NEW m \in members, NEW r \in rooms
  PROVE  Service!MayEnter(IdOf(m), NameOf(r)) <=> ~IsFull(r) /\ member[m].current_room # r
<1>1. /\ NameOf(r) \in Service!Rooms /\ NameOf(r) # NULL
      /\ rollMap[NameOf(r)] = IdsOf(Roll(r)) /\ sessionMap[IdOf(m)] = SessionOf(m)
      /\ member[m].current_room \in rooms \cup {NULL} /\ r # NULL
  BY KeysOfTables DEF Service!Rooms
<1>2. \A s \in rooms : NameOf(s) = NameOf(r) <=> s = r BY KeysOfTables
<1>3. sessionMap[IdOf(m)].room = NameOf(r) <=> member[m].current_room = r
  BY <1>1, <1>2 DEF SessionOf, NameOf
<1>4. Len(rollMap[NameOf(r)]) = room[r].num_of_members BY <1>1, RowLengths
<1>5. /\ room[r].num_of_members \in Nat /\ MAX_NUM_OF_MEMBERS_PER_ROOM \in Nat
      /\ room[r].num_of_members <= MAX_NUM_OF_MEMBERS_PER_ROOM
  BY RowLengths, ServerAssumption DEF Seen, ServedInv, RoomInv, OccupantsCounted
<1> QED BY <1>1, <1>3, <1>4, <1>5 DEF Service!MayEnter, IsFull

\* SWITCH_ROOM_REQUEST, refused.
LEMMA SwitchRefusedStep ==
  ASSUME Seen, Seen', NEW m \in Member, NEW name \in RoomName, SwitchRefused(m, name)
  PROVE  Service!Next
<1>1. Request(m) /\ member' = Heard(m) /\ UNCHANGED <<members, roomVars, roster>>
  BY DEF SwitchRefused
<1>2. /\ m \in members /\ IdOf(m) \in MemberId /\ IdOf(m) = member[m].member_id
      /\ Service!Hear(IdOf(m))
  BY <1>1, RequestHeard
<1>3. ~Service!MayEnter(IdOf(m), name)
  <2>1. CASE ~UsedRoomName(name) BY <2>1, NamesInUse DEF Service!MayEnter
  <2>2. ASSUME NEW r \in rooms, room[r].room_name = name, IsFull(r) \/ member[m].current_room = r
        PROVE  ~Service!MayEnter(IdOf(m), name)
    BY <1>2, <2>2, MayEnterIs DEF NameOf
  <2> QED BY <2>1, <2>2 DEF SwitchRefused
<1>4. Answer(12, IdOf(m)) BY <1>2 DEF SwitchRefused, FAIL, SWITCH_ROOM_REQUEST
<1>5. IdOf(m) \in Service!Ids BY <1>2, KeysOfTables DEF Service!Ids
<1>6. Service!RefuseEntry(IdOf(m), name)
  BY <1>2, <1>3, <1>4, <1>5 DEF Service!RefuseEntry, Service!Reply, Answer
<1> QED BY <1>2, <1>6 DEF Service!Next, Service!MemberStep

\* CREATE_ROOM_REQUEST of a server that has lost the tail of its room list.
LEMMA CreateRoomCrashStep ==
  ASSUME Seen, Seen', NEW m \in Member, NEW name \in RoomName \cup LongName,
         CreateRoomCrash(m, name)
  PROVE  Service!Next
<1>1. /\ m \in members /\ member' = Heard(m) /\ UNCHANGED <<members, roomVars, roster>>
      /\ pc = "select" /\ pc' = "crashed" /\ NoAnswer
  BY DEF CreateRoomCrash
<1>2. sessionMap' = Service!Spoken(IdOf(m)) /\ UNCHANGED <<orderMap, rollMap, vacantMap>>
  BY <1>1, HearTables
<1>3. /\ phaseMap = "open" /\ phaseMap' = "down" /\ UNCHANGED <<dueMap, pendingMap>>
  BY <1>1 DEF phaseMap, dueMap, pendingMap
<1>4. Service!MayOpen(name) BY MayOpenIs DEF CreateRoomCrash
<1>5. IdOf(m) \in Service!Ids /\ IdOf(m) \in MemberId BY <1>1, KeysOfTables DEF Service!Ids
<1>6. Service!Silence BY <1>1 DEF Service!Silence, Service!Reply, NoAnswer, NoReply
<1>7. Service!Die(IdOf(m), name)
  BY <1>2, <1>3, <1>4, <1>5, <1>6 DEF Service!Die
<1> QED BY <1>5, <1>7 DEF Service!Next, Service!MemberStep

\* A chat message: those it is for are the roll of the sender's room.
LEMMA ChatMessageStep ==
  ASSUME Seen, Seen', NEW m \in Member, ChatMessage(m)
  PROVE  Service!Next
<1> DEFINE r == member[m].current_room
<1>1. /\ m \in members /\ member' = Heard(m) /\ UNCHANGED <<members, roomVars, roster>>
      /\ pc = "select" /\ pc' = "broadcast" /\ NoAnswer /\ r # NULL /\ cursor' = roster.head[r]
  BY DEF ChatMessage
<1>2. sessionMap' = Service!Spoken(IdOf(m)) /\ UNCHANGED <<orderMap, rollMap, vacantMap>>
  BY <1>1, HearTables
<1>3. phaseMap = "open" /\ phaseMap' = "sending" /\ UNCHANGED dueMap
  BY <1>1 DEF phaseMap, dueMap
<1>4. IdOf(m) \in Service!Ids /\ IdOf(m) \in MemberId BY <1>1, KeysOfTables DEF Service!Ids
<1>5. Service!Silence BY <1>1 DEF Service!Silence, Service!Reply, NoAnswer, NoReply
<1>6. /\ r \in rooms /\ rollMap[NameOf(r)] = IdsOf(Roll(r)) /\ NameOf(r) # NULL
      /\ sessionMap[IdOf(m)].room = NameOf(r)
  <2>1. r \in rooms /\ sessionMap[IdOf(m)] = SessionOf(m) BY <1>1, KeysOfTables
  <2> QED BY <1>1, <2>1, KeysOfTables DEF SessionOf, NameOf
<1>7. pendingMap' = IdsOf(Roll(r))
  <2>1. pendingMap' = [i \in DOMAIN Roll(r) |-> member'[Roll(r)[i]].member_id]
    BY <1>1 DEF pendingMap, IdsOf, Roll
  <2>2. \A x \in Member : Heard(m)[x].member_id = member[x].member_id
    BY DEF Heard, Seen, ServedInv, RoomInv, SessionInv, TypeOK, MemberType
  <2>3. \A i \in DOMAIN Roll(r) : Roll(r)[i] \in Member
    <3>1. DOMAIN Roll(r) = 1..room[r].num_of_members BY <1>6, RowLengths
    <3>2. \A i \in 1..room[r].num_of_members : Roll(r)[i] \in members BY <1>6, RowLengths
    <3> QED BY <3>1, <3>2, KeysOfTables
  <2> QED BY <1>1, <2>1, <2>2, <2>3 DEF IdsOf
<1>8. Service!Say(IdOf(m))
  BY <1>2, <1>3, <1>4, <1>5, <1>6, <1>7 DEF Service!Say
<1> QED BY <1>4, <1>8 DEF Service!Next, Service!MemberStep

\* A step that touches none of the tables.
LEMMA TablesStay ==
  ASSUME UNCHANGED <<sessionVars, roomVars, roster>>
  PROVE  UNCHANGED <<sessionMap, orderMap, rollMap, vacantMap>>
<1> USE DEF sessionVars, roomVars
<1>1. orderMap' = orderMap BY DEF orderMap, NamesOf
<1>2. rollMap' = rollMap
  <2>1. \A n : Named(n)' = Named(n) BY DEF Named
  <2>2. \A n : IdsOf(Roll(Named(n)))' = IdsOf(Roll(Named(n))) BY <2>1 DEF IdsOf, Roll
  <2> QED BY <1>1, <2>2 DEF rollMap
<1>3. vacantMap' = vacantMap
  <2>1. \A n : Named(n)' = Named(n) BY DEF Named
  <2> QED BY <1>1, <2>1 DEF vacantMap
<1>4. sessionMap' = sessionMap
  <2>1. \A id : SessionOf(Struct(id))' = SessionOf(Struct(id)) BY DEF Struct, SessionOf
  <2> QED BY <2>1 DEF sessionMap, IdsOf
<1> QED BY <1>1, <1>2, <1>3, <1>4

-----------------------------------------------------------------------------
(* Requests of strangers, and the start. *)

\* A request with the id of nobody.
LEMMA InvalidIdStep ==
  ASSUME NEW type \in MemberRequest, NEW id, InvalidId(type, id)
  PROVE  Service!Next
<1>1. UNCHANGED <<sessionVars, roomVars, roster, loopVars>> /\ pc = "select" BY DEF InvalidId, Serving
<1>2. UNCHANGED <<sessionMap, orderMap, rollMap, vacantMap>> BY <1>1, TablesStay
<1>3. phaseMap = "open" /\ UNCHANGED <<phaseMap, dueMap, pendingMap>>
  <2>1. UNCHANGED dueMap BY <1>1 DEF loopVars, dueMap
  <2> QED BY <1>1, <2>1 DEF loopVars, phaseMap, pendingMap
<1>4. type \in {4, 5, 7, 10, 13, 16, 17}
  BY DEF MemberRequest, ROOM_LIST_REQUEST, MEMBER_LIST_REQUEST, SWITCH_ROOM_REQUEST,
         CREATE_ROOM_REQUEST, MEMBER_KEEP_ALIVE, QUIT_REQUEST, OTHER_REQUEST
<1>5. Service!Disown(type)
  BY <1>2, <1>3 DEF Service!Disown, Service!Idle, Service!Reply, Service!tables, InvalidId, Answer, FAIL
<1> QED BY <1>4, <1>5 DEF Service!Next

\* The service counts as the server does.
LEMMA SameCardinality ==
  ASSUME NEW S
  PROVE  Service!Cardinality(S) = Cardinality(S)
BY DEF Cardinality, Service!Cardinality

\* The number of sessions is what the counter says.
LEMMA SessionsCount ==
  ASSUME Seen
  PROVE  /\ Service!Cardinality(Service!Ids) = total_num_of_members
         /\ total_num_of_members \in Nat /\ total_num_of_members <= MAX_NUM_OF_MEMBERS
         /\ \A name : UsedMemberName(name) <=>
                        \E id \in Service!Ids : sessionMap[id].name = name
         /\ \A id : UsedId(id) <=> id \in Service!Ids
<1>1. members \in SUBSET Member /\ total_num_of_members = Cardinality(members)
      /\ Cardinality(members) <= MAX_NUM_OF_MEMBERS
  BY DEF Seen, ServedInv, RoomInv, SessionInv, SessionsCounted, TypeOK
<1>2. IsFiniteSet(members) /\ Cardinality(members) \in Nat BY <1>1, NodesCount
<1>3. Service!Ids = MemberIds BY KeysOfTables DEF Service!Ids
<1>4. Cardinality(MemberIds) = Cardinality(members)
  <2> DEFINE f == [m \in members |-> IdOf(m)]
  <2>1. f \in Bijection(members, MemberIds)
    <3>1. f \in [members -> MemberIds] BY DEF MemberIds
    <3>2. \A a, b \in members : f[a] = f[b] => a = b BY KeysOfTables
    <3>3. \A id \in MemberIds : \E m \in members : f[m] = id BY DEF MemberIds
    <3> HIDE DEF f
    <3> QED BY <3>1, <3>2, <3>3 DEF Bijection, Injection, Surjection, IsInjective
  <2>2. ExistsBijection(members, MemberIds) BY <2>1 DEF ExistsBijection
  <2> QED BY <1>2, <2>2, FS_Bijection
<1>5. \A m \in members : sessionMap[IdOf(m)].name = member[m].member_name
  <2> SUFFICES ASSUME NEW m \in members
               PROVE  sessionMap[IdOf(m)].name = member[m].member_name
    OBVIOUS
  <2>1. sessionMap[IdOf(m)] = SessionOf(m) BY KeysOfTables
  <2> QED BY <2>1 DEF SessionOf
<1>6. \A name : UsedMemberName(name) <=> \E id \in MemberIds : sessionMap[id].name = name
  BY <1>5 DEF UsedMemberName, MemberIds
<1>7. \A id : UsedId(id) <=> id \in MemberIds BY DEF UsedId, MemberIds, IdOf
<1> QED BY <1>1, <1>2, <1>3, <1>4, <1>6, <1>7, SameCardinality

\* REGISTER_REQUEST, refused.
LEMMA RegisterRefusedStep ==
  ASSUME Seen, Seen', NEW name \in MemberName, RegisterRefused(name)
  PROVE  Service!Next
<1>1. UNCHANGED <<sessionVars, roomVars, roster, loopVars>> /\ pc = "select"
  BY DEF RegisterRefused, Serving
<1>2. UNCHANGED <<sessionMap, orderMap, rollMap, vacantMap>> BY <1>1, TablesStay
<1>3. phaseMap = "open" /\ UNCHANGED <<phaseMap, dueMap, pendingMap>>
  BY <1>1 DEF loopVars, phaseMap, dueMap, pendingMap
<1>4. \/ Service!Cardinality(Service!Ids) = MAX_NUM_OF_MEMBERS
      \/ \E other \in Service!Ids : sessionMap[other].name = name
  <2>1. /\ Service!Cardinality(Service!Ids) = total_num_of_members
        /\ UsedMemberName(name) <=> \E id \in Service!Ids : sessionMap[id].name = name
    BY SessionsCount
  <2> QED BY <2>1 DEF RegisterRefused, RegisterAllowed
<1>5. Answer(3, NoId) BY DEF RegisterRefused, FAIL, REGISTER_REQUEST
<1>6. Service!TurnAway(name)
  BY <1>2, <1>3, <1>4, <1>5 DEF Service!TurnAway, Service!Idle, Service!Reply, Service!tables, Answer
<1> QED BY <1>6 DEF Service!Next

\* init_server is done.
LEMMA InitDoneStep ==
  ASSUME InitDone
  PROVE  Service!Next
<1>1. /\ UNCHANGED <<sessionVars, roomVars, roster>> /\ pc = "init" /\ pc' = "select" /\ NoAnswer
  BY DEF InitDone
<1>2. UNCHANGED <<sessionMap, orderMap, rollMap, vacantMap>> BY <1>1, TablesStay
<1>3. phaseMap = "starting" /\ phaseMap' = "open" /\ UNCHANGED <<dueMap, pendingMap>>
  BY <1>1 DEF phaseMap, dueMap, pendingMap
<1>4. Service!StartUp
  BY <1>1, <1>2, <1>3 DEF Service!StartUp, Service!Silence, Service!Reply, Service!tables, NoAnswer, NoReply
<1> QED BY <1>4 DEF Service!Next, Service!OwnStep

-----------------------------------------------------------------------------
(* A broadcast. *)

\* A row without its first element.
LEMMA TailOf ==
  ASSUME NEW S, NEW n \in Nat \ {0}, NEW q \in [1..n -> S]
  PROVE  q # <<>> /\ Tail(q) = [i \in 1..(n - 1) |-> q[i + 1]]
<1>1. q \in Seq(S) /\ Len(q) = n BY RowIsSeq
<1>2. q # <<>> BY <1>1
<1>3. /\ Tail(q) \in Seq(S) /\ Len(Tail(q)) = n - 1
      /\ \A i \in 1..(n - 1) : Tail(q)[i] = q[i + 1]
  BY <1>1, <1>2, HeadTailProperties
<1> DEFINE p == [i \in 1..(n - 1) |-> q[i + 1]]
<1>4. p \in [1..(n - 1) -> S] OBVIOUS
<1>5. p \in Seq(S) /\ Len(p) = n - 1
  <2> HIDE DEF p
  <2> QED BY <1>4, RowIsSeq
<1>6. \A i \in 1..Len(p) : Tail(q)[i] = p[i] BY <1>3, <1>5
<1> HIDE DEF p
<1>7. Tail(q) = p BY <1>3, <1>5, <1>6, SeqEqual
<1> QED BY <1>2, <1>7 DEF p

\* Those a chat message has still to be sent to are the rest of the roll.
PendingFollows ==
  LET r == member[mt].current_room
      n == Cardinality(Occupants(r))
      k == Len(sent)
  IN  pc = "broadcast" =>
        /\ r \in rooms /\ n \in Nat /\ k \in 0..n
        /\ cursor = NULL <=> k = n
        /\ \A i \in 1..n : IdOf(Roll(r)[i]) \in MemberId
        /\ pendingMap = [i \in 1..(n - k) |-> IdOf(Roll(r)[k + i])]

LEMMA PendingInv == Seen => PendingFollows
<1> SUFFICES ASSUME Seen, pc = "broadcast" PROVE PendingFollows BY DEF PendingFollows
<1> USE DEF Seen, ServedInv, RoomInv, SessionInv
<1> DEFINE r == member[mt].current_room
           S == Occupants(r)
           n == Cardinality(S)
           k == Len(sent)
<1>1. r \in rooms /\ TypeOK /\ S \in SUBSET Member /\ S \subseteq members
  BY DEF SendingInRoom, Occupants, TypeOK
<1>2. n \in Nat /\ k \in Nat BY <1>1, NodesCount DEF TypeOK
<1>3. PICK q \in [1..n -> S] : /\ Orders(q, S, RoomList(roster, r))
                               /\ k <= n /\ cursor = IF k = n THEN NULL ELSE q[k + 1]
  BY DEF BroadcastFollowsRoll
<1>4. Roll(r) = q BY <1>1, <1>3, RollIs
<1>5. Chain(roster.next, cursor) = From(q, n, k + 1)
  <2>1. At(cursor, q, n, k + 1)
    <3> HIDE DEF S, n, k, Seen
    <3> QED BY <1>2, <1>3 DEF At
  <2> QED BY <1>1, <1>3, <2>1, RollFrom
<1>6. \A i \in 1..n : q[i] \in members /\ q[i] # NULL BY <1>1, <1>3, NullIsNoMember
<1>7. \A i \in 1..n : IdOf(q[i]) \in MemberId
  <2> HIDE DEF Seen
  <2> QED BY <1>6, KeysOfTables
<1>8. pendingMap = [i \in 1..(n - k) |-> IdOf(q[k + i])]
  <2> HIDE DEF k, n, Seen
  <2>1. n - (k + 1) + 1 = n - k /\ \A i \in 1..(n - k) : (k + 1) + i - 1 = k + i BY <1>2
  <2>2. From(q, n, k + 1) = [i \in 1..(n - k) |-> q[k + i]] BY <2>1 DEF From
  <2>3. pendingMap = IdsOf(From(q, n, k + 1)) BY <1>5 DEF pendingMap
  <2> QED BY <2>2, <2>3 DEF IdsOf, IdOf
<1>9. cursor = NULL <=> k = n BY <1>2, <1>3, <1>6
<1>10. k \in 0..n BY <1>2, <1>3
<1> HIDE DEF S, k, n
<1> QED BY <1>1, <1>2, <1>4, <1>7, <1>8, <1>9, <1>10 DEF n, k, S, PendingFollows

LEMMA PendingInvNext == Seen' => PendingFollows'
BY PendingInv, PTL

\* The message has been sent to the first of them.
LEMMA DeliverStep ==
  ASSUME Seen, Seen', Deliver
  PROVE  Service!Next
<1> DEFINE r == member[mt].current_room
           n == Cardinality(Occupants(r))
           k == Len(sent)
           p == [i \in 1..(n - k) |-> IdOf(Roll(r)[k + i])]
<1>1. /\ pc = "broadcast" /\ pc' = "broadcast" /\ cursor # NULL /\ sent' = Append(sent, cursor)
      /\ UNCHANGED <<sessionVars, roomVars, roster, mt, replyVars>>
  BY DEF Deliver
<1>2. UNCHANGED <<sessionMap, orderMap, rollMap, vacantMap>> BY <1>1, TablesStay
<1>3. phaseMap = "sending" /\ UNCHANGED <<phaseMap, dueMap>> BY <1>1 DEF phaseMap, dueMap
<1>4. /\ n \in Nat /\ k \in 0..n /\ k # n /\ pendingMap = p
      /\ \A i \in 1..n : IdOf(Roll(r)[i]) \in MemberId
  BY <1>1, PendingInv DEF PendingFollows
<1>5. p \in [1..(n - k) -> MemberId] BY <1>4
<1>6. Len(sent') = k + 1
  <2>1. sent \in Seq(Member) BY DEF Seen, ServedInv, RoomInv, SessionInv, TypeOK
  <2> QED BY <1>1, <2>1
<1>7. r' = r /\ Occupants(r)' = Occupants(r) /\ Roll(r)' = Roll(r) /\ \A x : IdOf(x)' = IdOf(x)
  BY <1>1 DEF sessionVars, Occupants, Roll, IdOf
<1>8. pendingMap' = [i \in 1..(n - (k + 1)) |-> IdOf(Roll(r)[(k + 1) + i])]
  <2>1. pendingMap' = [i \in 1..(n - k) |-> IdOf(Roll(r)[k + i])]'
    BY <1>1, PendingInvNext DEF PendingFollows
  <2> QED BY <1>6, <1>7, <2>1
<1>9. p # <<>> /\ Tail(p) = pendingMap'
  <2> HIDE DEF p, n, k, r
  <2>1. n - k \in Nat \ {0} BY <1>4
  <2>2. p # <<>> /\ Tail(p) = [i \in 1..(n - k - 1) |-> p[i + 1]]
    <3> DEFINE left == n - k
    <3>1. left \in Nat \ {0} /\ p \in [1..left -> MemberId] BY <1>5, <2>1
    <3> HIDE DEF left
    <3>2. p # <<>> /\ Tail(p) = [i \in 1..(left - 1) |-> p[i + 1]] BY ONLY <3>1, TailOf
    <3> QED BY <3>2 DEF left
  <2>3. n - (k + 1) = n - k - 1 BY <1>4
  <2>4. \A i \in 1..(n - k - 1) : p[i + 1] = IdOf(Roll(r)[(k + 1) + i])
    <3> SUFFICES ASSUME NEW i \in 1..(n - k - 1)
                 PROVE  p[i + 1] = IdOf(Roll(r)[(k + 1) + i])
      OBVIOUS
    <3>1. i + 1 \in 1..(n - k) /\ k + (i + 1) = (k + 1) + i BY <1>4
    <3> QED BY <3>1 DEF p
  <2> QED BY <1>8, <2>2, <2>3, <2>4
<1>10. Service!Send
  <2> HIDE DEF p
  <2> QED BY <1>1, <1>2, <1>3, <1>4, <1>9 DEF Service!Send, Service!tables, replyVars
<1> QED BY <1>10 DEF Service!Next, Service!OwnStep

\* The broadcast ends, with the last of them or with one it could not be sent to.
LEMMA EndBroadcastStep ==
  ASSUME DeliverFail \/ DeliverDone
  PROVE  Service!Next
<1>1. /\ pc = "broadcast" /\ pc' = "select"
      /\ UNCHANGED <<sessionVars, roomVars, roster, replyVars>>
  BY DEF DeliverFail, DeliverDone, EndBroadcast
<1>2. UNCHANGED <<sessionMap, orderMap, rollMap, vacantMap>> BY <1>1, TablesStay
<1>3. /\ phaseMap = "sending" /\ phaseMap' = "open" /\ pendingMap' = <<>> /\ UNCHANGED dueMap
  BY <1>1 DEF phaseMap, pendingMap, dueMap
<1>4. Service!EndSay
  BY <1>1, <1>2, <1>3 DEF Service!EndSay, Service!tables, replyVars
<1> QED BY <1>4 DEF Service!Next, Service!OwnStep

-----------------------------------------------------------------------------
(* What a sweep has still to look at. *)

\* From one node of a row to the next, the one left behind kept or taken out: what
\* is ahead is what was, without it.
LEMMA LeaveBehind ==
  ASSUME NEW S, NULL \notin S, Cardinality(S) \in Nat, NEW q \in [1..Cardinality(S) -> S],
         NEW head, NEW next, Threads(q, S, head, next), NEW k \in 1..Cardinality(S),
         NEW c, q[k] = c
  PROVE  LET n == Cardinality(S)
         IN  /\ At(c, q, n, k) /\ c \in SetOf(From(q, n, k)) /\ SetOf(From(q, n, k)) \subseteq S
             /\ SetOf(From(q, n, k + 1)) = SetOf(From(q, n, k)) \ {c}
             /\ SetOf(From(Skipped(q, n, k), n - 1, k)) = SetOf(From(q, n, k)) \ {c}
             /\ At(next[c], q, n, k + 1) /\ At(next[c], Skipped(q, n, k), n - 1, k)
<1> DEFINE n == Cardinality(S)
<1>a. n \in Nat /\ k \in 1..n /\ q \in [1..n -> S] OBVIOUS
<1>b. \A i, j \in 1..n : q[i] = q[j] => i = j BY DEF Threads
<1>c. next[c] = IF k = n THEN NULL ELSE q[k + 1] BY DEF Threads
<1> HIDE DEF n
<1>0. ASSUME NEW j \in 1..(n + 1) PROVE SetOf(From(q, n, j)) = {q[i] : i \in j..n}
  <2> DEFINE A == {q[j + i - 1] : i \in 1..(n - j + 1)}
             B == {q[i] : i \in j..n}
  <2>1. SetOf(From(q, n, j)) = A BY <1>a DEF SetOf, From
  <2>2. ASSUME NEW i \in 1..(n - j + 1) PROVE q[j + i - 1] \in B
    <3>1. j + i - 1 \in j..n BY <1>a
    <3> QED BY <3>1
  <2>3. ASSUME NEW i \in j..n PROVE q[i] \in A
    <3>1. i - j + 1 \in 1..(n - j + 1) /\ j + (i - j + 1) - 1 = i BY <1>a
    <3> QED BY <3>1
  <2>4. A \subseteq B BY <2>2
  <2>5. B \subseteq A BY <2>3
  <2> QED BY <2>1, <2>4, <2>5
<1>1. SetOf(From(q, n, k)) = {q[i] : i \in k..n}
  <2>1. k \in 1..(n + 1) BY <1>a
  <2> QED BY <1>0, <2>1
<1>2. SetOf(From(q, n, k + 1)) = {q[i] : i \in (k + 1)..n}
  <2>1. k + 1 \in 1..(n + 1) BY <1>a
  <2> QED BY <1>0, <2>1
<1>3. SetOf(From(Skipped(q, n, k), n - 1, k)) = {q[i] : i \in (k + 1)..n}
  <2> DEFINE p == Skipped(q, n, k)
             A == {p[k + i - 1] : i \in 1..(n - 1 - k + 1)}
             B == {q[i] : i \in (k + 1)..n}
  <2>1. SetOf(From(p, n - 1, k)) = A BY DEF SetOf, From
  <2>2. ASSUME NEW i \in 1..(n - 1 - k + 1) PROVE p[k + i - 1] = q[k + i] /\ k + i \in (k + 1)..n
    <3>1. /\ k + i - 1 \in 1..(n - 1) /\ ~(k + i - 1 < k) /\ (k + i - 1) + 1 = k + i
          /\ k + i \in (k + 1)..n
      BY <1>a
    <3> QED BY <3>1 DEF Skipped
  <2>3. ASSUME NEW i \in (k + 1)..n PROVE q[i] \in A
    <3>1. i - k \in 1..(n - 1 - k + 1) /\ k + (i - k) = i BY <1>a
    <3>2. p[k + (i - k) - 1] = q[i] BY <2>2, <3>1
    <3> QED BY <3>1, <3>2
  <2> HIDE DEF p
  <2>4. A \subseteq B BY <2>2
  <2>5. B \subseteq A BY <2>3
  <2> QED BY <2>1, <2>4, <2>5 DEF p
<1>4. {q[i] : i \in (k + 1)..n} = {q[i] : i \in k..n} \ {c} BY <1>a, <1>b
<1>5. At(c, q, n, k) BY <1>a DEF At
<1>6. At(next[c], q, n, k + 1) BY <1>a, <1>c DEF At
<1>7. At(next[c], Skipped(q, n, k), n - 1, k) BY <1>a, <1>c DEF At, Skipped
<1>8. c \in {q[i] : i \in k..n} /\ {q[i] : i \in k..n} \subseteq S BY <1>a
<1> QED BY <1>1, <1>2, <1>3, <1>4, <1>5, <1>6, <1>7, <1>8 DEF n

\* The list of the members after one of them has been removed.
LEMMA RemovalRow ==
  ASSUME Seen, NEW k \in 1..Cardinality(members), NEW m, m = MemberRow[k], RemoveMember(m)
  PROVE  /\ m \in members /\ members \ {m} \in SUBSET Member
         /\ Cardinality(members \ {m}) = Cardinality(members) - 1
         /\ Skipped(MemberRow, Cardinality(members), k)
              \in [1..Cardinality(members \ {m}) -> members \ {m}]
         /\ Orders(Skipped(MemberRow, Cardinality(members), k), members \ {m}, mem_list')
         /\ DOMAIN mem_list'.next = Member
<1> DEFINE q == MemberRow
           p == Skipped(q, Cardinality(members), k)
           T == members \ {m}
           K == Unlink(mem_list, m)
<1>1. TypeOK /\ mem_list \in DListType /\ members \in SUBSET Member
  BY DEF Seen, ServedInv, RoomInv, SessionInv, TypeOK
<1>2. q \in [1..Cardinality(members) -> members] /\ Orders(q, members, mem_list)
  BY DEF Seen, RowsFollow
<1>3. m \in members /\ m \in Member BY <1>1, <1>2
<1>4. Cardinality(T) = Cardinality(members) - 1 BY <1>1, <1>3, NodesCount
<1>5. p \in [1..Cardinality(T) -> T] /\ Orders(p, T, K) BY <1>1, <1>2, UnlinkOrders
<1>6. K \in DListType BY <1>1, <1>3, UnlinkType
<1>7. mem_list' = ClearLinks(K, m) BY DEF RemoveMember
<1> HIDE DEF K, p
<1>8. /\ ClearLinks(K, m).head = K.head /\ ClearLinks(K, m).tail = K.tail
      /\ \A x \in T : ClearLinks(K, m).next[x] = K.next[x] /\ ClearLinks(K, m).prev[x] = K.prev[x]
      /\ DOMAIN ClearLinks(K, m).next = Member
  BY <1>1, <1>6 DEF ClearLinks, DListType
<1> HIDE DEF T
<1>9. Orders(p, T, ClearLinks(K, m)) BY <1>5, <1>8, OrdersFrame
<1>10. T \in SUBSET Member BY <1>1 DEF T
<1> QED BY <1>3, <1>4, <1>5, <1>7, <1>8, <1>9, <1>10 DEF p, T

\* The sweep of the members goes past one of them, whether it stays or not.
LEMMA MembersAheadStep ==
  ASSUME Seen, SweepMember
  PROVE  /\ cursor \in MembersAhead /\ MembersAhead \subseteq members
         /\ MembersAhead' = MembersAhead \ {cursor}
<1> DEFINE n == Cardinality(members)
           q == MemberRow
           c == NextToSweep(cursor)
<1>1. /\ TypeOK /\ members \in SUBSET Member /\ NULL \notin members
      /\ cursor \in members /\ cursor' = c
  BY NullIsNoMember DEF Seen, ServedInv, RoomInv, SessionInv, SweepMember, SweepOnMember, TypeOK
<1>2. /\ q \in [1..n -> members] /\ Orders(q, members, mem_list)
      /\ Threads(q, members, mem_list.head, mem_list.next)
  BY DEF Seen, RowsFollow, Orders
<1>3. n \in Nat BY <1>1, NodesCount
<1>4. PICK k \in 1..n : q[k] = cursor BY <1>1, <1>2 DEF Threads
<1>5. c = mem_list.next[cursor] BY DEF NextToSweep
<1> HIDE DEF q, c
<1>7. /\ At(cursor, q, n, k) /\ cursor \in SetOf(From(q, n, k))
      /\ SetOf(From(q, n, k)) \subseteq members
      /\ SetOf(From(q, n, k + 1)) = SetOf(From(q, n, k)) \ {cursor}
      /\ SetOf(From(Skipped(q, n, k), n - 1, k)) = SetOf(From(q, n, k)) \ {cursor}
      /\ At(c, q, n, k + 1) /\ At(c, Skipped(q, n, k), n - 1, k)
  BY <1>1, <1>2, <1>3, <1>4, <1>5, LeaveBehind
<1> HIDE DEF n
<1>8. MembersAhead = SetOf(From(q, n, k))
  BY <1>1, <1>2, <1>7, MemberRowFrom DEF MembersAhead, n
<1>9. CASE ~IsQuiet(cursor)
  <2>1. mem_list' = mem_list BY <1>9 DEF SweepMember
  <2>2. Chain(mem_list.next, c) = From(q, n, k + 1) BY <1>1, <1>2, <1>7, MemberRowFrom DEF n
  <2>3. MembersAhead' = SetOf(From(q, n, k + 1)) BY <1>1, <2>1, <2>2 DEF MembersAhead, SetOf
  <2> QED BY <1>7, <1>8, <2>3
<1>10. CASE IsQuiet(cursor)
  <2> DEFINE T == members \ {cursor}
             p == Skipped(q, n, k)
             next == mem_list'.next
  <2>1. RemoveMember(cursor) BY <1>10 DEF SweepMember
  <2>2. /\ T \in SUBSET Member /\ Cardinality(T) = n - 1
        /\ p \in [1..Cardinality(T) -> T] /\ Orders(p, T, mem_list')
        /\ DOMAIN next = Member
    BY <1>4, <2>1, RemovalRow DEF q, n
  <2>3. Threads(p, T, mem_list'.head, next) BY <2>2 DEF Orders
  <2>4. At(c, p, Cardinality(T), k) BY <1>7, <2>2
  <2> HIDE DEF T, p, next
  <2>5. Chain(next, c) = From(p, Cardinality(T), k)
    BY <2>2, <2>3, <2>4, MemberFinite, NullIsNoMember, ChainFrom
  <2>6. MembersAhead' = SetOf(From(p, n - 1, k)) BY <1>1, <2>2, <2>5 DEF MembersAhead, SetOf, next
  <2> QED BY <1>7, <1>8, <2>6 DEF p
<1> QED BY <1>7, <1>8, <1>9, <1>10

\* What a sweep has still to look at, as the service sees it.
DueFollows ==
  /\ pc = "sweep_members" => dueMap = {IdOf(x) : x \in MembersAhead}
  /\ pc = "sweep_rooms" => dueMap = {NameOf(x) : x \in RoomsAhead}
  /\ pc \notin {"sweep_members", "sweep_rooms"} => dueMap = {}

LEMMA DueInv == DueFollows
<1>1. \A c : SetOf(IdsOf(c)) = {IdOf(x) : x \in SetOf(c)} BY DEF SetOf, IdsOf, IdOf
<1>2. \A c : SetOf(NamesOf(c)) = {NameOf(x) : x \in SetOf(c)} BY DEF SetOf, NamesOf, NameOf
<1>3. pc = "sweep_members" => dueMap = {IdOf(x) : x \in MembersAhead}
  BY <1>1 DEF dueMap, MembersAhead
<1>4. pc = "sweep_rooms" => dueMap = {NameOf(x) : x \in RoomsAhead}
  BY <1>2 DEF dueMap, RoomsAhead
<1>5. pc \notin {"sweep_members", "sweep_rooms"} => dueMap = {} BY DEF dueMap
<1> QED BY <1>3, <1>4, <1>5 DEF DueFollows

LEMMA DueInvNext == DueFollows'
BY DueInv, PTL

\* Where a sweep begins, all are ahead; where it ends, none is.
LEMMA AllMembersAhead ==
  ASSUME Seen, UNCHANGED sessionVars, cursor' = mem_list.head
  PROVE  MembersAhead' = members
<1>1. SetOf(MemberRow) = members BY DEF SetOf, Seen, RowsFollow, Orders, Threads
<1> QED BY <1>1 DEF MembersAhead, sessionVars, MemberRow, SetOf

LEMMA AllRoomsAhead ==
  ASSUME Seen, UNCHANGED roomVars, cursor' = room_list.head
  PROVE  RoomsAhead' = rooms
<1>1. SetOf(RoomRow) = rooms BY DEF SetOf, Seen, RowsFollow, LinkedAs, Threads
<1> QED BY <1>1 DEF RoomsAhead, roomVars, RoomRow, SetOf

LEMMA NoneAhead ==
  ASSUME Seen, cursor = NULL
  PROVE  MembersAhead = {} /\ RoomsAhead = {}
<1>1. DOMAIN mem_list.next = Member /\ DOMAIN room_list.next = Room
  BY DEF Seen, ServedInv, RoomInv, SessionInv, TypeOK, DListType, RoomListType
<1>2. Chain(mem_list.next, NULL) = <<>> BY <1>1, MemberFinite, NullIsNoMember, ChainOfNull
<1>3. Chain(room_list.next, NULL) = <<>> BY <1>1, ServerAssumption, ChainOfNull
<1> QED BY <1>2, <1>3 DEF MembersAhead, RoomsAhead, SetOf

\* select has timed out: every member is to be looked at.
LEMMA SweepStartStep ==
  ASSUME Seen, SweepStart
  PROVE  Service!Next
<1>1. /\ UNCHANGED <<sessionVars, roomVars, roster>> /\ pc = "select" /\ pc' = "sweep_members"
      /\ NoAnswer /\ cursor' = mem_list.head
  BY DEF SweepStart
<1>2. UNCHANGED <<sessionMap, orderMap, rollMap, vacantMap>> BY <1>1, TablesStay
<1>3. phaseMap = "open" /\ phaseMap' = "expiring" /\ UNCHANGED pendingMap
  BY <1>1 DEF phaseMap, pendingMap
<1>4. dueMap' = MemberIds
  <2>2. MembersAhead' = members BY <1>1, AllMembersAhead
  <2>3. \A x : IdOf(x)' = IdOf(x) BY <1>1 DEF IdOf, sessionVars
  <2> QED BY <1>1, <2>2, <2>3, DueInvNext DEF DueFollows, MemberIds
<1>5. MemberIds = Service!Ids BY KeysOfTables DEF Service!Ids
<1>6. Service!BeginSweep
  BY <1>1, <1>2, <1>3, <1>4, <1>5
  DEF Service!BeginSweep, Service!Silence, Service!Reply, Service!tables, NoAnswer, NoReply
<1> QED BY <1>6 DEF Service!Next

\* The members are done: every room is to be looked at.
LEMMA SweepMembersDoneStep ==
  ASSUME Seen, SweepMembersDone
  PROVE  Service!Next
<1>1. /\ UNCHANGED <<sessionVars, roomVars, roster, replyVars>>
      /\ pc = "sweep_members" /\ pc' = "sweep_rooms"
      /\ cursor = NULL /\ cursor' = room_list.head
  BY DEF SweepMembersDone
<1>2. UNCHANGED <<sessionMap, orderMap, rollMap, vacantMap>> BY <1>1, TablesStay
<1>3. phaseMap = "expiring" /\ phaseMap' = "pruning" /\ UNCHANGED pendingMap
  BY <1>1 DEF phaseMap, pendingMap
<1>4. dueMap = {}
  <2>3. MembersAhead = {} BY <1>1, NoneAhead
  <2> QED BY <1>1, <2>3, DueInv DEF DueFollows
<1>5. dueMap' = RoomNames
  <2>2. RoomsAhead' = rooms BY <1>1, AllRoomsAhead
  <2>3. \A x : NameOf(x)' = NameOf(x) BY <1>1 DEF NameOf, roomVars
  <2> QED BY <1>1, <2>2, <2>3, DueInvNext DEF DueFollows, RoomNames
<1>6. RoomNames = Service!Rooms BY KeysOfTables DEF Service!Rooms
<1>7. Service!BeginPruning
  BY <1>1, <1>2, <1>3, <1>4, <1>5, <1>6 DEF Service!BeginPruning, Service!tables, replyVars
<1> QED BY <1>7 DEF Service!Next, Service!OwnStep

\* And the rooms are.
LEMMA SweepDoneStep ==
  ASSUME Seen, SweepDone
  PROVE  Service!Next
<1>1. /\ UNCHANGED <<sessionVars, roomVars, roster, replyVars>>
      /\ pc = "sweep_rooms" /\ pc' = "select" /\ cursor = NULL
  BY DEF SweepDone
<1>2. UNCHANGED <<sessionMap, orderMap, rollMap, vacantMap>> BY <1>1, TablesStay
<1>3. phaseMap = "pruning" /\ phaseMap' = "open" /\ UNCHANGED pendingMap
  BY <1>1 DEF phaseMap, pendingMap
<1>4. dueMap = {}
  <2>3. RoomsAhead = {} BY <1>1, NoneAhead
  <2> QED BY <1>1, <2>3, DueInv DEF DueFollows
<1>5. dueMap' = {} BY <1>1, DueInvNext DEF DueFollows
<1>6. Service!EndSweep
  BY <1>1, <1>2, <1>3, <1>4, <1>5 DEF Service!EndSweep, Service!tables, replyVars
<1> QED BY <1>6 DEF Service!Next, Service!OwnStep

-----------------------------------------------------------------------------
(* A session ends. *)

\* An enumeration of a room after the step is what the loop visits then.
LEMMA RollIsNext ==
  ASSUME TypeOK', NEW r, NEW S \in SUBSET Member, NEW q \in [1..Cardinality(S) -> S],
         Orders(q, S, RoomList(roster', r))
  PROVE  Roll(r)' = q
<1> DEFINE next == roster'.next
           head == roster'.head[r]
<1>1. Threads(q, S, head, next) BY DEF Orders, RoomList
<1>2. DOMAIN next = Member BY DEF TypeOK, RosterType
<1> HIDE DEF next, head
<1>3. Chain(next, head) = q BY <1>1, <1>2, MemberFinite, NullIsNoMember, ChainOfThreads
<1> QED BY <1>3 DEF Roll, next, head

\* To strike an element from a row is to drop it.
LEMMA StrikeIs ==
  ASSUME NEW S, NEW n \in Nat, NEW q \in [1..n -> S], NEW x
  PROVE  Service!Strike(x, q) = Dropped(q, n, x)
<1>1. DOMAIN q = 1..n /\ Len(q) = n BY RowIsSeq
<1> QED BY <1>1 DEF Service!Strike, Dropped, Skipped

\* Two rows with x and y in the same places lose them in the same place.
LEMMA DroppedAlike ==
  ASSUME NEW n, NEW p, NEW q, NEW x, NEW y, \A k \in 1..n : p[k] = x <=> q[k] = y
  PROVE  (CHOOSE k \in 1..n : p[k] = x) = (CHOOSE k \in 1..n : q[k] = y)
OBVIOUS

\* The roll of a room without a member, for the server and for the service.
LEMMA RollDropped ==
  ASSUME Seen, NEW r \in rooms, NEW m \in members
  PROVE  LET n == Cardinality(Occupants(r))
             p == Dropped(Roll(r), n, m)
         IN  /\ n \in Nat
             /\ Service!Strike(IdOf(m), rollMap[NameOf(r)]) = IdsOf(p)
             /\ \A i \in DOMAIN p : p[i] \in members \ {m}
<1> DEFINE S == Occupants(r)
           n == Cardinality(S)
           q == Roll(r)
           g == IdsOf(q)
           p == Dropped(q, n, m)
<1>1. S \in SUBSET Member /\ S \subseteq members
  BY DEF Seen, ServedInv, RoomInv, SessionInv, TypeOK, Occupants
<1>2. n \in Nat BY <1>1, NodesCount
<1>3. q \in [1..n -> S] /\ \A i, j \in 1..n : q[i] = q[j] => i = j
  BY DEF Seen, RowsFollow, Orders, Threads
<1>4. g \in [1..n -> MemberIds] /\ \A i \in 1..n : g[i] = IdOf(q[i])
  BY <1>1, <1>3 DEF IdsOf, IdOf, MemberIds
<1>5. \A k \in 1..n : q[k] = m <=> g[k] = IdOf(m) BY <1>1, <1>3, <1>4, KeysOfTables
<1>6. Service!Strike(IdOf(m), rollMap[NameOf(r)]) = Dropped(g, n, IdOf(m))
  <2>1. rollMap[NameOf(r)] = g BY KeysOfTables
  <2> HIDE DEF g, n
  <2> QED BY <1>2, <1>4, <2>1, StrikeIs
<1> HIDE DEF g, n, q, S
<1> DEFINE k == CHOOSE i \in 1..n : q[i] = m
<1>7. k = CHOOSE i \in 1..n : g[i] = IdOf(m) BY <1>5, DroppedAlike
<1>8. CASE \E i \in 1..n : q[i] = m
  <2>1. k \in 1..n /\ q[k] = m BY <1>8
  <2>2. p = Skipped(q, n, k) /\ Dropped(g, n, IdOf(m)) = Skipped(g, n, k)
    BY <1>5, <1>7, <1>8 DEF Dropped
  <2> HIDE DEF k, p
  <2>3. \A i \in 1..(n - 1) : i \in 1..n /\ i + 1 \in 1..n BY <1>2
  <2>4. IdsOf(Skipped(q, n, k)) = Skipped(g, n, k) BY <1>4, <2>3 DEF IdsOf, IdOf, Skipped
  <2>5. ASSUME NEW i \in 1..(n - 1) PROVE Skipped(q, n, k)[i] \in members \ {m}
    <3>1. \/ i \in 1..n /\ i # k /\ Skipped(q, n, k)[i] = q[i]
          \/ i + 1 \in 1..n /\ i + 1 # k /\ Skipped(q, n, k)[i] = q[i + 1]
      BY <1>2, <2>1, <2>3 DEF Skipped
    <3> QED BY <1>1, <1>3, <2>1, <3>1
  <2>6. DOMAIN Skipped(q, n, k) = 1..(n - 1) BY DEF Skipped
  <2> QED BY <1>2, <1>6, <2>2, <2>4, <2>5, <2>6 DEF p, n, q, S
<1>9. CASE ~\E i \in 1..n : q[i] = m
  <2>1. p = q /\ Dropped(g, n, IdOf(m)) = g BY <1>5, <1>9 DEF Dropped
  <2>2. g = IdsOf(q) BY DEF g
  <2>3. \A i \in DOMAIN q : q[i] \in members \ {m} BY <1>1, <1>3, <1>9
  <2> HIDE DEF p
  <2> QED BY <1>2, <1>6, <2>1, <2>2, <2>3 DEF p, n, q, S
<1> QED BY <1>8, <1>9

\* The rooms of the service, when the room list and the names stay.
LEMMA OrderSame ==
  ASSUME Seen, UNCHANGED <<rooms, room_list>>, \A r \in rooms : NameOf(r)' = NameOf(r)
  PROVE  orderMap' = orderMap /\ RoomNames' = RoomNames
<1>1. \A i \in DOMAIN RoomRow : RoomRow[i] \in rooms BY DEF Seen, RowsFollow
<1>2. \A i \in DOMAIN RoomRow : room'[RoomRow[i]].room_name = room[RoomRow[i]].room_name
  BY <1>1 DEF NameOf
<1>3. orderMap' = orderMap BY <1>2 DEF orderMap, NamesOf, RoomRow
<1>4. RoomNames' = RoomNames BY DEF RoomNames
<1> QED BY <1>3, <1>4

\* And the vacant ones, when the flags stay too.
LEMMA VacantSame ==
  ASSUME Seen, Seen', rooms' = rooms,
         \A r \in rooms : NameOf(r)' = NameOf(r) /\ room'[r].empty_flag = room[r].empty_flag
  PROVE  vacantMap' = vacantMap
<1>1. /\ vacantMap = {NameOf(r) : r \in {x \in rooms : room[x].empty_flag # 0}}
      /\ vacantMap' = {NameOf(r)' : r \in {x \in rooms' : room'[x].empty_flag # 0}}
  BY DEF Seen, TablesFollow
<1> QED BY <1>1

\* A row of members none of which is m is seen as before.
LEMMA IdsSame ==
  ASSUME NEW q, \A i \in DOMAIN q : IdOf(q[i])' = IdOf(q[i])
  PROVE  IdsOf(q)' = IdsOf(q)
BY DEF IdsOf, IdOf

\* remove_member, in the session table and in every room.
LEMMA RemovalStep ==
  ASSUME Seen, Seen', NEW m \in members, RemoveMember(m)
  PROVE  Service!Remove(IdOf(m))
<1> DEFINE id == IdOf(m)
<1>1. /\ TypeOK /\ TypeOK' /\ RostersSound /\ InLiveRoom /\ m \in Member /\ members \subseteq Member
      /\ rooms \subseteq Room
  BY DEF Seen, ServedInv, RoomInv, SessionInv, TypeOK
<1>2. /\ members' = members \ {m} /\ rooms' = rooms /\ room_list' = room_list
      /\ roster' = RosterAfterRemoval(m) /\ room' = CountsAfterLeaving(m)
      /\ member' = [member EXCEPT ![m] = BlankMember]
  BY DEF RemoveMember
<1>3. \A x \in members \ {m} : member'[x] = member[x] BY <1>1, <1>2 DEF TypeOK
<1>4. \A r \in rooms : room'[r].room_name = room[r].room_name /\ room'[r].empty_flag = room[r].empty_flag
  BY <1>1, <1>2 DEF CountsAfterLeaving, TypeOK, RoomType
<1>5. /\ \A x \in members \ {m} : IdOf(x)' = IdOf(x)
      /\ \A r \in rooms : NameOf(r)' = NameOf(r)
  BY <1>3, <1>4 DEF IdOf, NameOf
<1>6. orderMap' = orderMap /\ RoomNames' = RoomNames BY <1>2, <1>5, OrderSame
<1>7. vacantMap' = vacantMap BY <1>2, <1>4, <1>5, VacantSame
<1>8. sessionMap' = Service!Without(sessionMap, id)
  <2> DEFINE f == [y \in MemberIds \ {id} |-> sessionMap[y]]
  <2>1. MemberIds' = MemberIds \ {id}
    <3>1. MemberIds' = {IdOf(x) : x \in members \ {m}} BY <1>2, <1>5 DEF MemberIds
    <3> QED BY <3>1, KeysOfTables DEF MemberIds
  <2>2. TableOf(f, MemberIds') BY <2>1 DEF TableOf
  <2>3. \A x \in members \ {m} : SessionOf(x)' = SessionOf(x)
    <3> SUFFICES ASSUME NEW x \in members \ {m} PROVE SessionOf(x)' = SessionOf(x) OBVIOUS
    <3>1. member'[x] = member[x] BY <1>3
    <3>2. member[x].current_room \in rooms \cup {NULL} BY KeysOfTables
    <3> QED BY <1>4, <3>1, <3>2 DEF SessionOf
  <2>4. ASSUME NEW x \in members' PROVE f[IdOf(x)'] = SessionOf(x)'
    <3>1. x \in members \ {m} /\ IdOf(x)' = IdOf(x) BY <1>2, <1>5, <2>4
    <3>2. IdOf(x) \in MemberIds \ {id} /\ sessionMap[IdOf(x)] = SessionOf(x) BY <3>1, KeysOfTables
    <3> QED BY <2>3, <3>1, <3>2
  <2> HIDE DEF f
  <2>5. sessionMap' = f BY <2>2, <2>4, SessionMapIs DEF Seen
  <2> QED BY <2>5, KeysOfTables DEF f, Service!Without
<1>9. rollMap' = Service!RollWithout(id)
  <2> DEFINE f == [n \in RoomNames |-> Service!Strike(id, rollMap[n])]
  <2>1. TableOf(f, RoomNames') BY <1>6 DEF TableOf
  <2>2. ASSUME NEW r \in rooms' PROVE f[NameOf(r)'] = IdsOf(Roll(r))'
    <3> DEFINE n == Cardinality(Occupants(r))
               p == Dropped(Roll(r), n, m)
               T == Occupants(r) \ {m}
    <3>1. r \in rooms /\ NameOf(r)' = NameOf(r) /\ NameOf(r) \in RoomNames
      BY <1>2, <1>5, <2>2, KeysOfTables
    <3>2. /\ Service!Strike(id, rollMap[NameOf(r)]) = IdsOf(p)
          /\ \A i \in DOMAIN p : p[i] \in members \ {m}
      BY <3>1, RollDropped
    <3>3. Roll(r) \in [1..n -> Occupants(r)] /\ Orders(Roll(r), Occupants(r), RoomList(roster, r))
      BY <3>1 DEF Seen, RowsFollow
    <3>4. p \in [1..Cardinality(T) -> T] /\ Orders(p, T, RoomList(roster', r))
      BY <1>1, <1>2, <3>1, <3>3, RemovalOrders
    <3>5. T \in SUBSET Member BY <1>1 DEF Occupants
    <3> HIDE DEF p, T, n
    <3>6. Roll(r)' = p BY <1>1, <3>4, <3>5, RollIsNext
    <3>7. IdsOf(Roll(r))' = IdsOf(p)
      <4>1. \A i \in DOMAIN p : member'[p[i]].member_id = member[p[i]].member_id BY <1>3, <3>2
      <4> QED BY <3>6, <4>1 DEF IdsOf
    <3> QED BY <3>1, <3>2, <3>7
  <2> HIDE DEF f
  <2>3. rollMap' = f BY <2>1, <2>2, RollMapIs DEF Seen
  <2> QED BY <2>3, KeysOfTables DEF f, Service!RollWithout, Service!Rooms
<1> QED BY <1>6, <1>7, <1>8, <1>9 DEF Service!Remove

\* QUIT_REQUEST.
LEMMA QuitStep ==
  ASSUME Seen, Seen', NEW m \in Member, Quit(m)
  PROVE  Service!Next
<1>1. m \in members /\ RemoveMember(m) /\ NoAnswer /\ pc = "select" /\ UNCHANGED loopVars
  BY DEF Quit, Request, Serving
<1>2. Service!Remove(IdOf(m)) BY <1>1, RemovalStep
<1>3. phaseMap = "open" /\ UNCHANGED <<phaseMap, pendingMap>>
  BY <1>1 DEF loopVars, phaseMap, pendingMap
<1>4. UNCHANGED dueMap BY <1>1 DEF loopVars, dueMap
<1>5. IdOf(m) \in Service!Ids /\ IdOf(m) \in MemberId BY <1>1, KeysOfTables DEF Service!Ids
<1>6. Service!Leave(IdOf(m))
  BY <1>1, <1>2, <1>3, <1>4, <1>5
  DEF Service!Leave, Service!Idle, Service!Silence, Service!Reply, NoAnswer, NoReply
<1> QED BY <1>5, <1>6 DEF Service!Next, Service!MemberStep

\* A session with another value for its silence.
LEMMA SilencedSession ==
  ASSUME NEW a, NEW b, NEW c, NEW d, NEW s, NEW t,
         s = [name |-> a, room |-> b, silent |-> c], t = [name |-> a, room |-> b, silent |-> d]
  PROVE  t = [s EXCEPT !.silent = d]
OBVIOUS

\* The sweep looks at a member: silent for a whole interval, and out.
LEMMA SweepMemberStep ==
  ASSUME Seen, Seen', SweepMember
  PROVE  Service!Next
<1>0. PICK m : m = cursor OBVIOUS
<1> DEFINE id == IdOf(m)
<1>1. /\ pc = "sweep_members" /\ pc' = "sweep_members" /\ UNCHANGED replyVars
      /\ IF IsQuiet(m) THEN RemoveMember(m)
         ELSE /\ member' = [member EXCEPT ![m].quiet_flag = 1]
              /\ UNCHANGED <<members, mem_list, total_num_of_members, roomVars, roster>>
  BY <1>0 DEF SweepMember
<1>2. m \in MembersAhead /\ MembersAhead \subseteq members /\ MembersAhead' = MembersAhead \ {m}
  BY <1>0, MembersAheadStep
<1>3. m \in members /\ m \in Member /\ id \in MemberId BY <1>2, KeysOfTables
<1>4. TypeOK BY DEF Seen, ServedInv, RoomInv, SessionInv
<1>5. phaseMap = "expiring" /\ UNCHANGED <<phaseMap, pendingMap>> BY <1>1 DEF phaseMap, pendingMap
<1>6. \A x \in MembersAhead \ {m} : IdOf(x)' = IdOf(x)
  <2>1. CASE IsQuiet(m)
    <3>1. member' = [member EXCEPT ![m] = BlankMember] BY <1>1, <2>1 DEF RemoveMember
    <3> QED BY <1>2, <1>3, <1>4, <3>1 DEF TypeOK, IdOf
  <2>2. CASE ~IsQuiet(m) BY <1>1, <1>2, <1>3, <1>4, <2>2 DEF TypeOK, IdOf
  <2> QED BY <2>1, <2>2
<1>7. id \in dueMap /\ dueMap' = dueMap \ {id}
  <2>1. dueMap = {IdOf(x) : x \in MembersAhead} BY <1>1, DueInv DEF DueFollows
  <2>2. dueMap' = {IdOf(x)' : x \in MembersAhead'} BY <1>1, DueInvNext DEF DueFollows
  <2>3. dueMap' = {IdOf(x) : x \in MembersAhead \ {m}} BY <1>2, <1>6, <2>2
  <2>4. \A x \in MembersAhead : IdOf(x) = id => x = m BY <1>2, <1>3, KeysOfTables
  <2> QED BY <1>2, <2>1, <2>3, <2>4
<1>8. sessionMap[id].silent <=> IsQuiet(m)
  <2>1. sessionMap[id] = SessionOf(m) BY <1>3, KeysOfTables
  <2>2. SessionOf(m).silent = IsQuiet(m) BY DEF SessionOf, IsQuiet
  <2> QED BY <2>1, <2>2, Zenon
<1>9. CASE IsQuiet(m)
  <2>1. Service!Remove(id) BY <1>1, <1>3, <1>9, RemovalStep
  <2>2. Service!Visit(id) BY <1>1, <1>5, <1>7, <1>8, <1>9, <2>1 DEF Service!Visit, replyVars
  <2> QED BY <1>3, <2>2 DEF Service!Next, Service!OwnStep
<1>10. CASE ~IsQuiet(m)
  <2>1. /\ member' = [member EXCEPT ![m].quiet_flag = 1]
        /\ UNCHANGED <<members, roomVars, roster>>
    BY <1>1, <1>10
  <2>2. \A x \in members : IdOf(x)' = IdOf(x)
    BY <1>3, <1>4, <2>1 DEF IdOf, TypeOK, MemberType
  <2>3. UNCHANGED <<orderMap, rollMap, vacantMap>> BY <2>1, <2>2, RoomsSame DEF roomVars
  <2>4. /\ SessionOf(m)' = [SessionOf(m) EXCEPT !.silent = TRUE]
        /\ \A x \in members : x # m => SessionOf(x)' = SessionOf(x)
    <3>1. \A x \in members : x # m => member'[x] = member[x]
      BY <1>3, <1>4, <2>1 DEF TypeOK
    <3>2. /\ member'[m].member_name = member[m].member_name
          /\ member'[m].current_room = member[m].current_room
          /\ member'[m].quiet_flag # 0
      BY <1>3, <1>4, <2>1 DEF TypeOK, MemberType
    <3>3. \A x \in members : x # m => SessionOf(x)' = SessionOf(x)
      BY <2>1, <3>1 DEF SessionOf, roomVars
    <3>4. (member'[m].quiet_flag # 0) = TRUE BY <3>2
    <3>5. SessionOf(m)' = [SessionOf(m) EXCEPT !.silent = TRUE]
      <4> DEFINE a == member[m].member_name
                 b == IF member[m].current_room = NULL THEN NULL
                      ELSE room[member[m].current_room].room_name
                 c == member[m].quiet_flag # 0
                 d == TRUE
                 s == SessionOf(m)
                 t == SessionOf(m)'
      <4>1. s = [name |-> a, room |-> b, silent |-> c] BY Zenon DEF SessionOf
      <4>2. room' = room BY <2>1 DEF roomVars
      <4>3. t = [name |-> a, room |-> b, silent |-> d]
        BY <3>2, <3>4, <4>2, Zenon DEF SessionOf
      <4> HIDE DEF a, b, c, d, s, t
      <4>4. t = [s EXCEPT !.silent = d] BY <4>1, <4>3, SilencedSession
      <4> QED BY <4>4 DEF d, s, t
    <3> QED BY <3>3, <3>5
  <2> DEFINE f == [sessionMap EXCEPT ![id].silent = TRUE]
  <2>5. f = [sessionMap EXCEPT ![id] = [SessionOf(m) EXCEPT !.silent = TRUE]]
    BY <1>3 DEF Seen, TablesFollow
  <2>6. TableOf(f, MemberIds')
    <3>1. MemberIds' = MemberIds BY <2>1, <2>2 DEF MemberIds
    <3>2. TableOf(sessionMap, MemberIds) BY DEF Seen, TablesFollow
    <3> HIDE DEF f
    <3> QED BY <2>5, <3>1, <3>2, TableExcept
  <2>7. ASSUME NEW x \in members' PROVE f[IdOf(x)'] = SessionOf(x)'
    <3> HIDE DEF f
    <3>1. /\ x \in members /\ IdOf(x)' = IdOf(x) /\ IdOf(x) \in DOMAIN sessionMap
          /\ sessionMap[IdOf(x)] = SessionOf(x) /\ (IdOf(x) = id => x = m)
      BY <1>3, <2>1, <2>2, KeysOfTables
    <3> DEFINE v == [SessionOf(m) EXCEPT !.silent = TRUE]
    <3>2. f = [sessionMap EXCEPT ![id] = v] /\ SessionOf(m)' = v BY <2>4, <2>5
    <3> HIDE DEF v
    <3>3. CASE x = m BY <3>1, <3>2, <3>3
    <3>4. CASE x # m BY <2>4, <3>1, <3>2, <3>4
    <3> QED BY <3>3, <3>4
  <2> HIDE DEF f
  <2>8. sessionMap' = f BY <2>6, <2>7, SessionMapIs DEF Seen
  <2>9. Service!Visit(id)
    BY <1>1, <1>5, <1>7, <1>8, <1>10, <2>3, <2>8 DEF Service!Visit, replyVars, f
  <2> QED BY <1>3, <2>9 DEF Service!Next, Service!OwnStep
<1> QED BY <1>9, <1>10

-----------------------------------------------------------------------------
(* A session begins. *)

\* REGISTER_REQUEST: the counter and the searches of the list let in whom the
\* service may let in.
LEMMA RegisterStep ==
  ASSUME Seen, Seen', NEW m \in Member, NEW name \in MemberName, NEW id \in MemberId,
         Register(m, name, id)
  PROVE  Service!Next
<1>1. /\ m \notin members /\ members' = members \cup {m}
      /\ member' = [member EXCEPT ![m] = [member_id |-> id, member_name |-> name,
                                          quiet_flag |-> 0, current_room |-> NULL]]
      /\ UNCHANGED <<roomVars, roster, loopVars>> /\ pc = "select"
      /\ RegisterAllowed(name) /\ FreshId(m, id) /\ Answer(2, id)
  BY DEF Register, Serving, SUCC, REGISTER_REQUEST
<1>2. member \in [Member -> MemberType] /\ members \subseteq Member
  BY DEF Seen, ServedInv, RoomInv, SessionInv, TypeOK
<1>3. \A x \in members : member'[x] = member[x] BY <1>1, <1>2
<1>4. /\ member'[m].member_id = id /\ member'[m].member_name = name
      /\ member'[m].quiet_flag = 0 /\ member'[m].current_room = NULL
  BY <1>1, <1>2
<1>5. IdOf(m)' = id /\ \A x \in members : IdOf(x)' = IdOf(x) BY <1>3, <1>4 DEF IdOf
<1>6. UNCHANGED <<rooms, room, room_list, roster>> BY <1>1 DEF roomVars
<1>7. UNCHANGED <<orderMap, rollMap, vacantMap>> BY <1>5, <1>6, RoomsSame
<1>8. id \notin Service!Ids
  <2>1. SessionInv BY DEF Seen, ServedInv, RoomInv
  <2> QED BY <1>1, <2>1, SearchFinds, SessionsCount
<1>9. /\ Service!Cardinality(Service!Ids) < MAX_NUM_OF_MEMBERS
      /\ \A other \in Service!Ids : sessionMap[other].name # name
  <2>1. /\ Service!Cardinality(Service!Ids) = total_num_of_members
        /\ total_num_of_members \in Nat /\ total_num_of_members <= MAX_NUM_OF_MEMBERS
        /\ UsedMemberName(name) <=> \E other \in Service!Ids : sessionMap[other].name = name
    BY SessionsCount
  <2>2. MAX_NUM_OF_MEMBERS \in Nat BY MemberFinite, FS_CardinalityType, ServerAssumption
  <2>3. total_num_of_members # MAX_NUM_OF_MEMBERS /\ ~UsedMemberName(name)
    BY <1>1 DEF RegisterAllowed
  <2> QED BY <2>1, <2>2, <2>3
<1> DEFINE new == [name |-> name, room |-> NULL, silent |-> FALSE]
           f == [i \in Service!Ids \cup {id} |-> IF i = id THEN new ELSE sessionMap[i]]
<1>10. sessionMap' = f
  <2>1. Service!Ids = MemberIds BY KeysOfTables DEF Service!Ids
  <2>2. MemberIds' = MemberIds \cup {id} BY <1>1, <1>5 DEF MemberIds
  <2>3. TableOf(f, MemberIds') BY <2>1, <2>2 DEF TableOf
  <2>4. SessionOf(m)' = new BY <1>4 DEF SessionOf
  <2>5. \A x \in members : SessionOf(x)' = SessionOf(x) BY <1>3, <1>6 DEF SessionOf
  <2>6. ASSUME NEW x \in members' PROVE f[IdOf(x)'] = SessionOf(x)'
    <3> HIDE DEF new
    <3>1. CASE x = m BY <1>5, <2>4, <3>1
    <3>2. CASE x # m
      <4>1. x \in members BY <1>1, <2>6, <3>2
      <4>2. IdOf(x) \in Service!Ids /\ sessionMap[IdOf(x)] = SessionOf(x)
        BY <2>1, <4>1, KeysOfTables
      <4> QED BY <1>5, <1>8, <2>5, <4>1, <4>2
    <3> QED BY <3>1, <3>2
  <2> HIDE DEF f
  <2> QED BY <2>3, <2>6, SessionMapIs DEF Seen
<1>11. phaseMap = "open" /\ UNCHANGED <<phaseMap, dueMap, pendingMap>>
  <2>1. pc' = pc BY <1>1 DEF loopVars
  <2> QED BY <1>1, <2>1 DEF phaseMap, dueMap, pendingMap
<1>12. Service!Admit(id, name)
  BY <1>1, <1>7, <1>8, <1>9, <1>10, <1>11
  DEF Service!Admit, Service!Idle, Service!Reply, Answer
<1> QED BY <1>12 DEF Service!Next

-----------------------------------------------------------------------------
(* A room is opened. *)

\* The same of the room list after the step.
LEMMA RoomRowIsNext ==
  ASSUME TypeOK', NEW S \in SUBSET Room, NEW q \in [1..Cardinality(S) -> S],
         LinkedAs(q, S, room_list')
  PROVE  RoomRow' = q
<1> DEFINE next == room_list'.next
           head == room_list'.head
<1>1. Threads(q, S, head, next) BY DEF LinkedAs
<1>2. DOMAIN next = Room BY DEF TypeOK, RoomListType
<1> HIDE DEF next, head
<1>3. Chain(next, head) = q BY <1>1, <1>2, ServerAssumption, ChainOfThreads
<1> QED BY <1>3 DEF RoomRow, next, head

\* To append to a row is to extend it.
LEMMA AppendIs ==
  ASSUME NEW S, NEW n \in Nat, NEW q \in [1..n -> S], NEW x
  PROVE  Append(q, x) = Extended(q, n, x)
<1> DEFINE T == S \cup {x}
           p == Extended(q, n, x)
<1>1. q \in [1..n -> T] OBVIOUS
<1>2. q \in Seq(T) /\ Len(q) = n BY <1>1, RowIsSeq
<1>3. /\ Append(q, x) \in Seq(T) /\ Len(Append(q, x)) = n + 1
      /\ \A i \in 1..n : Append(q, x)[i] = q[i]
      /\ Append(q, x)[n + 1] = x
  BY <1>2, AppendProperties
<1>4. p \in [1..(n + 1) -> T] BY DEF Extended
<1>5. /\ \A i \in 1..n : p[i] = q[i]
      /\ p[n + 1] = x
  BY DEF Extended
<1> HIDE DEF p, T
<1>6. p \in Seq(T) /\ Len(p) = n + 1 BY <1>4, RowIsSeq
<1>7. \A i \in 1..(n + 1) : i \in 1..n \/ i = n + 1 OBVIOUS
<1>8. \A i \in 1..Len(p) : Append(q, x)[i] = p[i] BY <1>3, <1>5, <1>6, <1>7
<1> QED BY <1>3, <1>6, <1>8, SeqEqual DEF p

\* create_room, for the tables of the service.
LEMMA AddRoomStep ==
  ASSUME Seen, Seen', NEW name \in RoomName \cup LongName, AddRoom(name), members' = members,
         \A x \in members : IdOf(x)' = IdOf(x)
  PROVE  /\ Service!Open(name)
         /\ \A r \in rooms : room'[r].room_name = room[r].room_name
<1>1. PICK r \in Room \ rooms :
        /\ rooms' = rooms \cup {r}
        /\ room' = [room EXCEPT ![r] = [BlankRoom EXCEPT !.room_name = name]]
        /\ room_list' = LinkRoom(r) /\ roster' = RosterCleared(r)
  BY DEF AddRoom
<1>2. TypeOK /\ TypeOK' /\ rooms \in SUBSET Room
  BY DEF Seen, ServedInv, RoomInv, SessionInv, TypeOK
<1>3. /\ room'[r].room_name = name /\ room'[r].empty_flag = 0
      /\ \A s \in rooms : room'[s] = room[s]
  BY <1>1, <1>2 DEF TypeOK, BlankRoom
<1>4. NameOf(r)' = name /\ \A s \in rooms : NameOf(s)' = NameOf(s) BY <1>3 DEF NameOf
<1>5. RoomNames' = RoomNames \cup {name} BY <1>1, <1>4 DEF RoomNames
<1>6. Service!MayOpen(name) BY MayOpenIs DEF AddRoom
<1>7. name \notin RoomNames BY <1>6, KeysOfTables DEF Service!MayOpen, Service!Rooms
<1>8. orderMap' = Append(orderMap, name)
  <2> DEFINE n == Cardinality(rooms)
             q == Extended(RoomRow, n, r)
             T == rooms \cup {r}
  <2>1. n \in Nat BY <1>2, RoomsCount
  <2>2. RoomRow \in [1..n -> rooms] /\ LinkedAs(RoomRow, rooms, room_list)
    BY DEF Seen, RowsFollow
  <2>3. q \in [1..Cardinality(T) -> T] /\ LinkedAs(q, T, room_list')
    BY <1>1, <1>2, <2>2, LinkRoomLinks DEF AddRoom
  <2>4. T \in SUBSET Room BY <1>2
  <2> HIDE DEF T, q, n
  <2>5. RoomRow' = q BY <1>2, <2>3, <2>4, RoomRowIsNext
  <2>6. orderMap = [i \in 1..n |-> NameOf(RoomRow[i])]
    BY <2>2 DEF orderMap, NamesOf, NameOf, RoomRow
  <2>7. orderMap \in [1..n -> RoomNames] BY <2>2, <2>6 DEF RoomNames
  <2>8. Append(orderMap, name) = Extended(orderMap, n, name) BY <2>1, <2>7, AppendIs
  <2>9. orderMap' = [i \in DOMAIN q |-> room'[q[i]].room_name]
    BY <2>5 DEF orderMap, NamesOf, RoomRow
  <2>10. \A i \in 1..n : room'[RoomRow[i]].room_name = orderMap[i]
    BY <1>3, <2>2, <2>6 DEF NameOf
  <2> QED BY <1>3, <2>1, <2>8, <2>9, <2>10 DEF q, Extended
<1>9. roster'.next = roster.next /\ roster'.head[r] = NULL
      /\ \A s \in rooms : roster'.head[s] = roster.head[s]
  BY <1>1, <1>2 DEF RosterCleared, SetRoomList, TypeOK, RosterType
<1> DEFINE f == [n \in Service!Rooms \cup {name} |-> IF n = name THEN <<>> ELSE rollMap[n]]
<1>10. rollMap' = f
  <2>1. TableOf(f, RoomNames') BY <1>5, KeysOfTables DEF TableOf, Service!Rooms
  <2>2. IdsOf(Roll(r))' = <<>>
    <3>1. DOMAIN roster'.next = Member BY <1>2 DEF TypeOK, RosterType
    <3>2. Chain(roster'.next, NULL) = <<>> BY <3>1, MemberFinite, NullIsNoMember, ChainOfNull
    <3>3. Roll(r)' = <<>> BY <1>9, <3>2 DEF Roll
    <3> QED BY <3>3 DEF IdsOf
  <2>3. ASSUME NEW s \in rooms PROVE IdsOf(Roll(s))' = IdsOf(Roll(s))
    <3>1. Roll(s)' = Roll(s) BY <1>9 DEF Roll
    <3>2. \A i \in DOMAIN Roll(s) : Roll(s)[i] \in members
      BY DEF Seen, RowsFollow, Occupants
    <3>3. \A i \in DOMAIN Roll(s) : member'[Roll(s)[i]].member_id = member[Roll(s)[i]].member_id
      BY <3>2 DEF IdOf
    <3> QED BY <3>1, <3>3 DEF IdsOf
  <2>4. ASSUME NEW s \in rooms' PROVE f[NameOf(s)'] = IdsOf(Roll(s))'
    <3>1. CASE s = r BY <1>4, <2>2, <3>1
    <3>2. CASE s # r
      <4>1. s \in rooms BY <1>1, <2>4, <3>2
      <4>2. NameOf(s) \in RoomNames /\ rollMap[NameOf(s)] = IdsOf(Roll(s)) BY <4>1, KeysOfTables
      <4>3. NameOf(s) \in Service!Rooms BY <4>2, KeysOfTables DEF Service!Rooms
      <4> QED BY <1>4, <1>7, <2>3, <4>1, <4>2, <4>3
    <3> QED BY <3>1, <3>2
  <2> HIDE DEF f
  <2> QED BY <2>1, <2>4, RollMapIs DEF Seen
<1>11. vacantMap' = vacantMap
  <2>1. /\ vacantMap = {NameOf(s) : s \in {x \in rooms : room[x].empty_flag # 0}}
        /\ vacantMap' = {NameOf(s)' : s \in {x \in rooms' : room'[x].empty_flag # 0}}
    BY DEF Seen, TablesFollow
  <2>2. {x \in rooms' : room'[x].empty_flag # 0} = {x \in rooms : room[x].empty_flag # 0}
    BY <1>1, <1>3
  <2> QED BY <1>4, <2>1, <2>2
<1> QED BY <1>3, <1>6, <1>8, <1>10, <1>11 DEF Service!Open

\* A room of the room file.
LEMMA InitRoomStep ==
  ASSUME Seen, Seen', NEW name \in RoomName, InitRoom(name)
  PROVE  Service!Next
<1>1. /\ pc = "init" /\ AddRoom(name) /\ NoAnswer /\ UNCHANGED loopVars
      /\ members' = members /\ member' = member
  BY DEF InitRoom, sessionVars
<1>2. \A x \in members : IdOf(x)' = IdOf(x) BY <1>1 DEF IdOf
<1>3. Service!Open(name) /\ \A r \in rooms : room'[r].room_name = room[r].room_name
  BY <1>1, <1>2, AddRoomStep
<1>4. sessionMap' = sessionMap
  <2>1. \A x \in members : member[x].current_room \in rooms \cup {NULL} BY KeysOfTables
  <2>2. \A x \in members : SessionOf(x)' = SessionOf(x) BY <1>1, <1>3, <2>1 DEF SessionOf
  <2> QED BY <1>1, <1>2, <2>2, SessionsSame
<1>5. phaseMap = "starting" /\ UNCHANGED <<phaseMap, dueMap, pendingMap>>
  <2>1. pc' = pc BY <1>1 DEF loopVars
  <2> QED BY <1>1, <2>1 DEF phaseMap, dueMap, pendingMap
<1>6. Service!OpenFirst(name)
  BY <1>1, <1>3, <1>4, <1>5
  DEF Service!OpenFirst, Service!Silence, Service!Reply, NoAnswer, NoReply
<1> QED BY <1>6 DEF Service!Next

\* CREATE_ROOM_REQUEST.
LEMMA CreateRoomStep ==
  ASSUME Seen, Seen', NEW m \in Member, NEW name \in RoomName \cup LongName, CreateRoom(m, name)
  PROVE  Service!Next
<1>1. /\ m \in members /\ member' = Heard(m) /\ AddRoom(name) /\ members' = members
      /\ pc = "select" /\ UNCHANGED loopVars /\ Answer(14, IdOf(m))
  BY DEF CreateRoom, Request, Serving, SUCC, CREATE_ROOM_REQUEST, IdOf
<1>2. \A x \in members : IdOf(x)' = IdOf(x)
  BY <1>1 DEF IdOf, Heard, MemberType, Seen, ServedInv, RoomInv, SessionInv, TypeOK
<1>3. Service!Open(name) /\ \A r \in rooms : room'[r].room_name = room[r].room_name
  BY <1>1, <1>2, AddRoomStep
<1>4. sessionMap' = Service!Spoken(IdOf(m)) BY <1>1, <1>3, HearSessions
<1>5. phaseMap = "open" /\ UNCHANGED <<phaseMap, dueMap, pendingMap>>
  <2>1. pc' = pc BY <1>1 DEF loopVars
  <2> QED BY <1>1, <2>1 DEF phaseMap, dueMap, pendingMap
<1>6. IdOf(m) \in Service!Ids /\ IdOf(m) \in MemberId BY <1>1, KeysOfTables DEF Service!Ids
<1>7. Service!OpenForMember(IdOf(m), name)
  BY <1>1, <1>3, <1>4, <1>5, <1>6
  DEF Service!OpenForMember, Service!Idle, Service!Reply, Answer
<1> QED BY <1>6, <1>7 DEF Service!Next, Service!MemberStep

-----------------------------------------------------------------------------
(* A member changes rooms. *)

\* The roll of the room a member enters, whose list it is not on.
LEMMA RollExtended ==
  ASSUME Seen, NEW r \in rooms, NEW m \in members, member[m].current_room # r
  PROVE  LET n == Cardinality(Occupants(r))
             p == Extended(Roll(r), n, m)
         IN  /\ n \in Nat
             /\ Append(Service!Strike(IdOf(m), rollMap[NameOf(r)]), IdOf(m)) = IdsOf(p)
             /\ \A i \in DOMAIN p : p[i] \in members
<1> DEFINE S == Occupants(r)
           n == Cardinality(S)
           q == Roll(r)
           g == IdsOf(q)
           p == Extended(q, n, m)
<1>1. S \in SUBSET Member /\ S \subseteq members /\ m \notin S
  BY DEF Seen, ServedInv, RoomInv, SessionInv, TypeOK, Occupants
<1>2. n \in Nat BY <1>1, NodesCount
<1>3. q \in [1..n -> S] BY DEF Seen, RowsFollow
<1>4. g \in [1..n -> MemberIds] /\ \A i \in 1..n : g[i] = IdOf(q[i])
  BY <1>1, <1>3 DEF IdsOf, IdOf, MemberIds
<1>5. Service!Strike(IdOf(m), rollMap[NameOf(r)]) = g
  <2>1. Service!Strike(IdOf(m), rollMap[NameOf(r)]) = IdsOf(Dropped(q, n, m)) BY RollDropped
  <2>2. Dropped(q, n, m) = q BY <1>1, <1>3 DEF Dropped
  <2> QED BY <2>1, <2>2
<1> HIDE DEF g, n, q, S
<1>6. Append(g, IdOf(m)) = Extended(g, n, IdOf(m)) BY <1>2, <1>4, AppendIs
<1>7. \A i \in 1..(n + 1) : i \in 1..n \/ i = n + 1 BY <1>2
<1>8. IdsOf(p) = Extended(g, n, IdOf(m))
  <2>1. \A i \in 1..(n + 1) : IdOf(p[i]) = IF i = n + 1 THEN IdOf(m) ELSE g[i]
    BY <1>4, <1>7 DEF Extended
  <2>2. IdsOf(p) = [i \in 1..(n + 1) |-> IdOf(p[i])] BY DEF IdsOf, IdOf, Extended
  <2> HIDE DEF p
  <2> QED BY <2>1, <2>2 DEF Extended
<1>9. \A i \in DOMAIN p : p[i] \in members BY <1>1, <1>3, <1>7 DEF Extended
<1> QED BY <1>2, <1>5, <1>6, <1>8, <1>9 DEF p, n, q, S

\* A session with another room.
LEMMA MovedSession ==
  ASSUME NEW a, NEW b, NEW d, NEW e, NEW s, NEW t,
         s = [name |-> a, room |-> b, silent |-> d], t = [name |-> a, room |-> e, silent |-> d]
  PROVE  t = [s EXCEPT !.room = e]
OBVIOUS

\* SWITCH_ROOM_REQUEST, granted.
LEMMA SwitchRoomStep ==
  ASSUME Seen, Seen', NEW m \in Member, NEW r \in Room, SwitchRoom(m, r)
  PROVE  Service!Next
<1> DEFINE id == IdOf(m)
           name == NameOf(r)
<1>1. /\ m \in members /\ r \in rooms /\ ~IsFull(r) /\ member[m].current_room # r
      /\ member' = [Heard(m) EXCEPT ![m].current_room = r]
      /\ roster' = EnterRoom(m, r) /\ room' = RoomEntered(r, CountsAfterLeaving(m))
      /\ UNCHANGED <<members, rooms, room_list>> /\ pc = "select" /\ UNCHANGED loopVars
      /\ Answer(11, id)
  BY DEF SwitchRoom, Request, Serving, SUCC, SWITCH_ROOM_REQUEST, IdOf
<1>2. /\ TypeOK /\ TypeOK' /\ RostersSound /\ InLiveRoom /\ rooms \subseteq Room /\ members \subseteq Member
  BY DEF Seen, ServedInv, RoomInv, SessionInv, TypeOK
<1>3. /\ member'[m].current_room = r /\ member'[m].quiet_flag = 0
      /\ member'[m].member_id = member[m].member_id /\ member'[m].member_name = member[m].member_name
      /\ \A x \in members : x # m => member'[x] = member[x]
  BY <1>1, <1>2 DEF TypeOK, Heard, MemberType
<1>4. \A x \in members : IdOf(x)' = IdOf(x) BY <1>3 DEF IdOf
<1>5. /\ \A s \in rooms : room'[s].room_name = room[s].room_name
      /\ \A s \in rooms : room'[s].empty_flag = IF s = r THEN 0 ELSE room[s].empty_flag
  <2>1. member[m].current_room \in Room \cup {NULL} /\ r \in Room
    BY <1>1, <1>2 DEF TypeOK, InLiveRoom
  <2>2. CountsAfterLeaving(m) \in [Room -> RoomType] BY <1>2, CountsAfterLeavingType
  <2>3. \A s \in rooms : /\ CountsAfterLeaving(m)[s].room_name = room[s].room_name
                         /\ CountsAfterLeaving(m)[s].empty_flag = room[s].empty_flag
    BY <1>2, <2>1 DEF CountsAfterLeaving, TypeOK, RoomType
  <2> DEFINE C == CountsAfterLeaving(m)
  <2>4. room' = RoomEntered(r, C) BY <1>1
  <2> HIDE DEF C
  <2>5. \A s \in rooms : /\ room'[s].room_name = C[s].room_name
                         /\ room'[s].empty_flag = IF s = r THEN 0 ELSE C[s].empty_flag
    BY <1>2, <2>1, <2>2, <2>4 DEF RoomEntered, RoomType, C
  <2> QED BY <2>3, <2>5 DEF C
<1>6. \A s \in rooms : NameOf(s)' = NameOf(s) BY <1>5 DEF NameOf
<1>7. orderMap' = orderMap /\ RoomNames' = RoomNames BY <1>1, <1>6, OrderSame
<1>8. vacantMap' = vacantMap \ {name}
  <2>1. /\ vacantMap = {NameOf(s) : s \in {x \in rooms : room[x].empty_flag # 0}}
        /\ vacantMap' = {NameOf(s)' : s \in {x \in rooms' : room'[x].empty_flag # 0}}
    BY DEF Seen, TablesFollow
  <2>2. {x \in rooms' : room'[x].empty_flag # 0} = {x \in rooms : room[x].empty_flag # 0} \ {r}
    BY <1>1, <1>5
  <2>3. \A s \in rooms : NameOf(s) = name => s = r BY <1>1, KeysOfTables
  <2> QED BY <1>6, <2>1, <2>2, <2>3
<1>9. sessionMap' = [Service!Spoken(id) EXCEPT ![id].room = name]
  <2> DEFINE f == [Service!Spoken(id) EXCEPT ![id].room = name]
             new == [name |-> member[m].member_name, room |-> name, silent |-> FALSE]
  <2>1. id \in DOMAIN sessionMap /\ sessionMap[id] = SessionOf(m) BY <1>1, KeysOfTables
  <2>2. f = [sessionMap EXCEPT ![id] = new]
    <3>1. Service!Spoken(id) = [sessionMap EXCEPT ![id] = [SessionOf(m) EXCEPT !.silent = FALSE]]
      BY <2>1 DEF Service!Spoken
    <3> DEFINE v == [SessionOf(m) EXCEPT !.silent = FALSE]
    <3>3. [v EXCEPT !.room = name] = new
      <4> DEFINE a == member[m].member_name
                 b == IF member[m].current_room = NULL THEN NULL
                      ELSE room[member[m].current_room].room_name
                 c == member[m].quiet_flag # 0
                 d == FALSE
                 t == SessionOf(m)
                 w == [name |-> a, room |-> b, silent |-> d]
      <4>1. t = [name |-> a, room |-> b, silent |-> c] BY Zenon DEF SessionOf
      <4>2. v = [t EXCEPT !.silent = d] /\ new = [name |-> a, room |-> name, silent |-> d] BY Zenon
      <4>3. w = [name |-> a, room |-> b, silent |-> d] OBVIOUS
      <4> HIDE DEF a, b, c, d, t, v, w, new, name
      <4>4. w = [t EXCEPT !.silent = d] BY <4>1, <4>3, SilencedSession
      <4>5. new = [w EXCEPT !.room = name] BY <4>2, <4>3, MovedSession
      <4> QED BY <4>2, <4>4, <4>5
    <3> HIDE DEF v, new, name
    <3>4. f = [[sessionMap EXCEPT ![id] = v] EXCEPT ![id].room = name] BY <3>1 DEF v
    <3> QED BY <2>1, <3>3, <3>4
  <2>3. SessionOf(m)' = new
    <3>1. member'[m].current_room # NULL /\ room'[r].room_name = name
      BY <1>1, <1>3, <1>5, KeysOfTables DEF NameOf
    <3>2. (member'[m].quiet_flag # 0) = FALSE BY <1>3
    <3>3. SessionOf(m)' = [name |-> member'[m].member_name, room |-> room'[r].room_name,
                           silent |-> member'[m].quiet_flag # 0]
      BY <1>3, <3>1, Zenon DEF SessionOf
    <3> QED BY <1>3, <3>1, <3>2, <3>3, Zenon
  <2>4. ASSUME NEW x \in members, x # m PROVE SessionOf(x)' = SessionOf(x)
    <3>1. member'[x] = member[x] /\ member[x].current_room \in rooms \cup {NULL}
      BY <1>3, <2>4, KeysOfTables
    <3> QED BY <1>5, <3>1 DEF SessionOf
  <2> HIDE DEF f, new, name
  <2>5. TableOf(f, MemberIds')
    <3>1. MemberIds' = MemberIds BY <1>1, <1>4 DEF MemberIds
    <3>2. TableOf(sessionMap, MemberIds) BY DEF Seen, TablesFollow
    <3> QED BY <2>2, <3>1, <3>2, TableExcept
  <2>6. ASSUME NEW x \in members' PROVE f[IdOf(x)'] = SessionOf(x)'
    <3>1. /\ x \in members /\ IdOf(x)' = IdOf(x) /\ IdOf(x) \in DOMAIN sessionMap
          /\ sessionMap[IdOf(x)] = SessionOf(x) /\ (IdOf(x) = id => x = m)
      BY <1>1, <1>4, KeysOfTables
    <3>2. CASE x = m BY <2>2, <2>3, <3>1, <3>2
    <3>3. CASE x # m BY <2>2, <2>4, <3>1, <3>3
    <3> QED BY <3>2, <3>3
  <2>7. sessionMap' = f BY <2>5, <2>6, SessionMapIs DEF Seen
  <2> QED BY <2>7 DEF f
<1>10. rollMap' = [Service!RollWithout(id) EXCEPT ![name] = Append(@, id)]
  <2> DEFINE g == [n \in RoomNames |-> Service!Strike(id, rollMap[n])]
             f == [g EXCEPT ![name] = Append(@, id)]
  <2>1. TableOf(f, RoomNames') BY <1>7 DEF TableOf
  <2>2. ASSUME NEW s \in rooms' PROVE f[NameOf(s)'] = IdsOf(Roll(s))'
    <3> DEFINE n == Cardinality(Occupants(s))
               p == IF s = r THEN Extended(Roll(s), n, m) ELSE Dropped(Roll(s), n, m)
               T == IF s = r THEN Occupants(r) \cup {m} ELSE Occupants(s) \ {m}
    <3>1. s \in rooms /\ NameOf(s)' = NameOf(s) /\ NameOf(s) \in RoomNames
          /\ (NameOf(s) = name <=> s = r)
      BY <1>1, <1>6, <2>2, KeysOfTables
    <3>2. Roll(s) \in [1..n -> Occupants(s)] /\ Orders(Roll(s), Occupants(s), RoomList(roster, s))
      BY <3>1 DEF Seen, RowsFollow
    <3>3. p \in [1..Cardinality(T) -> T] /\ Orders(p, T, RoomList(roster', s))
      BY <1>1, <1>2, <3>1, <3>2, EnterRoomOrders
    <3>4. T \in SUBSET Member BY <1>2 DEF Occupants
    <3>5. IdsOf(p) = f[NameOf(s)] /\ \A i \in DOMAIN p : p[i] \in members
      <4>1. CASE s = r
        <5>1. /\ Append(Service!Strike(id, rollMap[name]), id) = IdsOf(p)
              /\ \A i \in DOMAIN p : p[i] \in members
          BY <1>1, <4>1, RollExtended
        <5>2. f[name] = Append(Service!Strike(id, rollMap[name]), id) BY <3>1, <4>1
        <5> QED BY <3>1, <4>1, <5>1, <5>2
      <4>2. CASE s # r
        <5>1. /\ Service!Strike(id, rollMap[NameOf(s)]) = IdsOf(p)
              /\ \A i \in DOMAIN p : p[i] \in members
          BY <1>1, <3>1, <4>2, RollDropped
        <5>2. f[NameOf(s)] = Service!Strike(id, rollMap[NameOf(s)]) BY <3>1, <4>2
        <5> QED BY <5>1, <5>2
      <4> QED BY <4>1, <4>2
    <3> HIDE DEF p, T, n, f
    <3>6. Roll(s)' = p BY <1>2, <3>3, <3>4, RollIsNext
    <3>7. IdsOf(Roll(s))' = IdsOf(p)
      <4>1. \A i \in DOMAIN p : member'[p[i]].member_id = member[p[i]].member_id
        BY <1>4, <3>5 DEF IdOf
      <4> QED BY <3>6, <4>1 DEF IdsOf
    <3> QED BY <3>1, <3>5, <3>7
  <2>3. g = Service!RollWithout(id) BY KeysOfTables DEF Service!RollWithout, Service!Rooms
  <2> HIDE DEF f
  <2>4. rollMap' = f BY <2>1, <2>2, RollMapIs DEF Seen
  <2> QED BY <2>3, <2>4 DEF f
<1>11. id \in Service!Ids /\ id \in MemberId /\ name \in RoomName
  BY <1>1, KeysOfTables DEF Service!Ids
<1>12. Service!MayEnter(id, name) BY <1>1, MayEnterIs
<1>13. phaseMap = "open" /\ UNCHANGED <<phaseMap, dueMap, pendingMap>>
  <2>1. pc' = pc BY <1>1 DEF loopVars
  <2> QED BY <1>1, <2>1 DEF phaseMap, dueMap, pendingMap
<1> HIDE DEF id, name
<1>14. Service!Enter(id, name)
  BY <1>1, <1>7, <1>8, <1>9, <1>10, <1>11, <1>12, <1>13
  DEF Service!Enter, Service!Idle, Service!Reply, Answer
<1> QED BY <1>11, <1>14 DEF Service!Next, Service!MemberStep

-----------------------------------------------------------------------------
(* The sweep looks at a room. *)

\* It goes past one of them, whether the room stays or not.
LEMMA RoomsAheadStep ==
  ASSUME Seen, SweepRoom
  PROVE  /\ cursor \in RoomsAhead /\ RoomsAhead \subseteq rooms
         /\ RoomsAhead' = RoomsAhead \ {cursor}
<1> DEFINE n == Cardinality(rooms)
           q == RoomRow
           c == NextRoom(cursor)
<1>1. /\ TypeOK /\ rooms \in SUBSET Room /\ NULL \notin rooms /\ NULL \notin Room
      /\ cursor \in rooms /\ cursor' = c
  BY ServerAssumption DEF Seen, ServedInv, RoomInv, SessionInv, SweepRoom, SweepOnRoom, TypeOK
<1>2. /\ q \in [1..n -> rooms] /\ LinkedAs(q, rooms, room_list)
      /\ Threads(q, rooms, room_list.head, room_list.next)
  BY DEF Seen, RowsFollow, LinkedAs
<1>3. n \in Nat BY <1>1, RoomsCount
<1>4. PICK k \in 1..n : q[k] = cursor BY <1>1, <1>2 DEF Threads
<1>5. c = room_list.next[cursor] BY DEF NextRoom
<1> HIDE DEF q, c
<1>7. /\ At(cursor, q, n, k) /\ cursor \in SetOf(From(q, n, k))
      /\ SetOf(From(q, n, k)) \subseteq rooms
      /\ SetOf(From(q, n, k + 1)) = SetOf(From(q, n, k)) \ {cursor}
      /\ SetOf(From(Skipped(q, n, k), n - 1, k)) = SetOf(From(q, n, k)) \ {cursor}
      /\ At(c, q, n, k + 1) /\ At(c, Skipped(q, n, k), n - 1, k)
  BY <1>1, <1>2, <1>3, <1>4, <1>5, LeaveBehind
<1> HIDE DEF n
<1>8. RoomsAhead = SetOf(From(q, n, k))
  BY <1>1, <1>2, <1>7, RoomRowFrom DEF RoomsAhead, n
<1>9. CASE room_list' = room_list
  <2>1. Chain(room_list.next, c) = From(q, n, k + 1) BY <1>1, <1>2, <1>7, RoomRowFrom DEF n
  <2>2. RoomsAhead' = SetOf(From(q, n, k + 1)) BY <1>1, <1>9, <2>1 DEF RoomsAhead, SetOf
  <2> QED BY <1>7, <1>8, <2>2
<1>10. CASE room_list' = UnlinkRoom(cursor)
  <2> DEFINE T == rooms \ {cursor}
             p == Skipped(q, n, k)
             next == room_list'.next
  <2>1. p \in [1..Cardinality(T) -> T] /\ LinkedAs(p, T, room_list')
    BY <1>1, <1>2, <1>4, <1>10, UnlinkRoomLinks DEF n
  <2>2. T \in SUBSET Room /\ Cardinality(T) = n - 1 BY <1>1, RoomsCount DEF n
  <2>3. DOMAIN next = Room BY <1>10 DEF UnlinkRoom
  <2>4. Threads(p, T, room_list'.head, next) BY <2>1 DEF LinkedAs
  <2>5. At(c, p, Cardinality(T), k) BY <1>7, <2>2
  <2> HIDE DEF T, p, next
  <2>6. Chain(next, c) = From(p, Cardinality(T), k)
    BY <1>1, <2>1, <2>2, <2>3, <2>4, <2>5, ServerAssumption, ChainFrom
  <2>7. RoomsAhead' = SetOf(From(p, n - 1, k)) BY <1>1, <2>2, <2>6 DEF RoomsAhead, SetOf, next
  <2> QED BY <1>7, <1>8, <2>7 DEF p
<1>11. room_list' = room_list \/ room_list' = UnlinkRoom(cursor) BY DEF SweepRoom, roomVars
<1> QED BY <1>7, <1>8, <1>9, <1>10, <1>11

\* A room with nobody in it is one whose roll is empty.
LEMMA VacantIs ==
  ASSUME Seen, NEW r \in rooms
  PROVE  /\ IsVacant(r) <=> rollMap[NameOf(r)] = <<>>
         /\ room[r].empty_flag = 0 <=> NameOf(r) \notin vacantMap
<1> DEFINE q == IdsOf(Roll(r))
           n == room[r].num_of_members
<1>1. n \in Nat /\ DOMAIN q = 1..n /\ Len(q) = n /\ rollMap[NameOf(r)] = q
  BY RowLengths, KeysOfTables
<1>2. q = [i \in DOMAIN q |-> q[i]] BY DEF IdsOf
<1>3. vacantMap = {NameOf(s) : s \in {x \in rooms : room[x].empty_flag # 0}}
  BY DEF Seen, TablesFollow
<1>4. \A s \in rooms : NameOf(s) = NameOf(r) => s = r BY KeysOfTables
<1>5. room[r].empty_flag = 0 <=> NameOf(r) \notin vacantMap BY <1>3, <1>4
<1>6. IsVacant(r) <=> n = 0 BY DEF IsVacant
<1> HIDE DEF q, n
<1> QED BY <1>1, <1>2, <1>5, <1>6

\* remove_room, for the tables of the service.
LEMMA RoomRemovalStep ==
  ASSUME Seen, Seen', NEW r \in rooms, rooms' = rooms \ {r},
         room' = [room EXCEPT ![r] = BlankRoom], room_list' = UnlinkRoom(r),
         roster' = RosterCleared(r), UNCHANGED sessionVars
  PROVE  /\ orderMap' = Service!Strike(NameOf(r), orderMap)
         /\ rollMap' = Service!Without(rollMap, NameOf(r))
         /\ vacantMap' = vacantMap \ {NameOf(r)}
<1> DEFINE name == NameOf(r)
<1>1. TypeOK /\ TypeOK' /\ rooms \in SUBSET Room /\ r \in Room
  BY DEF Seen, ServedInv, RoomInv, SessionInv, TypeOK
<1>2. \A s \in rooms \ {r} : room'[s] = room[s] BY <1>1 DEF TypeOK
<1>3. \A s \in rooms \ {r} : NameOf(s)' = NameOf(s) /\ NameOf(s) # name
  BY <1>2, KeysOfTables DEF NameOf
<1>4. RoomNames' = RoomNames \ {name} BY <1>3 DEF RoomNames
<1>5. orderMap' = Service!Strike(name, orderMap)
  <2> DEFINE n == Cardinality(rooms)
             T == rooms \ {r}
  <2>1. n \in Nat BY <1>1, RoomsCount
  <2>2. RoomRow \in [1..n -> rooms] /\ LinkedAs(RoomRow, rooms, room_list)
        /\ Threads(RoomRow, rooms, room_list.head, room_list.next)
    BY DEF Seen, RowsFollow, LinkedAs
  <2>3. PICK k \in 1..n : RoomRow[k] = r BY <2>2 DEF Threads
  <2> DEFINE q == Skipped(RoomRow, n, k)
  <2>4. q \in [1..Cardinality(T) -> T] /\ LinkedAs(q, T, room_list')
    BY <1>1, <2>2, <2>3, UnlinkRoomLinks
  <2>5. T \in SUBSET Room BY <1>1
  <2>6. \A i \in 1..n : RoomRow[i] = r => i = k BY <2>2, <2>3 DEF Threads
  <2> HIDE DEF T, q, n
  <2>7. RoomRow' = q BY <1>1, <2>4, <2>5, RoomRowIsNext
  <2>8. orderMap = [i \in 1..n |-> NameOf(RoomRow[i])]
    BY <2>2 DEF orderMap, NamesOf, NameOf, RoomRow
  <2>9. orderMap \in [1..n -> RoomNames] BY <2>2, <2>8 DEF RoomNames
  <2>10. \A i \in 1..n : orderMap[i] = name <=> i = k BY <2>2, <2>3, <2>6, <2>8, KeysOfTables
  <2>11. Service!Strike(name, orderMap) = Skipped(orderMap, n, k)
    <3>1. Service!Strike(name, orderMap) = Dropped(orderMap, n, name) BY <2>1, <2>9, StrikeIs
    <3>2. (CHOOSE i \in 1..n : orderMap[i] = name) = k BY <2>3, <2>10
    <3> QED BY <2>3, <2>10, <3>1, <3>2 DEF Dropped
  <2>12. orderMap' = [i \in DOMAIN q |-> room'[q[i]].room_name]
    BY <2>7 DEF orderMap, NamesOf, RoomRow
  <2>13. \A i \in 1..n : i # k => room'[RoomRow[i]].room_name = orderMap[i]
    BY <1>2, <2>2, <2>6, <2>8 DEF NameOf
  <2>14. \A i \in 1..(n - 1) : /\ i < k => i \in 1..n /\ i # k
                               /\ ~(i < k) => i + 1 \in 1..n /\ i + 1 # k
    BY <2>1
  <2>15. [i \in DOMAIN q |-> room'[q[i]].room_name] = Skipped(orderMap, n, k)
    BY <2>13, <2>14 DEF q, Skipped
  <2> QED BY <2>11, <2>12, <2>15
<1>6. roster'.next = roster.next /\ \A s \in rooms \ {r} : roster'.head[s] = roster.head[s]
  BY <1>1 DEF RosterCleared, SetRoomList, TypeOK, RosterType
<1>7. rollMap' = Service!Without(rollMap, name)
  <2> DEFINE f == [n \in RoomNames \ {name} |-> rollMap[n]]
  <2>1. TableOf(f, RoomNames') BY <1>4 DEF TableOf
  <2>2. ASSUME NEW s \in rooms' PROVE f[NameOf(s)'] = IdsOf(Roll(s))'
    <3>1. s \in rooms \ {r} /\ NameOf(s)' = NameOf(s) /\ NameOf(s) \in RoomNames \ {name}
          /\ rollMap[NameOf(s)] = IdsOf(Roll(s))
      BY <1>3, <2>2, KeysOfTables
    <3>2. Roll(s)' = Roll(s) BY <1>6, <3>1 DEF Roll
    <3>3. member' = member BY DEF sessionVars
    <3>4. IdsOf(Roll(s))' = IdsOf(Roll(s)) BY <3>2, <3>3 DEF IdsOf
    <3> QED BY <3>1, <3>4
  <2> HIDE DEF f
  <2>3. rollMap' = f BY <2>1, <2>2, RollMapIs DEF Seen
  <2> QED BY <2>3, KeysOfTables DEF f, Service!Without
<1>8. vacantMap' = vacantMap \ {name}
  <2>1. /\ vacantMap = {NameOf(s) : s \in {x \in rooms : room[x].empty_flag # 0}}
        /\ vacantMap' = {NameOf(s)' : s \in {x \in rooms' : room'[x].empty_flag # 0}}
    BY DEF Seen, TablesFollow
  <2>2. {x \in rooms' : room'[x].empty_flag # 0} = {x \in rooms : room[x].empty_flag # 0} \ {r}
    BY <1>2
  <2> QED BY <1>3, <2>1, <2>2
<1> QED BY <1>5, <1>7, <1>8

\* Empty for a whole interval, and out.
LEMMA SweepRoomStep ==
  ASSUME Seen, Seen', SweepRoom
  PROVE  Service!Next
<1>0. PICK r : r = cursor OBVIOUS
<1> DEFINE name == NameOf(r)
<1>1. /\ pc = "sweep_rooms" /\ pc' = "sweep_rooms" /\ UNCHANGED <<sessionVars, replyVars>>
      /\ \/ /\ ~IsVacant(r)
            /\ UNCHANGED <<roomVars, roster>>
         \/ /\ IsVacant(r) /\ room[r].empty_flag = 0
            /\ room' = [room EXCEPT ![r].empty_flag = 1]
            /\ UNCHANGED <<rooms, room_list, roster>>
         \/ /\ IsVacant(r) /\ room[r].empty_flag # 0
            /\ rooms' = rooms \ {r}
            /\ room' = [room EXCEPT ![r] = BlankRoom]
            /\ room_list' = UnlinkRoom(r)
            /\ roster' = RosterCleared(r)
  BY <1>0 DEF SweepRoom
<1>2. r \in RoomsAhead /\ RoomsAhead \subseteq rooms /\ RoomsAhead' = RoomsAhead \ {r}
  BY <1>0, RoomsAheadStep
<1>3. r \in rooms /\ r \in Room /\ name \in RoomName /\ rooms \subseteq Room /\ TypeOK
  BY <1>2, KeysOfTables DEF Seen, ServedInv, RoomInv, SessionInv
<1>4. phaseMap = "pruning" /\ UNCHANGED <<phaseMap, pendingMap>> BY <1>1 DEF phaseMap, pendingMap
<1>5. \A x \in rooms \ {r} : room'[x] = room[x] BY <1>1, <1>3 DEF TypeOK, roomVars
<1>6. name \in dueMap /\ dueMap' = dueMap \ {name}
  <2>1. dueMap = {NameOf(x) : x \in RoomsAhead} BY <1>1, DueInv DEF DueFollows
  <2>2. dueMap' = {NameOf(x)' : x \in RoomsAhead'} BY <1>1, DueInvNext DEF DueFollows
  <2>3. \A x \in RoomsAhead \ {r} : NameOf(x)' = NameOf(x) BY <1>2, <1>5 DEF NameOf
  <2>4. dueMap' = {NameOf(x) : x \in RoomsAhead \ {r}} BY <1>2, <2>2, <2>3
  <2>5. \A x \in RoomsAhead : NameOf(x) = name => x = r BY <1>2, <1>3, KeysOfTables
  <2> QED BY <1>2, <2>1, <2>4, <2>5
<1>7. /\ IsVacant(r) <=> rollMap[name] = <<>>
      /\ room[r].empty_flag = 0 <=> name \notin vacantMap
  BY <1>3, VacantIs
<1>8. \A x \in members : IdOf(x)' = IdOf(x) BY <1>1 DEF IdOf, sessionVars
<1>9. ASSUME \A x \in rooms : room'[x].room_name = room[x].room_name, rooms' = rooms
      PROVE  sessionMap' = sessionMap
  <2>1. \A x \in members : member[x].current_room \in rooms \cup {NULL} BY KeysOfTables
  <2>2. member' = member /\ members' = members BY <1>1 DEF sessionVars
  <2>3. \A x \in members : SessionOf(x)' = SessionOf(x) BY <1>9, <2>1, <2>2 DEF SessionOf
  <2> QED BY <1>8, <2>2, <2>3, SessionsSame
<1>10. CASE ~IsVacant(r) /\ UNCHANGED <<roomVars, roster>>
  <2>1. UNCHANGED <<sessionMap, orderMap, rollMap, vacantMap>> BY <1>1, <1>10, TablesStay
  <2>2. Service!VisitRoom(name)
    BY <1>1, <1>4, <1>6, <1>7, <1>10, <2>1 DEF Service!VisitRoom, replyVars
  <2> QED BY <1>3, <2>2 DEF Service!Next, Service!OwnStep
<1>11. CASE /\ IsVacant(r) /\ room[r].empty_flag = 0
            /\ room' = [room EXCEPT ![r].empty_flag = 1]
            /\ UNCHANGED <<rooms, room_list, roster>>
  <2>1. /\ \A x \in rooms : room'[x].room_name = room[x].room_name
        /\ room'[r].empty_flag = 1
    BY <1>3, <1>11 DEF TypeOK, RoomType
  <2>2. \A x \in rooms : NameOf(x)' = NameOf(x) BY <2>1 DEF NameOf
  <2>3. orderMap' = orderMap /\ RoomNames' = RoomNames BY <1>11, <2>2, OrderSame
  <2>4. sessionMap' = sessionMap BY <1>9, <1>11, <2>1
  <2>5. rollMap' = rollMap
    <3>1. TableOf(rollMap, RoomNames') BY <2>3 DEF Seen, TablesFollow
    <3>2. member' = member BY <1>1 DEF sessionVars
    <3>3. \A x \in rooms : IdsOf(Roll(x))' = IdsOf(Roll(x)) BY <1>11, <3>2 DEF Roll, IdsOf
    <3>4. \A x \in rooms' : rollMap[NameOf(x)'] = IdsOf(Roll(x))'
      BY <1>11, <2>2, <3>3, KeysOfTables
    <3> QED BY <3>1, <3>4, RollMapIs DEF Seen
  <2>6. vacantMap' = vacantMap \cup {name}
    <3>1. /\ vacantMap = {NameOf(s) : s \in {x \in rooms : room[x].empty_flag # 0}}
          /\ vacantMap' = {NameOf(s)' : s \in {x \in rooms' : room'[x].empty_flag # 0}}
      BY DEF Seen, TablesFollow
    <3>2. {x \in rooms' : room'[x].empty_flag # 0} = {x \in rooms : room[x].empty_flag # 0} \cup {r}
      BY <1>3, <1>5, <1>11, <2>1
    <3> QED BY <1>3, <2>2, <3>1, <3>2
  <2>7. Service!VisitRoom(name)
    BY <1>1, <1>4, <1>6, <1>7, <1>11, <2>3, <2>4, <2>5, <2>6 DEF Service!VisitRoom, replyVars
  <2> QED BY <1>3, <2>7 DEF Service!Next, Service!OwnStep
<1>12. CASE /\ IsVacant(r) /\ room[r].empty_flag # 0
            /\ rooms' = rooms \ {r}
            /\ room' = [room EXCEPT ![r] = BlankRoom]
            /\ room_list' = UnlinkRoom(r)
            /\ roster' = RosterCleared(r)
  <2>1. /\ orderMap' = Service!Strike(name, orderMap)
        /\ rollMap' = Service!Without(rollMap, name)
        /\ vacantMap' = vacantMap \ {name}
    BY <1>1, <1>3, <1>12, RoomRemovalStep
  <2>2. sessionMap' = sessionMap
    <3>1. member' = member /\ members' = members BY <1>1 DEF sessionVars
    <3>2. Occupants(r) = {}
      BY <1>3, <1>12, NodesCount DEF IsVacant, Seen, ServedInv, RoomInv, SessionInv,
         OccupantsCounted, Occupants, TypeOK
    <3>3. \A x \in members : member[x].current_room \in (rooms \ {r}) \cup {NULL}
      BY <3>2, KeysOfTables DEF Occupants
    <3>4. \A x \in members : SessionOf(x)' = SessionOf(x) BY <1>5, <3>1, <3>3 DEF SessionOf
    <3> QED BY <1>8, <3>1, <3>4, SessionsSame
  <2>3. Service!VisitRoom(name)
    BY <1>1, <1>4, <1>6, <1>7, <1>12, <2>1, <2>2 DEF Service!VisitRoom, replyVars
  <2> QED BY <1>3, <2>3 DEF Service!Next, Service!OwnStep
<1> QED BY <1>1, <1>10, <1>11, <1>12

-----------------------------------------------------------------------------
(* The refinement. *)

\* Every step of the server is one of the service, or none of it.
LEMMA StepRefines ==
  ASSUME Seen, Seen', Next
  PROVE  Service!Next
<1>1. ASSUME NEW name \in RoomName, InitRoom(name) PROVE Service!Next BY <1>1, InitRoomStep
<1>2. CASE ServerStep
  BY <1>2, InitDoneStep, SweepMemberStep, SweepMembersDoneStep, SweepRoomStep, SweepDoneStep,
     DeliverStep, EndBroadcastStep
  DEF ServerStep
<1>3. ASSUME NEW name \in MemberName,
             \/ RegisterRefused(name)
             \/ \E m \in Member, id \in MemberId : Register(m, name, id)
      PROVE  Service!Next
  BY <1>3, RegisterRefusedStep, RegisterStep
<1>4. ASSUME NEW m \in Member, ControlRequest(m) PROVE Service!Next
  <2>1. CASE Quit(m) BY <2>1, QuitStep
  <2>2. CASE KeepAlive(m) BY <2>2, PingStep
  <2>3. CASE RoomListRequest(m) BY <2>3, ListRoomsStep
  <2>4. ASSUME NEW name \in RoomName \cup LongName,
               CreateRoom(m, name) \/ CreateRoomRefused(m, name) \/ CreateRoomCrash(m, name)
        PROVE  Service!Next
    BY <2>4, CreateRoomStep, CreateRoomRefusedStep, CreateRoomCrashStep
  <2>5. ASSUME NEW name \in RoomName, SwitchRefused(m, name) \/ MemberListRequest(m, name)
        PROVE  Service!Next
    BY <2>5, SwitchRefusedStep, ListMembersStep
  <2>6. ASSUME NEW r \in Room, SwitchRoom(m, r) PROVE Service!Next BY <2>6, SwitchRoomStep
  <2> QED BY <1>4, <2>1, <2>2, <2>3, <2>4, <2>5, <2>6 DEF ControlRequest
<1>5. ASSUME NEW m \in Member, ChatMessage(m) PROVE Service!Next BY <1>5, ChatMessageStep
<1>6. ASSUME NEW m \in Member, ChatMessageDropped(m) PROVE Service!Next BY <1>6, PingStep
<1>7. ASSUME NEW type \in MemberRequest, NEW id \in MemberId \cup {NoId}, InvalidId(type, id)
      PROVE  Service!Next
  BY <1>7, InvalidIdStep
<1>8. CASE SweepStart BY <1>8, SweepStartStep
<1> QED BY <1>1, <1>2, <1>3, <1>4, <1>5, <1>6, <1>7, <1>8 DEF Next

\* A step that changes nothing changes nothing the service sees.
LEMMA StutterRefines ==
  ASSUME UNCHANGED vars
  PROVE  UNCHANGED Service!vars
<1>1. UNCHANGED <<sessionVars, roomVars, roster>> /\ UNCHANGED <<pc, cursor, reply, listing>>
  BY DEF vars, loopVars, replyVars
<1>2. UNCHANGED <<sessionMap, orderMap, rollMap, vacantMap>> BY <1>1, TablesStay
<1>3. UNCHANGED <<phaseMap, dueMap, pendingMap>>
  <2>1. UNCHANGED phaseMap BY <1>1 DEF phaseMap
  <2>2. UNCHANGED <<mem_list, member, room, room_list>> BY <1>1 DEF sessionVars, roomVars
  <2>3. UNCHANGED dueMap BY <1>1, <2>2 DEF dueMap, IdsOf, NamesOf
  <2>4. UNCHANGED pendingMap BY <1>1, <2>2 DEF pendingMap, IdsOf
  <2> QED BY <2>1, <2>3, <2>4
<1> QED BY <1>1, <1>2, <1>3 DEF Service!vars, Service!tables

\* The server starts as the service does.
LEMMA InitRefines ==
  ASSUME Init, Seen
  PROVE  Service!Init
<1>1. /\ pc = "init" /\ members = {} /\ rooms = {} /\ reply = NoReply /\ listing = <<>>
  BY DEF Init
<1>2. phaseMap = "starting" /\ dueMap = {} /\ pendingMap = <<>>
  BY <1>1 DEF phaseMap, dueMap, pendingMap
<1>3. MemberIds = {} /\ RoomNames = {} BY <1>1 DEF MemberIds, RoomNames
<1>4. sessionMap = [id \in {} |-> NoId]
  <2>1. TableOf(sessionMap, {}) BY <1>3 DEF Seen, TablesFollow
  <2> QED BY <2>1 DEF TableOf
<1>5. rollMap = [n \in {} |-> <<>>]
  <2>1. TableOf(rollMap, {}) BY <1>3 DEF Seen, TablesFollow
  <2> QED BY <2>1 DEF TableOf
<1>6. vacantMap = {} BY <1>1 DEF Seen, TablesFollow
<1>7. orderMap = <<>>
  <2>1. Chain(room_list.next, NULL) = <<>>
    <3>1. DOMAIN room_list.next = Room BY DEF Init
    <3> QED BY <3>1, ServerAssumption, ChainOfNull
  <2>2. room_list.head = NULL BY DEF Init
  <2> QED BY <2>1, <2>2 DEF orderMap, NamesOf
<1> QED BY <1>1, <1>2, <1>4, <1>5, <1>6, <1>7 DEF Service!Init, NoReply

\* Whatever the numbers of members and rooms and whatever the limits, a behaviour
\* of the server is one of the service: every handler, every iteration of a sweep
\* and of a broadcast does to the linked lists, the counters and the flags what
\* the service does to its tables, and gives the same answer.
THEOREM ServiceImplemented == Spec => ImplementsService
<1>1. Init => Service!Init
  <2>1. Init => Seen BY ServedInvInit, SeenInv
  <2> QED BY <2>1, InitRefines
<1>2. ServedInv /\ ServedInv' /\ [Next]_vars => [Service!Next]_(Service!vars)
  <2> SUFFICES ASSUME ServedInv, ServedInv', [Next]_vars PROVE [Service!Next]_(Service!vars)
    OBVIOUS
  <2>1. Seen /\ Seen' BY SeenInv, SeenInvNext
  <2>2. CASE Next BY <2>1, <2>2, StepRefines
  <2>3. CASE UNCHANGED vars BY <2>3, StutterRefines
  <2> QED BY <2>2, <2>3
<1> QED BY <1>1, <1>2, ServedInvHolds, PTL DEF Spec, ImplementsService, Service!Safety

-----------------------------------------------------------------------------
(* The sweep, from its beginning to its end. *)

\* The steps that begin, go on with or end a sweep, and all the others.
LEMMA SweepCases ==
  ASSUME [Next]_vars
  PROVE  \/ SweepStart /\ pc' = "sweep_members"
         \/ SweepMember /\ pc' = "sweep_members"
         \/ SweepMembersDone
         \/ SweepRoom /\ pc' = "sweep_rooms"
         \/ SweepDone
         \/ pc \notin {"sweep_members", "sweep_rooms"} /\ pc' \notin {"sweep_members", "sweep_rooms"}
         \/ UNCHANGED vars
<1> DEFINE Apart == /\ pc \notin {"sweep_members", "sweep_rooms"}
                    /\ pc' \notin {"sweep_members", "sweep_rooms"}
<1>1. ASSUME NEW name, InitRoom(name) PROVE Apart BY <1>1 DEF InitRoom, loopVars
<1>2. CASE InitDone BY <1>2 DEF InitDone
<1>3. CASE Deliver BY <1>3 DEF Deliver
<1>4. CASE DeliverFail \/ DeliverDone BY <1>4 DEF DeliverFail, DeliverDone, EndBroadcast
<1>5. ASSUME Serving PROVE Apart BY <1>5 DEF Serving, loopVars
<1>6. ASSUME NEW name, RegisterRefused(name) PROVE Apart BY <1>5, <1>6 DEF RegisterRefused
<1>7. ASSUME NEW m, NEW name, NEW id, Register(m, name, id) PROVE Apart BY <1>5, <1>7 DEF Register
<1>8. ASSUME NEW type, NEW id, InvalidId(type, id) PROVE Apart BY <1>5, <1>8 DEF InvalidId
<1>9. ASSUME NEW m, ControlRequest(m) PROVE Apart
  <2>1. ASSUME Request(m) PROVE Apart BY <1>5, <2>1 DEF Request
  <2>2. CASE Quit(m) \/ KeepAlive(m) \/ RoomListRequest(m)
    BY <2>1, <2>2 DEF Quit, KeepAlive, RoomListRequest
  <2>3. ASSUME NEW name, CreateRoom(m, name) \/ CreateRoomRefused(m, name) PROVE Apart
    BY <2>1, <2>3 DEF CreateRoom, CreateRoomRefused
  <2>4. ASSUME NEW name, CreateRoomCrash(m, name) PROVE Apart BY <2>4 DEF CreateRoomCrash
  <2>5. ASSUME NEW name, SwitchRefused(m, name) \/ MemberListRequest(m, name) PROVE Apart
    BY <2>1, <2>5 DEF SwitchRefused, MemberListRequest
  <2>6. ASSUME NEW r, SwitchRoom(m, r) PROVE Apart BY <2>1, <2>6 DEF SwitchRoom
  <2> HIDE DEF Apart
  <2> QED BY <1>9, <2>2, <2>3, <2>4, <2>5, <2>6 DEF ControlRequest
<1>10. ASSUME NEW m, ChatMessage(m) PROVE Apart BY <1>10 DEF ChatMessage
<1>11. ASSUME NEW m, ChatMessageDropped(m) PROVE Apart
  BY <1>5, <1>11 DEF ChatMessageDropped, Request
<1>12. SweepStart => pc' = "sweep_members" BY DEF SweepStart
<1>13. SweepMember => pc' = "sweep_members" BY DEF SweepMember
<1>14. SweepRoom => pc' = "sweep_rooms" BY DEF SweepRoom
<1> HIDE DEF Apart
<1>15. \/ SweepStart \/ SweepMember \/ SweepMembersDone \/ SweepRoom \/ SweepDone
       \/ Apart \/ UNCHANGED vars
  BY <1>1, <1>2, <1>3, <1>4, <1>6, <1>7, <1>8, <1>9, <1>10, <1>11 DEF Next, ServerStep, Apart
<1> QED BY <1>12, <1>13, <1>14, <1>15 DEF Apart

\* What is behind a sweep stays marked while it goes on.
LEMMA SweepMarksStep ==
  ASSUME Seen, Seen', SweepMarksAll, [Next]_vars
  PROVE  SweepMarksAll'
<1> USE DEF SweepMarksAll
<1>0. TypeOK BY DEF Seen, ServedInv, RoomInv, SessionInv
<1>1. CASE SweepStart /\ pc' = "sweep_members"
  <2>1. MembersAhead' = members BY <1>1, AllMembersAhead DEF SweepStart
  <2>2. members' = members BY <1>1 DEF SweepStart, sessionVars
  <2> QED BY <1>1, <2>1, <2>2
<1>2. CASE SweepMember /\ pc' = "sweep_members"
  <2>0. PICK m : m = cursor OBVIOUS
  <2>1. m \in members /\ MembersAhead' = MembersAhead \ {m} BY <1>2, <2>0, MembersAheadStep
  <2>2. \A x \in members \ MembersAhead : member[x].quiet_flag # 0 BY <1>2 DEF SweepMember
  <2>3. CASE IsQuiet(m)
    <3>1. members' = members \ {m} /\ member' = [member EXCEPT ![m] = BlankMember]
      BY <1>2, <2>0, <2>3 DEF SweepMember, RemoveMember
    <3>2. \A x \in members \ {m} : member'[x] = member[x] BY <1>0, <3>1 DEF TypeOK
    <3> QED BY <1>2, <2>1, <2>2, <3>1, <3>2
  <2>4. CASE ~IsQuiet(m)
    <3>1. members' = members /\ member' = [member EXCEPT ![m].quiet_flag = 1]
      BY <1>2, <2>0, <2>4 DEF SweepMember
    <3>2. /\ member'[m].quiet_flag # 0
          /\ \A x \in members \ {m} : member'[x] = member[x]
      BY <1>0, <2>1, <3>1 DEF TypeOK, MemberType
    <3> QED BY <1>2, <2>1, <2>2, <3>1, <3>2
  <2> QED BY <2>3, <2>4
<1>3. CASE SweepMembersDone
  <2>1. MembersAhead = {} BY <1>3, NoneAhead DEF SweepMembersDone
  <2>2. RoomsAhead' = rooms BY <1>3, AllRoomsAhead DEF SweepMembersDone
  <2>3. /\ pc = "sweep_members" /\ pc' = "sweep_rooms"
        /\ UNCHANGED <<members, member, rooms>>
    BY <1>3 DEF SweepMembersDone, sessionVars, roomVars
  <2> QED BY <2>1, <2>2, <2>3
<1>4. CASE SweepRoom /\ pc' = "sweep_rooms"
  <2>0. PICK r : r = cursor OBVIOUS
  <2>1. r \in rooms /\ RoomsAhead' = RoomsAhead \ {r} BY <1>4, <2>0, RoomsAheadStep
  <2>2. /\ pc = "sweep_rooms" /\ UNCHANGED <<members, member>> BY <1>4 DEF SweepRoom, sessionVars
  <2>3. \A s : Occupants(s)' = Occupants(s) BY <2>2 DEF Occupants
  <2>4. Occupants(r) = {} <=> IsVacant(r)
    <3>1. Occupants(r) \in SUBSET Member BY <1>0 DEF TypeOK, Occupants
    <3>2. room[r].num_of_members = Cardinality(Occupants(r))
      BY <2>1 DEF Seen, ServedInv, RoomInv, OccupantsCounted
    <3> QED BY <3>1, <3>2, NodesCount DEF IsVacant
  <2>5. \/ ~IsVacant(r) /\ UNCHANGED <<rooms, room>>
        \/ rooms' = rooms /\ room' = [room EXCEPT ![r].empty_flag = 1]
        \/ rooms' = rooms \ {r} /\ room' = [room EXCEPT ![r] = BlankRoom]
    BY <1>4, <2>0 DEF SweepRoom, roomVars
  <2>6. /\ \A s \in rooms \ {r} : room'[s] = room[s]
        /\ rooms' \subseteq rooms
        /\ r \in rooms' => ~IsVacant(r) \/ room'[r].empty_flag # 0
    BY <1>0, <2>1, <2>5 DEF TypeOK, RoomType
  <2> QED BY <1>4, <2>1, <2>2, <2>3, <2>4, <2>6
<1>5. CASE SweepDone BY <1>5 DEF SweepDone
<1>6. CASE pc' \notin {"sweep_members", "sweep_rooms"} BY <1>6
<1>7. CASE UNCHANGED vars
  <2>1. UNCHANGED <<pc, members, member, rooms, room, MembersAhead, RoomsAhead>>
    BY <1>7 DEF vars, sessionVars, roomVars, loopVars, MembersAhead, RoomsAhead, SetOf
  <2>2. \A s : Occupants(s)' = Occupants(s) BY <2>1 DEF Occupants
  <2> QED BY <2>1, <2>2
<1> QED BY <1>1, <1>2, <1>3, <1>4, <1>5, <1>6, <1>7, SweepCases

\* A sweep passes nobody over, however many there are and whomever it frees on its
\* way: what is behind it is marked.
THEOREM SweepMarksCorrect == Spec => []SweepMarksAll
<1>1. Init => SweepMarksAll BY DEF Init, SweepMarksAll
<1>2. ServedInv /\ ServedInv' /\ SweepMarksAll /\ [Next]_vars => SweepMarksAll'
  BY SeenInv, SeenInvNext, SweepMarksStep
<1> QED BY <1>1, <1>2, ServedInvHolds, PTL DEF Spec

\* It looks at everyone once, and ends only when it has: with every step there is
\* one less ahead of it.
THEOREM SweepOnceCorrect == Spec => SweepLooksOnce
<1> DEFINE A == /\ pc # "sweep_members" /\ pc' = "sweep_members" => MembersAhead' = members
                /\ pc = "sweep_members" /\ pc' = "sweep_members" =>
                     cursor \in MembersAhead /\ MembersAhead' = MembersAhead \ {cursor}
                /\ pc = "sweep_members" /\ pc' # "sweep_members" =>
                     MembersAhead = {} /\ pc' = "sweep_rooms" /\ RoomsAhead' = rooms
                /\ pc = "sweep_rooms" /\ pc' = "sweep_rooms" =>
                     cursor \in RoomsAhead /\ RoomsAhead' = RoomsAhead \ {cursor}
                /\ pc = "sweep_rooms" /\ pc' # "sweep_rooms" => RoomsAhead = {}
<1>1. ServedInv /\ ServedInv' /\ [Next]_vars => [A]_vars
  <2> SUFFICES ASSUME Seen, [Next]_vars PROVE A \/ UNCHANGED vars BY SeenInv
  <2>1. CASE SweepStart /\ pc' = "sweep_members"
    <3>1. MembersAhead' = members BY <2>1, AllMembersAhead DEF SweepStart
    <3> QED BY <2>1, <3>1 DEF SweepStart
  <2>2. CASE SweepMember /\ pc' = "sweep_members"
    BY <2>2, MembersAheadStep DEF SweepMember
  <2>3. CASE SweepMembersDone
    <3>1. MembersAhead = {} BY <2>3, NoneAhead DEF SweepMembersDone
    <3>2. RoomsAhead' = rooms BY <2>3, AllRoomsAhead DEF SweepMembersDone
    <3> QED BY <2>3, <3>1, <3>2 DEF SweepMembersDone
  <2>4. CASE SweepRoom /\ pc' = "sweep_rooms" BY <2>4, RoomsAheadStep DEF SweepRoom
  <2>5. CASE SweepDone BY <2>5, NoneAhead DEF SweepDone
  <2>6. CASE /\ pc \notin {"sweep_members", "sweep_rooms"}
             /\ pc' \notin {"sweep_members", "sweep_rooms"}
    BY <2>6
  <2> QED BY <2>1, <2>2, <2>3, <2>4, <2>5, <2>6, SweepCases
<1> QED BY <1>1, ServedInvHolds, PTL DEF Spec, SweepLooksOnce
=============================================================================
