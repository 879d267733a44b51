----------------------------- MODULE RoomProofs -----------------------------
(***************************************************************************)
(* The rooms, for every number of members and rooms and every limit: the    *)
(* room list and the member list of each room are sound, the counters       *)
(* count, no pointer dangles and no occupied room is freed.  These facts    *)
(* need each other: a wrong count would free a room with members in it, a   *)
(* freed room would leave pointers to it, and the lists of the rooms share  *)
(* their link fields.                                                       *)
(***************************************************************************)
EXTENDS ChatServerProofs

-----------------------------------------------------------------------------
(* The room list. *)

\* A set of rooms is finite, and counts like one.
LEMMA RoomsCount ==
  ASSUME NEW S \in SUBSET Room
  PROVE  /\ Cardinality(S) \in Nat
         /\ Cardinality(S) = 0 <=> S = {}
         /\ \A r \in Room \ S : Cardinality(S \cup {r}) = Cardinality(S) + 1
         /\ \A r \in S : Cardinality(S \ {r}) = Cardinality(S) - 1
<1>1. IsFiniteSet(S) BY ServerAssumption, FS_Subset
<1>2. Cardinality(S) \in Nat BY <1>1, FS_CardinalityType
<1>3. Cardinality(S) = 0 <=> S = {} BY <1>1, FS_EmptySet
<1>4. \A r \in Room \ S : Cardinality(S \cup {r}) = Cardinality(S) + 1 BY <1>1, FS_AddElement
<1>5. \A r \in S : Cardinality(S \ {r}) = Cardinality(S) - 1 BY <1>1, FS_RemoveElement
<1> QED BY <1>2, <1>3, <1>4, <1>5

\* create_room appends to the list, unless the tail is lost.
LEMMA LinkRoomLinks ==
  ASSUME TypeOK, NEW q \in [1..Cardinality(rooms) -> rooms], LinkedAs(q, rooms, room_list),
         ~TailIsLost, NEW r \in Room \ rooms
  PROVE  /\ Extended(q, Cardinality(rooms), r) \in [1..Cardinality(rooms \cup {r}) -> rooms \cup {r}]
         /\ LinkedAs(Extended(q, Cardinality(rooms), r), rooms \cup {r}, LinkRoom(r))
<1> DEFINE n == Cardinality(rooms)
           T == rooms \cup {r}
           L == room_list
           M == LinkRoom(r)
<1>1. /\ q \in [1..n -> rooms] /\ Threads(q, rooms, L.head, L.next)
      /\ L.tail # NULL => rooms # {} /\ L.tail = q[n]
  BY DEF LinkedAs
<1>2. /\ n \in Nat /\ Cardinality(T) = n + 1 /\ (n = 0 <=> rooms = {})
      /\ rooms \subseteq Room /\ NULL \notin Room /\ L \in RoomListType
  BY RoomsCount, ServerAssumption DEF TypeOK
<1> DEFINE p == [i \in 1..(n + 1) |-> IF i = n + 1 THEN r ELSE q[i]]
<1>3. p \in [1..(n + 1) -> T] BY <1>2
<1>4. (\A x \in T : \E i \in 1..(n + 1) : p[i] = x) /\ (\A i, j \in 1..(n + 1) : p[i] = p[j] => i = j)
  BY <1>1, <1>2 DEF Threads
<1>5. M.head = p[1] /\ M.tail = p[n + 1]
  BY <1>1, <1>2 DEF Threads, LinkRoom
<1>6. \A i \in 1..(n + 1) : M.next[p[i]] = IF i = n + 1 THEN NULL ELSE p[i + 1]
  <2>1. CASE n = 0
    <3>1. M.next = [L.next EXCEPT ![r] = NULL] BY <1>1, <1>2, <2>1 DEF Threads, LinkRoom
    <3> QED BY <3>1, <2>1, <1>2 DEF RoomListType
  <2>2. CASE n # 0
    <3>1. L.head # NULL /\ L.tail = q[n] /\ q[n] \in rooms
      BY <1>1, <1>2, <2>2 DEF Threads, TailIsLost
    <3>2. M.next = [[L.next EXCEPT ![r] = NULL] EXCEPT ![L.tail] = r] BY <3>1 DEF LinkRoom
    <3>3. \A x \in Room : M.next[x] = IF x = q[n] THEN r ELSE IF x = r THEN NULL ELSE L.next[x]
      BY <3>1, <3>2, <1>2 DEF RoomListType
    <3>4. \A i \in 1..n : q[i] \in Room /\ q[i] # r /\ (q[i] = q[n] => i = n)
      BY <1>1, <1>2, <2>2 DEF Threads
    <3>5. \A i \in 1..n : L.next[q[i]] = IF i = n THEN NULL ELSE q[i + 1] BY <1>1 DEF Threads
    <3> QED BY <3>3, <3>4, <3>5, <1>2, <2>2
  <2> QED BY <2>1, <2>2
<1> HIDE DEF p, T, M, n
<1>7. Threads(p, T, M.head, M.next) BY <1>2, <1>3, <1>4, <1>5, <1>6 DEF Threads
<1>8. Extended(q, n, r) = p BY DEF Extended, p
<1> QED BY <1>2, <1>3, <1>5, <1>7, <1>8 DEF LinkedAs, T, M, n, p

LEMMA LinkRoomSound ==
  ASSUME TypeOK, RoomListSound, ~TailIsLost, NEW r \in Room \ rooms
  PROVE  Linked(rooms \cup {r}, LinkRoom(r))
BY LinkRoomLinks DEF RoomListSound, Linked

\* remove_room takes a room out wherever it is; the tail is right or lost.
LEMMA UnlinkRoomLinks ==
  ASSUME TypeOK, NEW q \in [1..Cardinality(rooms) -> rooms], LinkedAs(q, rooms, room_list),
         NEW k \in 1..Cardinality(rooms), NEW r, q[k] = r
  PROVE  /\ Skipped(q, Cardinality(rooms), k) \in [1..Cardinality(rooms \ {r}) -> rooms \ {r}]
         /\ LinkedAs(Skipped(q, Cardinality(rooms), k), rooms \ {r}, UnlinkRoom(r))
<1> DEFINE n == Cardinality(rooms)
           T == rooms \ {r}
           L == room_list
           M == UnlinkRoom(r)
<1>1. /\ q \in [1..n -> rooms] /\ Threads(q, rooms, L.head, L.next)
      /\ L.tail # NULL => rooms # {} /\ L.tail = q[n]
  BY DEF LinkedAs
<1>0. r \in rooms OBVIOUS
<1>2. /\ n \in Nat \ {0} /\ Cardinality(T) = n - 1
      /\ rooms \subseteq Room /\ NULL \notin Room /\ L \in RoomListType
  BY <1>0, RoomsCount, ServerAssumption DEF TypeOK
<1>3. k \in 1..n /\ q[k] = r OBVIOUS
<1>4. \A i, j \in 1..n : q[i] = q[j] => i = j BY <1>1 DEF Threads
<1>5. \A i \in 1..n : q[i] \in Room /\ q[i] \in rooms /\ q[i] # NULL BY <1>1, <1>2
<1>6. \A i \in 1..n : L.next[q[i]] = IF i = n THEN NULL ELSE q[i + 1] BY <1>1 DEF Threads
<1>7. L.head = q[1] BY <1>1, <1>2 DEF Threads
<1> DEFINE p == [i \in 1..(n - 1) |-> IF i < k THEN q[i] ELSE q[i + 1]]
<1>8. p \in [1..(n - 1) -> T] BY <1>2, <1>3, <1>4
<1>9. \A x \in T : \E i \in 1..(n - 1) : p[i] = x
  <2> SUFFICES ASSUME NEW x \in T PROVE \E i \in 1..(n - 1) : p[i] = x OBVIOUS
  <2>1. PICK j \in 1..n : q[j] = x BY <1>1 DEF Threads
  <2>2. CASE j < k BY <2>1, <2>2, <1>2
  <2>3. CASE j > k
    <3>1. j - 1 \in 1..(n - 1) /\ p[j - 1] = x BY <2>1, <2>3, <1>2
    <3> QED BY <3>1
  <2> QED BY <2>1, <2>2, <2>3, <1>2, <1>3
<1>10. \A i, j \in 1..(n - 1) : p[i] = p[j] => i = j BY <1>2, <1>4
<1>11. /\ M.head = IF L.head = r THEN L.next[r] ELSE L.head
       /\ M.tail = IF L.next[r] = NULL THEN NULL ELSE L.tail
       /\ \A x \in T : M.next[x] = IF L.next[x] = r /\ L.head # r THEN L.next[r] ELSE L.next[x]
  BY <1>2 DEF UnlinkRoom
<1>12. L.next[r] = IF k = n THEN NULL ELSE q[k + 1] BY <1>3, <1>6
<1>13. M.head = IF n - 1 = 0 THEN NULL ELSE p[1] BY <1>2, <1>3, <1>4, <1>5, <1>7, <1>11, <1>12
<1>14. M.tail # NULL => T # {} /\ M.tail = p[n - 1]
  <2> SUFFICES ASSUME M.tail # NULL PROVE T # {} /\ M.tail = p[n - 1] OBVIOUS
  <2>1. k # n /\ M.tail = q[n] BY <1>1, <1>11, <1>12
  <2>2. n - 1 \in 1..(n - 1) /\ p[n - 1] = q[n] BY <2>1, <1>2
  <2> QED BY <2>1, <2>2, <1>8
<1>15. \A i \in 1..(n - 1) : M.next[p[i]] = IF i = n - 1 THEN NULL ELSE p[i + 1]
  <2> SUFFICES ASSUME NEW i \in 1..(n - 1)
               PROVE  M.next[p[i]] = IF i = n - 1 THEN NULL ELSE p[i + 1]
    OBVIOUS
  <2>0. p[i] \in T BY <1>8
  <2>1. CASE i >= k
    <3>1. i + 1 \in 1..n /\ p[i] = q[i + 1] BY <2>1, <1>2
    <3>2. L.next[q[i + 1]] = IF i + 1 = n THEN NULL ELSE q[i + 2] BY <3>1, <1>6
    <3>3. L.next[q[i + 1]] # r BY <3>1, <3>2, <2>1, <1>2, <1>3, <1>4, <1>5
    <3>4. M.next[p[i]] = L.next[q[i + 1]] BY <3>1, <3>3, <2>0, <1>11
    <3> QED BY <3>2, <3>4, <2>1, <1>2
  <2>2. CASE i = k - 1
    <3>1. p[i] = q[i] /\ L.next[q[i]] = r /\ L.head # r
      BY <2>2, <1>2, <1>3, <1>4, <1>6, <1>7
    <3>2. M.next[p[i]] = L.next[r] BY <3>1, <2>0, <1>11
    <3> QED BY <3>2, <2>2, <1>2, <1>12
  <2>3. CASE i < k - 1
    <3>1. /\ p[i] = q[i] /\ p[i + 1] = q[i + 1] /\ i + 1 \in 1..n /\ i + 1 # k
          /\ L.next[q[i]] = q[i + 1]
      BY <2>3, <1>2, <1>6
    <3>2. L.next[q[i]] # r BY <3>1, <1>3, <1>4
    <3>3. M.next[p[i]] = q[i + 1] BY <3>1, <3>2, <2>0, <1>11
    <3> QED BY <3>1, <3>3, <2>3, <1>2
  <2> QED BY <2>1, <2>2, <2>3, <1>2
<1> HIDE DEF p, T, M, n
<1>16. Threads(p, T, M.head, M.next)
  BY <1>2, <1>8, <1>9, <1>10, <1>13, <1>15 DEF Threads
<1>17. Skipped(q, n, k) = p BY DEF Skipped, p
<1> QED BY <1>2, <1>8, <1>14, <1>16, <1>17 DEF LinkedAs, T, M, n

LEMMA UnlinkRoomSound ==
  ASSUME TypeOK, RoomListSound, NEW r \in rooms
  PROVE  Linked(rooms \ {r}, UnlinkRoom(r))
<1>1. PICK q \in [1..Cardinality(rooms) -> rooms] : LinkedAs(q, rooms, room_list)
  BY DEF RoomListSound, Linked
<1>2. PICK k \in 1..Cardinality(rooms) : q[k] = r BY <1>1 DEF LinkedAs, Threads
<1> QED BY <1>1, <1>2, UnlinkRoomLinks DEF Linked

\* Where a walk of the room list goes: to another room of the list or to NULL.
LEMMA WalkStaysOnRooms ==
  ASSUME TypeOK, RoomListSound
  PROVE  /\ room_list.head \in rooms \cup {NULL}
         /\ \A r \in rooms : room_list.next[r] \in (rooms \ {r}) \cup {NULL}
<1> DEFINE n == Cardinality(rooms)
<1>1. PICK q \in [1..n -> rooms] : Threads(q, rooms, room_list.head, room_list.next)
  BY DEF RoomListSound, Linked, LinkedAs
<1>2. n \in Nat BY RoomsCount DEF TypeOK
<1>3. room_list.head = IF n = 0 THEN NULL ELSE q[1] BY <1>1 DEF Threads
<1>4. \A r \in rooms : room_list.next[r] \in (rooms \ {r}) \cup {NULL}
  <2> SUFFICES ASSUME NEW r \in rooms PROVE room_list.next[r] \in (rooms \ {r}) \cup {NULL} OBVIOUS
  <2>1. PICK i \in 1..n : q[i] = r BY <1>1 DEF Threads
  <2>2. room_list.next[r] = IF i = n THEN NULL ELSE q[i + 1] BY <1>1, <2>1 DEF Threads
  <2>3. i # n => i + 1 \in 1..n /\ q[i + 1] # q[i] BY <1>1, <1>2 DEF Threads
  <2> QED BY <2>1, <2>2, <2>3
<1> QED BY <1>1, <1>2, <1>3, <1>4

-----------------------------------------------------------------------------
(* The inductive invariant. *)

\* total_num_of_rooms counts the list, within its limit.
RoomsCounted ==
  /\ total_num_of_rooms = Cardinality(rooms)
  /\ Cardinality(rooms) <= MAX_NUM_OF_ROOMS

\* The sweep of the rooms stands on a room or past the last one.
SweepOnRoom == pc = "sweep_rooms" => cursor \in rooms \cup {NULL}

\* A member is in a room that has not been freed, or in none.
InLiveRoom == \A m \in members : member[m].current_room \in rooms \cup {NULL}

\* num_of_members counts the occupants, within the limit.
OccupantsCounted ==
  \A r \in rooms : /\ room[r].num_of_members = Cardinality(Occupants(r))
                   /\ Cardinality(Occupants(r)) <= MAX_NUM_OF_MEMBERS_PER_ROOM

\* A broadcast is to the room of a sender that is still a member.
SendingInRoom ==
  pc = "broadcast" => /\ mt \in members /\ member[mt].current_room \in rooms
                      /\ cursor \in Occupants(member[mt].current_room) \cup {NULL}

\* None of the parts about rooms is inductive alone: a room is freed on its count,
\* which is right because the lists are, which are because no room is freed that
\* has members.
RoomInv ==
  /\ SessionInv
  /\ RoomListSound /\ RoomsCounted /\ SweepOnRoom
  /\ InLiveRoom /\ RostersSound /\ OccupantsCounted /\ EmptyFlagMeansEmpty
  /\ SendingInRoom /\ BroadcastFollowsRoll

-----------------------------------------------------------------------------
(* The member lists of the rooms. *)

\* The rooms' lists share nothing: nobody is in two of them.
LEMMA OccupantsApart ==
  ASSUME NEW r, NEW s, r # s
  PROVE  Occupants(r) \cap Occupants(s) = {}
BY DEF Occupants

\* What the lists of the other rooms see of an operation on the list of r.
LEMMA OtherRoomList ==
  ASSUME NEW R \in RosterType, NEW r \in Room, NEW L \in DListType, NEW s \in Room \ {r}
  PROVE  /\ RoomList(SetRoomList(R, r, L), s).head = RoomList(R, s).head
         /\ RoomList(SetRoomList(R, r, L), s).tail = RoomList(R, s).tail
         /\ RoomList(SetRoomList(R, r, L), s).next = L.next
         /\ RoomList(SetRoomList(R, r, L), s).prev = L.prev
BY DEF RoomList, SetRoomList, RosterType

\* And what the list of r itself is.
LEMMA OwnRoomList ==
  ASSUME NEW R \in RosterType, NEW r \in Room, NEW L \in DListType
  PROVE  RoomList(SetRoomList(R, r, L), r) = L
BY DEF RoomList, SetRoomList, RosterType, DListType

\* A member that leaves its room is off the list, and all lists are sound.
LEMMA LeaveRoomOrders ==
  ASSUME TypeOK, RostersSound, InLiveRoom, NEW m \in members, NEW s \in rooms,
         NEW q \in [1..Cardinality(Occupants(s)) -> Occupants(s)],
         Orders(q, Occupants(s), RoomList(roster, s))
  PROVE  LET p == Dropped(q, Cardinality(Occupants(s)), m)
             T == Occupants(s) \ {m}
         IN  p \in [1..Cardinality(T) -> T] /\ Orders(p, T, RoomList(LeaveRoom(m), s))
<1> DEFINE r == member[m].current_room
           S == Occupants(s)
           n == Cardinality(S)
           p == Dropped(q, n, m)
<1>1. /\ roster \in RosterType /\ rooms \subseteq Room /\ s \in Room /\ m \in Member
      /\ S \in SUBSET Member
  BY DEF TypeOK, Occupants
<1>2. Orders(q, S, RoomList(roster, s)) OBVIOUS
<1>3. m \notin S => p = q /\ S \ {m} = S BY DEF Dropped
<1>4. m \in S => \E k \in 1..n : q[k] = m /\ p = Skipped(q, n, k)
  BY <1>2 DEF Orders, Threads, Dropped
<1> HIDE DEF p
<1>5. CASE r = NULL
  <2>1. s # NULL BY <1>1, ServerAssumption
  <2>2. m \notin S BY <1>5, <2>1 DEF Occupants
  <2> QED BY <1>2, <1>3, <1>5, <2>2 DEF LeaveRoom, p
<1>6. CASE r # NULL
  <2> DEFINE L == RoomList(roster, r)
  <2>1. r \in rooms /\ r \in Room /\ m \in Occupants(r) /\ Occupants(r) \in SUBSET Member
    BY <1>1, <1>6 DEF InLiveRoom, Occupants, TypeOK
  <2>2. Ordered(Occupants(r), L) /\ L \in DListType BY <1>1, <2>1, RoomAsListType DEF RostersSound
  <2>3. Unlink(L, m) \in DListType BY <1>1, <2>2, UnlinkType
  <2>4. LeaveRoom(m) = SetRoomList(roster, r, Unlink(L, m)) BY <1>6 DEF LeaveRoom
  <2>5. CASE s = r
    <3>1. PICK k \in 1..n : q[k] = m /\ p = Skipped(q, n, k) BY <1>4, <2>1, <2>5
    <3>2. p \in [1..Cardinality(S \ {m}) -> S \ {m}] /\ Orders(p, S \ {m}, Unlink(L, m))
      BY <1>1, <1>2, <2>2, <2>5, <3>1, UnlinkOrders
    <3> QED BY <1>1, <2>1, <2>3, <2>4, <2>5, <3>2, OwnRoomList DEF p
  <2>6. CASE s # r
    <3>1. S \cap Occupants(r) = {} BY <2>6, OccupantsApart
    <3>2. S \ {m} = S /\ p = q BY <1>3, <2>1, <3>1
    <3>3. \A x \in S : /\ Unlink(L, m).next[x] = L.next[x]
                       /\ Unlink(L, m).prev[x] = L.prev[x]
      <4> DEFINE R == Occupants(r)
      <4>1. R \in SUBSET Member /\ m \in R /\ Ordered(R, L) /\ L \in DListType BY <2>1, <2>2
      <4>2. \A x \in S : x \in Member \ R BY <1>1, <3>1
      <4> HIDE DEF R, L, S
      <4> QED BY <4>1, <4>2, UnlinkFrame
    <3>4. L.next = RoomList(roster, s).next /\ L.prev = RoomList(roster, s).prev BY DEF RoomList
    <3> DEFINE K == RoomList(LeaveRoom(m), s)
    <3>5. /\ K.head = RoomList(roster, s).head /\ K.tail = RoomList(roster, s).tail
          /\ K.next = Unlink(L, m).next /\ K.prev = Unlink(L, m).prev
      BY <1>1, <2>1, <2>3, <2>4, <2>6, OtherRoomList
    <3> HIDE DEF K, S, L
    <3>6. q \in [1..Cardinality(S) -> S] BY DEF S
    <3>7. Orders(q, S, K) BY <1>2, <3>3, <3>4, <3>5, <3>6, OrdersFrame
    <3> QED BY <3>2, <3>6, <3>7 DEF K, S, p
  <2> QED BY <2>5, <2>6
<1> QED BY <1>5, <1>6

LEMMA LeaveRoomSound ==
  ASSUME TypeOK, RostersSound, InLiveRoom, NEW m \in members, NEW s \in rooms
  PROVE  Ordered(Occupants(s) \ {m}, RoomList(LeaveRoom(m), s))
BY LeaveRoomOrders DEF RostersSound, Ordered

\* A member that switches is on the list of the room it enters and on no other.
LEMMA EnterRoomOrders ==
  ASSUME TypeOK, RostersSound, InLiveRoom, NEW m \in members, NEW r \in rooms,
         member[m].current_room # r, NEW s \in rooms,
         NEW q \in [1..Cardinality(Occupants(s)) -> Occupants(s)],
         Orders(q, Occupants(s), RoomList(roster, s))
  PROVE  LET n == Cardinality(Occupants(s))
             p == IF s = r THEN Extended(q, n, m) ELSE Dropped(q, n, m)
             T == IF s = r THEN Occupants(r) \cup {m} ELSE Occupants(s) \ {m}
         IN  p \in [1..Cardinality(T) -> T] /\ Orders(p, T, RoomList(EnterRoom(m, r), s))
<1> DEFINE R == LeaveRoom(m)
           L == RoomList(R, r)
           M == LinkTail(ClearLinks(L, m), m)
           S == Occupants(r)
           n == Cardinality(Occupants(s))
<1>1. /\ r \in Room /\ s \in Room /\ m \in Member
      /\ S \in SUBSET Member /\ Occupants(s) \in SUBSET Member
  BY DEF TypeOK, Occupants
<1>2. m \notin S BY DEF Occupants
<1>3. R \in RosterType /\ L \in DListType BY <1>1, LeaveRoomType, RoomAsListType
<1>4. M \in DListType BY <1>1, <1>3, ClearLinksType, LinkTailType
<1>5. EnterRoom(m, r) = SetRoomList(R, r, M) BY DEF EnterRoom
<1>6. CASE s = r
  <2>1. S \ {m} = S /\ Dropped(q, n, m) = q BY <1>2, <1>6 DEF Dropped
  <2>2. Orders(q, S, L)
    <3>1. Orders(Dropped(q, n, m), Occupants(s) \ {m}, RoomList(LeaveRoom(m), s))
      BY LeaveRoomOrders
    <3> QED BY <3>1, <2>1, <1>6
  <2> DEFINE p == Extended(q, n, m)
             T == S \cup {m}
  <2>3. p \in [1..Cardinality(T) -> T] /\ Orders(p, T, M)
    BY <1>1, <1>2, <1>3, <1>6, <2>2, LinkTailOrders
  <2> HIDE DEF p, T, S, M
  <2>4. p \in [1..Cardinality(T) -> T] /\ Orders(p, T, RoomList(EnterRoom(m, r), s))
    BY <1>1, <1>3, <1>4, <1>5, <1>6, <2>3, OwnRoomList
  <2> QED BY <1>6, <2>4 DEF p, T, S
<1>7. CASE s # r
  <2> DEFINE p == Dropped(q, n, m)
             T == Occupants(s) \ {m}
             J == RoomList(R, s)
             K == RoomList(EnterRoom(m, r), s)
  <2>1. p \in [1..Cardinality(T) -> T] /\ Orders(p, T, J) BY LeaveRoomOrders
  <2>2. T \cap (S \cup {m}) = {} BY <1>7, OccupantsApart
  <2>3. Ordered(S, L)
    <3>1. S \ {m} = S BY <1>2
    <3>2. Ordered(S \ {m}, L) BY LeaveRoomSound
    <3> HIDE DEF S, L
    <3> QED BY <3>1, <3>2
  <2>4. \A x \in T : M.next[x] = L.next[x] /\ M.prev[x] = L.prev[x]
    BY <1>1, <1>2, <1>3, <2>2, <2>3, LinkTailFrame
  <2>5. L.next = J.next /\ L.prev = J.prev BY DEF RoomList
  <2>6. K.head = J.head /\ K.tail = J.tail /\ K.next = M.next /\ K.prev = M.prev
    BY <1>1, <1>3, <1>4, <1>5, <1>7, OtherRoomList
  <2> HIDE DEF p, T, J, K, L, M
  <2>7. Orders(p, T, K) BY <2>1, <2>4, <2>5, <2>6, OrdersFrame
  <2> QED BY <1>7, <2>1, <2>7 DEF p, T, K
<1> QED BY <1>6, <1>7

LEMMA EnterRoomSound ==
  ASSUME TypeOK, RostersSound, InLiveRoom, NEW m \in members, NEW r \in rooms,
         member[m].current_room # r, NEW s \in rooms
  PROVE  Ordered(IF s = r THEN Occupants(r) \cup {m} ELSE Occupants(s) \ {m},
                 RoomList(EnterRoom(m, r), s))
BY EnterRoomOrders DEF RostersSound, Ordered

\* remove_member blanks the links of the member too.
LEMMA RemovalOrders ==
  ASSUME TypeOK, RostersSound, InLiveRoom, NEW m \in members, NEW s \in rooms,
         NEW q \in [1..Cardinality(Occupants(s)) -> Occupants(s)],
         Orders(q, Occupants(s), RoomList(roster, s))
  PROVE  LET p == Dropped(q, Cardinality(Occupants(s)), m)
             T == Occupants(s) \ {m}
         IN  p \in [1..Cardinality(T) -> T] /\ Orders(p, T, RoomList(RosterAfterRemoval(m), s))
<1> DEFINE p == Dropped(q, Cardinality(Occupants(s)), m)
           T == Occupants(s) \ {m}
           J == RoomList(LeaveRoom(m), s)
           K == RoomList(RosterAfterRemoval(m), s)
<1>1. p \in [1..Cardinality(T) -> T] /\ Orders(p, T, J) BY LeaveRoomOrders
<1>2. LeaveRoom(m) \in RosterType /\ T \subseteq Member \ {m}
  BY LeaveRoomType DEF TypeOK, Occupants
<1>3. /\ K.head = J.head /\ K.tail = J.tail
      /\ \A x \in T : K.next[x] = J.next[x] /\ K.prev[x] = J.prev[x]
  BY <1>2 DEF RosterAfterRemoval, RoomList, RosterType
<1> HIDE DEF p, T, J, K
<1>4. Orders(p, T, K) BY <1>1, <1>3, OrdersFrame
<1> QED BY <1>1, <1>4 DEF p, T, K

LEMMA RemovalSound ==
  ASSUME TypeOK, RostersSound, InLiveRoom, NEW m \in members, NEW s \in rooms
  PROVE  Ordered(Occupants(s) \ {m}, RoomList(RosterAfterRemoval(m), s))
BY RemovalOrders DEF RostersSound, Ordered

\* A room with an empty list leaves the lists of the other rooms alone.
LEMMA RosterClearedSound ==
  ASSUME TypeOK, NEW r \in Room, NEW S, NEW s \in Room
  PROVE  /\ Ordered({}, RoomList(RosterCleared(r), r))
         /\ s # r /\ Ordered(S, RoomList(roster, s)) => Ordered(S, RoomList(RosterCleared(r), s))
<1> DEFINE K(x) == RoomList(RosterCleared(r), x)
<1>1. K(r).head = NULL /\ K(r).tail = NULL
  BY DEF RosterCleared, RoomList, SetRoomList, TypeOK, RosterType
<1>2. s # r => K(s) = RoomList(roster, s)
  BY DEF RosterCleared, RoomList, SetRoomList, TypeOK, RosterType
<1>3. Ordered({}, K(r)) BY <1>1, EmptySound
<1> QED BY <1>2, <1>3

-----------------------------------------------------------------------------
(* What a step does to the rooms and who is in them. *)

\* The rooms are as they were, and so is the room of everybody; who comes comes
\* into no room.
RoomsKept ==
  /\ UNCHANGED <<roomVars, roster>>
  /\ members \subseteq members'
  /\ \A m \in members' : member'[m].current_room =
                           IF m \in members THEN member[m].current_room ELSE NULL

\* Everybody is in the room it was in.
PlacesKept ==
  /\ members' = members
  /\ \A m \in members : member'[m].current_room = member[m].current_room

\* A step keeps the rooms, removes a member, moves one, adds a room or sweeps one.
LEMMA RoomCases ==
  ASSUME RoomInv, [Next]_vars
  PROVE  \/ RoomsKept
         \/ \E m \in members : RemoveMember(m)
         \/ \E m \in members, r \in rooms : SwitchRoom(m, r)
         \/ \E name \in RoomName \cup LongName : AddRoom(name) /\ PlacesKept
         \/ SweepRoom
<1> USE DEF RoomInv, SessionInv, sessionVars
<1>1. \A m, x \in Member : Heard(m)[x].current_room = member[x].current_room
  BY DEF Heard, TypeOK, MemberType
<1>2. ASSUME PlacesKept, UNCHANGED <<roomVars, roster>> PROVE RoomsKept
  BY <1>2 DEF PlacesKept, RoomsKept
<1>3. ASSUME UNCHANGED sessionVars PROVE PlacesKept BY <1>3 DEF PlacesKept
<1>4. ASSUME NEW m \in Member, member' = Heard(m), members' = members PROVE PlacesKept
  BY <1>1, <1>4 DEF PlacesKept, TypeOK
<1>5. ASSUME NEW name \in RoomName, InitRoom(name) PROVE AddRoom(name) /\ PlacesKept
  BY <1>3, <1>5 DEF InitRoom
<1>6. CASE SweepMember
  <2>1. CASE IsQuiet(cursor) BY <1>6, <2>1 DEF SweepMember, SweepOnMember
  <2>2. CASE ~IsQuiet(cursor)
    <3>1. PlacesKept BY <1>6, <2>2 DEF SweepMember, PlacesKept, TypeOK, MemberType
    <3> QED BY <1>2, <1>6, <2>2, <3>1 DEF SweepMember
  <2> QED BY <2>1, <2>2
<1>7. CASE InitDone \/ SweepMembersDone \/ SweepDone \/ Deliver \/ DeliverFail \/ DeliverDone
  BY <1>2, <1>3, <1>7 DEF InitDone, SweepMembersDone, SweepDone, Deliver, DeliverFail,
                          DeliverDone, EndBroadcast
<1>8. ASSUME NEW m \in Member, ControlRequest(m)
      PROVE  \/ RoomsKept
             \/ \E x \in members : RemoveMember(x)
             \/ \E x \in members, r \in rooms : SwitchRoom(x, r)
             \/ \E name \in RoomName \cup LongName : AddRoom(name) /\ PlacesKept
  <2>1. CASE Quit(m) BY <2>1 DEF Quit, Request
  <2>2. ASSUME NEW r \in Room, SwitchRoom(m, r) PROVE m \in members /\ r \in rooms
    BY <2>2 DEF SwitchRoom, Request
  <2>3. CASE KeepAlive(m) \/ RoomListRequest(m)
    BY <1>2, <1>4, <2>3 DEF KeepAlive, RoomListRequest
  <2>4. ASSUME NEW name \in RoomName \cup LongName, CreateRoom(m, name)
        PROVE  AddRoom(name) /\ PlacesKept
    BY <1>4, <2>4 DEF CreateRoom
  <2>5. ASSUME NEW name, CreateRoomRefused(m, name) \/ CreateRoomCrash(m, name) PROVE RoomsKept
    BY <1>2, <1>4, <2>5 DEF CreateRoomRefused, CreateRoomCrash
  <2>6. ASSUME NEW name, SwitchRefused(m, name) \/ MemberListRequest(m, name) PROVE RoomsKept
    BY <1>2, <1>4, <2>6 DEF SwitchRefused, MemberListRequest
  <2> QED BY <1>8, <2>1, <2>2, <2>3, <2>4, <2>5, <2>6 DEF ControlRequest
<1>9. ASSUME NEW m \in Member, ChatMessage(m) \/ ChatMessageDropped(m) PROVE RoomsKept
  BY <1>2, <1>4, <1>9 DEF ChatMessage, ChatMessageDropped
<1>10. ASSUME NEW name, RegisterRefused(name) PROVE RoomsKept
  BY <1>2, <1>3, <1>10 DEF RegisterRefused
<1>11. ASSUME NEW m \in Member, NEW name, NEW id, Register(m, name, id) PROVE RoomsKept
  BY <1>11 DEF Register, RoomsKept, TypeOK
<1>12. ASSUME NEW type, NEW id, InvalidId(type, id) PROVE RoomsKept
  BY <1>2, <1>3, <1>12 DEF InvalidId
<1>13. CASE SweepStart \/ UNCHANGED vars BY <1>2, <1>3, <1>13 DEF SweepStart, vars
<1> QED BY <1>5, <1>6, <1>7, <1>8, <1>9, <1>10, <1>11, <1>12, <1>13 DEF Next, ServerStep

\* The part of the invariant that is about the tables.
RoomTables ==
  RoomListSound /\ RoomsCounted /\ InLiveRoom /\ RostersSound /\ OccupantsCounted /\ EmptyFlagMeansEmpty

\* A step that leaves the rooms alone keeps it, a registration included.
LEMMA KeptTables ==
  ASSUME RoomInv, RoomsKept
  PROVE  RoomTables'
<1> USE DEF RoomInv, SessionInv, RoomsKept, roomVars
<1>1. \A r \in rooms : Occupants(r)' = Occupants(r)
  <2> SUFFICES ASSUME NEW r \in rooms PROVE Occupants(r)' = Occupants(r) OBVIOUS
  <2>1. r # NULL BY ServerAssumption DEF TypeOK
  <2> QED BY <2>1 DEF Occupants
<1>2. RoomListSound' /\ RoomsCounted' BY DEF RoomListSound, RoomsCounted
<1>3. InLiveRoom' BY DEF InLiveRoom
<1>4. RostersSound' BY <1>1 DEF RostersSound
<1>5. OccupantsCounted' /\ EmptyFlagMeansEmpty' BY <1>1 DEF OccupantsCounted, EmptyFlagMeansEmpty
<1> QED BY <1>2, <1>3, <1>4, <1>5 DEF RoomTables

\* The count of the room m leaves is one less, and no other count changes.
LEMMA CountsLeft ==
  ASSUME TypeOK, InLiveRoom, OccupantsCounted, NEW m \in members, NEW s \in rooms
  PROVE  /\ CountsAfterLeaving(m)[s].num_of_members = Cardinality(Occupants(s) \ {m})
         /\ CountsAfterLeaving(m)[s].empty_flag = room[s].empty_flag
         /\ Cardinality(Occupants(s) \ {m}) <= MAX_NUM_OF_MEMBERS_PER_ROOM
<1> DEFINE r == member[m].current_room
           n == Cardinality(Occupants(s))
<1>1. /\ Occupants(s) \in SUBSET Member /\ s \in Room /\ room \in [Room -> RoomType]
      /\ s # NULL /\ MAX_NUM_OF_MEMBERS_PER_ROOM \in Nat
  BY ServerAssumption DEF TypeOK, Occupants
<1>2. n \in Nat BY <1>1, NodesCount
<1>3. room[s].num_of_members = n /\ n <= MAX_NUM_OF_MEMBERS_PER_ROOM BY DEF OccupantsCounted
<1>4. CASE r = s
  <2>1. m \in Occupants(s) BY <1>4 DEF Occupants
  <2>2. Cardinality(Occupants(s) \ {m}) = n - 1 BY <1>1, <2>1, NodesCount
  <2>3. /\ CountsAfterLeaving(m)[s].num_of_members = room[s].num_of_members - 1
        /\ CountsAfterLeaving(m)[s].empty_flag = room[s].empty_flag
    BY <1>1, <1>4 DEF CountsAfterLeaving, RoomType
  <2> QED BY <1>1, <1>2, <1>3, <2>2, <2>3
<1>5. CASE r # s
  <2>1. Occupants(s) \ {m} = Occupants(s) BY <1>5 DEF Occupants
  <2>2. CountsAfterLeaving(m)[s] = room[s] BY <1>1, <1>5 DEF CountsAfterLeaving
  <2> QED BY <1>3, <2>1, <2>2
<1> QED BY <1>4, <1>5

\* A member is removed: from its room's list and count, and from no other.
LEMMA RemovalTables ==
  ASSUME RoomInv, NEW m \in members, RemoveMember(m)
  PROVE  RoomTables'
<1> USE DEF RoomInv, SessionInv, RemoveMember
<1>1. \A x \in members' : x \in members /\ x # m /\ member'[x] = member[x] BY DEF TypeOK
<1>2. \A r \in rooms : Occupants(r)' = Occupants(r) \ {m} BY <1>1 DEF Occupants, TypeOK
<1>3. RoomListSound' /\ RoomsCounted' BY DEF RoomListSound, RoomsCounted
<1>4. InLiveRoom' BY <1>1 DEF InLiveRoom
<1>5. RostersSound' BY <1>2, RemovalSound DEF RostersSound
<1>6. OccupantsCounted'
  <2>1. rooms' = rooms /\ room' = CountsAfterLeaving(m) OBVIOUS
  <2> QED BY <1>2, <2>1, CountsLeft DEF OccupantsCounted
<1>7. EmptyFlagMeansEmpty' BY <1>2, CountsLeft DEF EmptyFlagMeansEmpty
<1> QED BY <1>3, <1>4, <1>5, <1>6, <1>7 DEF RoomTables

\* A member switches rooms.
LEMMA SwitchTables ==
  ASSUME RoomInv, NEW m \in members, NEW r \in rooms, SwitchRoom(m, r)
  PROVE  RoomTables'
<1> USE DEF RoomInv, SessionInv
<1> DEFINE now(s) == IF s = r THEN Occupants(r) \cup {m} ELSE Occupants(s) \ {m}
           counts == CountsAfterLeaving(m)
<1>1. /\ members' = members /\ rooms' = rooms /\ m \in Member /\ rooms \subseteq Room
      /\ member[m].current_room # r /\ room[r].num_of_members # MAX_NUM_OF_MEMBERS_PER_ROOM
      /\ roster' = EnterRoom(m, r) /\ room' = RoomEntered(r, counts)
  BY DEF SwitchRoom, IsFull, TypeOK
<1>2. \A x \in members : member'[x].current_room = IF x = m THEN r ELSE member[x].current_room
  BY HeardType DEF SwitchRoom, Heard, TypeOK, MemberType
<1>3. \A s \in rooms : Occupants(s)' = now(s) BY <1>1, <1>2 DEF Occupants
<1>4. RoomListSound' /\ RoomsCounted' BY DEF SwitchRoom, RoomListSound, RoomsCounted
<1>5. InLiveRoom' BY <1>1, <1>2 DEF InLiveRoom
<1>6. RostersSound'
  <2>1. \A s \in rooms : Ordered(now(s), RoomList(roster', s)) BY <1>1, EnterRoomSound
  <2>2. \A s \in rooms : Ordered(Occupants(s)', RoomList(roster', s)) BY <1>3, <2>1
  <2> QED BY <1>1, <2>2 DEF RostersSound
<1>7. counts \in [Room -> RoomType] BY <1>1, CountsAfterLeavingType
<1>8. m \notin Occupants(r) /\ Occupants(r) \in SUBSET Member BY <1>1 DEF Occupants, TypeOK
<1>9. /\ Cardinality(now(r)) = Cardinality(Occupants(r)) + 1
      /\ Cardinality(Occupants(r)) \in Nat
  BY <1>1, <1>8, NodesCount
<1>10. /\ room'[r].num_of_members = counts[r].num_of_members + 1 /\ room'[r].empty_flag = 0
       /\ \A s \in rooms \ {r} : room'[s] = counts[s]
  <2> HIDE DEF counts
  <2> QED BY <1>1, <1>7 DEF RoomEntered, RoomType
<1>11. counts[r].num_of_members = Cardinality(Occupants(r))
  <2>1. Occupants(r) \ {m} = Occupants(r) BY <1>8
  <2> QED BY <2>1, CountsLeft
<1>12. Cardinality(Occupants(r)) + 1 <= MAX_NUM_OF_MEMBERS_PER_ROOM
  BY <1>1, <1>9, ServerAssumption DEF OccupantsCounted
<1>13. OccupantsCounted'
  <2> SUFFICES ASSUME NEW s \in rooms
               PROVE  /\ room'[s].num_of_members = Cardinality(now(s))
                      /\ Cardinality(now(s)) <= MAX_NUM_OF_MEMBERS_PER_ROOM
    BY <1>1, <1>3 DEF OccupantsCounted
  <2>1. CASE s = r BY <1>9, <1>10, <1>11, <1>12, <2>1
  <2>2. CASE s # r BY <1>10, <2>2, CountsLeft
  <2> QED BY <2>1, <2>2
<1>14. EmptyFlagMeansEmpty'
  <2> SUFFICES ASSUME NEW s \in rooms, room'[s].empty_flag = 1 PROVE now(s) = {}
    BY <1>1, <1>3 DEF EmptyFlagMeansEmpty
  <2>1. s # r BY <1>10
  <2>2. room[s].empty_flag = 1 BY <1>10, <2>1, CountsLeft
  <2> QED BY <2>1, <2>2 DEF EmptyFlagMeansEmpty
<1> QED BY <1>4, <1>5, <1>6, <1>13, <1>14 DEF RoomTables

\* A room is created: a new one, with nobody in it.
LEMMA AddTables ==
  ASSUME RoomInv, NEW name \in RoomName \cup LongName, AddRoom(name), PlacesKept
  PROVE  RoomTables'
<1> USE DEF RoomInv, SessionInv, PlacesKept
<1>1. PICK r \in Room \ rooms :
        /\ rooms' = rooms \cup {r}
        /\ room' = [room EXCEPT ![r] = [BlankRoom EXCEPT !.room_name = name]]
        /\ room_list' = LinkRoom(r)
        /\ roster' = RosterCleared(r)
  BY DEF AddRoom
<1>2. /\ rooms \subseteq Room /\ room'[r].num_of_members = 0
      /\ \A s \in rooms : room'[s] = room[s] /\ s # r
  BY <1>1 DEF TypeOK, BlankRoom
<1>3. \A s \in rooms : Occupants(s)' = Occupants(s)
  BY DEF Occupants, InLiveRoom
<1>4. Occupants(r)' = {} BY <1>1, ServerAssumption DEF Occupants, InLiveRoom
<1>5. RoomListSound' BY <1>1, LinkRoomSound DEF RoomListSound, AddRoom
<1>6. RoomsCounted'
  <2>1. Cardinality(rooms \cup {r}) = Cardinality(rooms) + 1 /\ Cardinality(rooms) \in Nat
    BY <1>1, <1>2, RoomsCount
  <2>2. total_num_of_rooms # MAX_NUM_OF_ROOMS /\ MAX_NUM_OF_ROOMS \in Int
    BY ServerAssumption DEF AddRoom, create_room
  <2>3. total_num_of_rooms' = total_num_of_rooms + 1 BY DEF AddRoom
  <2>4. RoomsCounted OBVIOUS
  <2> HIDE DEF RoomInv, SessionInv
  <2> QED BY <1>1, <2>1, <2>2, <2>3, <2>4 DEF RoomsCounted
<1>7. InLiveRoom' BY <1>1 DEF InLiveRoom
<1>8. RostersSound'
  <2>1. Ordered(Occupants(r)', RoomList(roster', r)) BY <1>1, <1>4, RosterClearedSound
  <2>2. ASSUME NEW s \in rooms PROVE Ordered(Occupants(s)', RoomList(roster', s))
    BY <1>1, <1>2, <1>3, RosterClearedSound DEF RostersSound
  <2> QED BY <1>1, <2>1, <2>2 DEF RostersSound
<1>9. OccupantsCounted'
  <2> DEFINE Counted(s) == /\ room'[s].num_of_members = Cardinality(Occupants(s)')
                           /\ Cardinality(Occupants(s)') <= MAX_NUM_OF_MEMBERS_PER_ROOM
  <2>1. Counted(r) BY <1>2, <1>4, FS_EmptySet, ServerAssumption
  <2>2. ASSUME NEW s \in rooms PROVE Counted(s) BY <1>2, <1>3 DEF OccupantsCounted
  <2>3. \A s \in rooms' : Counted(s) BY <1>1, <2>1, <2>2
  <2> QED BY <2>3 DEF OccupantsCounted
<1>10. EmptyFlagMeansEmpty' BY <1>1, <1>2, <1>3, <1>4 DEF EmptyFlagMeansEmpty
<1> QED BY <1>5, <1>6, <1>7, <1>8, <1>9, <1>10 DEF RoomTables

\* The sweep of the rooms: a room that is freed has nobody in it.
LEMMA SweepTables ==
  ASSUME RoomInv, SweepRoom
  PROVE  RoomTables'
<1> USE DEF RoomInv, SessionInv
<1>1. /\ cursor \in rooms /\ rooms \subseteq Room /\ members' = members /\ member' = member
      /\ NULL \notin Room /\ members \subseteq Member
  BY ServerAssumption DEF SweepRoom, SweepOnRoom, TypeOK, sessionVars
<1>2. \A s : Occupants(s)' = Occupants(s) BY <1>1 DEF Occupants
<1>3. IsVacant(cursor) => Occupants(cursor) = {}
  BY <1>1, NodesCount DEF IsVacant, OccupantsCounted, Occupants
<1>4. CASE UNCHANGED <<roomVars, roster>>
  BY <1>1, <1>2, <1>4 DEF roomVars, RoomTables, RoomListSound, RoomsCounted, InLiveRoom,
                          RostersSound, OccupantsCounted, EmptyFlagMeansEmpty
<1>5. CASE /\ IsVacant(cursor) /\ room' = [room EXCEPT ![cursor].empty_flag = 1]
           /\ UNCHANGED <<rooms, room_list, total_num_of_rooms, roster>>
  <2>1. \A s \in rooms : /\ room'[s].num_of_members = room[s].num_of_members
                         /\ s # cursor => room'[s] = room[s]
    BY <1>1, <1>5 DEF TypeOK, RoomType
  <2>2. OccupantsCounted' BY <1>2, <1>5, <2>1 DEF OccupantsCounted
  <2>3. EmptyFlagMeansEmpty' BY <1>2, <1>3, <1>5, <2>1 DEF EmptyFlagMeansEmpty
  <2>4. RoomListSound' /\ RoomsCounted' /\ InLiveRoom' /\ RostersSound'
    BY <1>1, <1>2, <1>5 DEF RoomListSound, RoomsCounted, InLiveRoom, RostersSound
  <2> QED BY <2>2, <2>3, <2>4 DEF RoomTables
<1>6. CASE /\ IsVacant(cursor) /\ rooms' = rooms \ {cursor}
           /\ room' = [room EXCEPT ![cursor] = BlankRoom] /\ room_list' = UnlinkRoom(cursor)
           /\ total_num_of_rooms' = total_num_of_rooms - 1 /\ roster' = RosterCleared(cursor)
  <2>1. \A s \in rooms' : s \in rooms /\ s # cursor /\ room'[s] = room[s]
    BY <1>1, <1>6 DEF TypeOK
  <2>2. RoomListSound' BY <1>1, <1>6, UnlinkRoomSound DEF RoomListSound
  <2>3. RoomsCounted'
    <3>1. /\ Cardinality(rooms \ {cursor}) = Cardinality(rooms) - 1
          /\ Cardinality(rooms) \in Nat /\ MAX_NUM_OF_ROOMS \in Int
      BY <1>1, RoomsCount, ServerAssumption
    <3> QED BY <1>6, <3>1 DEF RoomsCounted
  <2>4. InLiveRoom' BY <1>1, <1>3, <1>6 DEF InLiveRoom, Occupants
  <2>5. RostersSound' BY <1>1, <1>2, <1>6, <2>1, RosterClearedSound DEF RostersSound
  <2>6. OccupantsCounted' /\ EmptyFlagMeansEmpty'
    BY <1>2, <2>1 DEF OccupantsCounted, EmptyFlagMeansEmpty
  <2> QED BY <2>2, <2>3, <2>4, <2>5, <2>6 DEF RoomTables
<1> QED BY <1>4, <1>5, <1>6 DEF SweepRoom

\* Every step keeps the tables of the rooms.
LEMMA RoomTablesStep ==
  ASSUME RoomInv, [Next]_vars
  PROVE  RoomTables'
BY RoomCases, KeptTables, RemovalTables, SwitchTables, AddTables, SweepTables

-----------------------------------------------------------------------------
(* Where the loops stand. *)

\* The sweep of the rooms goes on to another room, which is still there when the
\* first is freed.
LEMMA SweepOnRoomStep ==
  ASSUME RoomInv, [Next]_vars
  PROVE  SweepOnRoom'
<1> USE DEF RoomInv, SessionInv, SweepOnRoom
<1>1. /\ room_list.head \in rooms \cup {NULL}
      /\ \A r \in rooms : room_list.next[r] \in (rooms \ {r}) \cup {NULL}
  BY WalkStaysOnRooms
<1>2. CASE SweepRoom
  <2>1. cursor \in rooms BY <1>2 DEF SweepRoom
  <2>2. cursor' \in (rooms \ {cursor}) \cup {NULL} BY <1>1, <1>2, <2>1 DEF SweepRoom, NextRoom
  <2>3. rooms' \in {rooms, rooms \ {cursor}} BY <1>2 DEF SweepRoom, roomVars
  <2> QED BY <2>2, <2>3
<1>3. CASE SweepMembersDone BY <1>1, <1>3 DEF SweepMembersDone, roomVars
<1>4. CASE UNCHANGED vars BY <1>4 DEF vars, roomVars, loopVars
<1>5. CASE ~SweepRoom /\ ~SweepMembersDone /\ ~UNCHANGED vars
  <2> USE DEF Serving, Request, loopVars
  <2>1. ASSUME NEW m \in Member, ControlRequest(m) PROVE pc' # "sweep_rooms"
    <3>1. CASE Quit(m) \/ KeepAlive(m) \/ RoomListRequest(m)
      BY <3>1 DEF Quit, KeepAlive, RoomListRequest
    <3>2. ASSUME NEW name, CreateRoom(m, name) \/ CreateRoomRefused(m, name) \/ CreateRoomCrash(m, name)
          PROVE  pc' # "sweep_rooms"
      BY <3>2 DEF CreateRoom, CreateRoomRefused, CreateRoomCrash
    <3>3. ASSUME NEW name, SwitchRefused(m, name) \/ MemberListRequest(m, name)
          PROVE  pc' # "sweep_rooms"
      BY <3>3 DEF SwitchRefused, MemberListRequest
    <3>4. ASSUME NEW r, SwitchRoom(m, r) PROVE pc' # "sweep_rooms" BY <3>4 DEF SwitchRoom
    <3> QED BY <2>1, <3>1, <3>2, <3>3, <3>4 DEF ControlRequest
  <2>2. CASE ServerStep
    BY <1>5, <2>2 DEF ServerStep, InitDone, SweepMember, SweepDone, Deliver, DeliverFail,
                      DeliverDone, EndBroadcast
  <2>3. ASSUME NEW m, ChatMessage(m) \/ ChatMessageDropped(m) PROVE pc' # "sweep_rooms"
    BY <2>3 DEF ChatMessage, ChatMessageDropped
  <2>4. ASSUME NEW name, RegisterRefused(name) \/ InitRoom(name) PROVE pc' # "sweep_rooms"
    BY <2>4 DEF RegisterRefused, InitRoom
  <2>5. ASSUME NEW m, NEW name, NEW id, Register(m, name, id) PROVE pc' # "sweep_rooms"
    BY <2>5 DEF Register
  <2>6. ASSUME NEW type, NEW id, InvalidId(type, id) PROVE pc' # "sweep_rooms"
    BY <2>6 DEF InvalidId
  <2>7. CASE SweepStart BY <2>7 DEF SweepStart
  <2> QED BY <1>5, <2>1, <2>2, <2>3, <2>4, <2>5, <2>6, <2>7 DEF Next
<1> QED BY <1>2, <1>3, <1>4, <1>5

\* Only a chat message begins a broadcast.
LEMMA NoBroadcast ==
  ASSUME [Next]_vars, ~Deliver, \A m \in Member : ~ChatMessage(m), ~UNCHANGED vars
  PROVE  pc' # "broadcast"
<1> USE DEF Serving, Request, loopVars
<1>1. ASSUME NEW m \in Member, ControlRequest(m) PROVE pc' # "broadcast"
  <2>1. CASE Quit(m) \/ KeepAlive(m) \/ RoomListRequest(m)
    BY <2>1 DEF Quit, KeepAlive, RoomListRequest
  <2>2. ASSUME NEW name, CreateRoom(m, name) \/ CreateRoomRefused(m, name) \/ CreateRoomCrash(m, name)
        PROVE  pc' # "broadcast"
    BY <2>2 DEF CreateRoom, CreateRoomRefused, CreateRoomCrash
  <2>3. ASSUME NEW name, SwitchRefused(m, name) \/ MemberListRequest(m, name)
        PROVE  pc' # "broadcast"
    BY <2>3 DEF SwitchRefused, MemberListRequest
  <2>4. ASSUME NEW r, SwitchRoom(m, r) PROVE pc' # "broadcast" BY <2>4 DEF SwitchRoom
  <2> QED BY <1>1, <2>1, <2>2, <2>3, <2>4 DEF ControlRequest
<1>2. CASE ServerStep
  BY <1>2 DEF ServerStep, InitDone, SweepMember, SweepMembersDone, SweepRoom, SweepDone,
                    DeliverFail, DeliverDone, EndBroadcast
<1>3. ASSUME NEW m, ChatMessageDropped(m) PROVE pc' # "broadcast"
  BY <1>3 DEF ChatMessageDropped
<1>4. ASSUME NEW name, RegisterRefused(name) \/ InitRoom(name) PROVE pc' # "broadcast"
  BY <1>4 DEF RegisterRefused, InitRoom
<1>5. ASSUME NEW m, NEW name, NEW id, Register(m, name, id) PROVE pc' # "broadcast"
  BY <1>5 DEF Register
<1>6. ASSUME NEW type, NEW id, InvalidId(type, id) PROVE pc' # "broadcast"
  BY <1>6 DEF InvalidId
<1>7. CASE SweepStart BY <1>7 DEF SweepStart
<1> QED BY <1>1, <1>2, <1>3, <1>4, <1>5, <1>6, <1>7 DEF Next

\* A broadcast goes from an occupant of the sender's room to another, and nobody
\* comes or goes meanwhile.
LEMMA SendingInRoomStep ==
  ASSUME RoomInv, [Next]_vars
  PROVE  SendingInRoom'
<1> USE DEF RoomInv, SessionInv, SendingInRoom
<1>1. ASSUME NEW r \in rooms
      PROVE  /\ roster.head[r] \in Occupants(r) \cup {NULL}
             /\ \A m \in Occupants(r) : roster.next[m] \in Occupants(r) \cup {NULL}
  <2>1. Ordered(Occupants(r), RoomList(roster, r)) /\ Occupants(r) \in SUBSET Member
    BY DEF RostersSound, Occupants, TypeOK
  <2>2. RoomList(roster, r).head = roster.head[r] /\ RoomList(roster, r).next = roster.next
    BY DEF RoomList
  <2> HIDE DEF RoomInv, SessionInv
  <2> QED BY <2>1, <2>2, WalkStaysOnList
<1>2. CASE Deliver
  <2>1. UNCHANGED <<members, member, rooms, pc, mt>> BY <1>2 DEF Deliver, sessionVars, roomVars
  <2>2. cursor' \in Occupants(member[mt].current_room) \cup {NULL}
    BY <1>1, <1>2 DEF Deliver, NextToSend
  <2> QED BY <1>2, <2>1, <2>2 DEF Deliver, Occupants
<1>3. ASSUME NEW m \in Member, ChatMessage(m) PROVE SendingInRoom'
  <2> DEFINE r == member[m].current_room
  <2>1. m \in members /\ r \in rooms /\ members' = members /\ rooms' = rooms
    BY <1>3 DEF ChatMessage, InLiveRoom, roomVars
  <2>2. \A x \in members : member'[x].current_room = member[x].current_room
    BY <1>3 DEF ChatMessage, Heard, TypeOK, MemberType
  <2>3. Occupants(r)' = Occupants(r) BY <2>1, <2>2 DEF Occupants
  <2>4. mt' = m /\ cursor' = roster.head[r] BY <1>3 DEF ChatMessage
  <2> HIDE DEF r
  <2>5. cursor' \in Occupants(r)' \cup {NULL} BY <1>1, <2>1, <2>3, <2>4
  <2> QED BY <2>1, <2>2, <2>4, <2>5 DEF r, Occupants
<1>4. CASE UNCHANGED vars
  BY <1>4 DEF vars, sessionVars, roomVars, loopVars, Occupants
<1>5. CASE ~Deliver /\ (\A m \in Member : ~ChatMessage(m)) /\ ~UNCHANGED vars
  BY <1>5, NoBroadcast
<1> QED BY <1>2, <1>3, <1>4, <1>5

\* A broadcast follows the list of the room: the one it has just been sent to is
\* the next of the enumeration.
LEMMA BroadcastStep ==
  ASSUME RoomInv, [Next]_vars
  PROVE  BroadcastFollowsRoll'
<1> USE DEF RoomInv, SessionInv
<1> DEFINE r == member[mt].current_room
           S == Occupants(r)
           n == Cardinality(S)
           L == RoomList(roster, r)
           k == Len(sent)
<1>1. CASE Deliver
  <2>1. /\ UNCHANGED <<members, member, rooms, roster, pc, mt>> /\ pc = "broadcast" /\ cursor # NULL
        /\ sent' = Append(sent, cursor) /\ cursor' = roster.next[cursor]
    BY <1>1 DEF Deliver, sessionVars, roomVars, NextToSend
  <2>2. S' = S /\ n' = n /\ L' = L BY <2>1 DEF Occupants, RoomList
  <2>3. PICK q \in [1..n -> S] : /\ Orders(q, S, L)
                                 /\ k <= n /\ \A i \in 1..k : sent[i] = q[i]
                                 /\ cursor = IF k = n THEN NULL ELSE q[k + 1]
    BY <2>1 DEF BroadcastFollowsRoll
  <2>4. S \in SUBSET Member /\ sent \in Seq(Member) /\ k \in Nat BY DEF TypeOK, Occupants
  <2>5. n \in Nat BY <2>4, NodesCount
  <2>6. k < n /\ cursor = q[k + 1] /\ k + 1 \in 1..n BY <2>1, <2>3, <2>4, <2>5
  <2>7. cursor \in Member BY <2>4, <2>6
  <2>8. Len(sent') = k + 1 /\ \A i \in 1..(k + 1) : sent'[i] = q[i]
    BY <2>1, <2>3, <2>4, <2>6, <2>7
  <2>9. L.next = roster.next BY DEF RoomList
  <2>10. cursor' = IF k + 1 = n THEN NULL ELSE q[(k + 1) + 1]
    BY <2>1, <2>3, <2>6, <2>9 DEF Orders, Threads
  <2> HIDE DEF S, n, L, k
  <2>11. q \in [1..n' -> S'] /\ Orders(q, S', L') BY <2>2, <2>3
  <2>12. k' <= n' /\ \A i \in 1..k' : sent'[i] = q[i] BY <2>2, <2>4, <2>5, <2>6, <2>8 DEF k
  <2>13. cursor' = IF k' = n' THEN NULL ELSE q[k' + 1] BY <2>2, <2>8, <2>10 DEF k
  <2> QED BY <2>11, <2>12, <2>13 DEF BroadcastFollowsRoll, S, n, L, k
<1>2. ASSUME NEW m \in Member, ChatMessage(m) PROVE BroadcastFollowsRoll'
  <2> DEFINE s == member[m].current_room
  <2>1. /\ m \in members /\ s \in rooms /\ members' = members /\ roster' = roster
        /\ mt' = m /\ sent' = <<>> /\ cursor' = roster.head[s]
    BY <1>2 DEF ChatMessage, InLiveRoom
  <2>2. \A x \in members : member'[x].current_room = member[x].current_room
    BY <1>2 DEF ChatMessage, Heard, TypeOK, MemberType
  <2>3. r' = s BY <2>1, <2>2
  <2>4. S' = Occupants(s) BY <2>1, <2>2, <2>3 DEF Occupants
  <2>5. n' = Cardinality(Occupants(s)) /\ L' = RoomList(roster, s)
    BY <2>1, <2>3, <2>4 DEF RoomList
  <2>6. PICK q \in [1..n' -> S'] : Orders(q, S', L') BY <2>1, <2>4, <2>5 DEF RostersSound, Ordered
  <2>7. n' \in Nat BY <2>5, NodesCount DEF Occupants, TypeOK
  <2>8. k' = 0 BY <2>1
  <2>9. cursor' = IF k' = n' THEN NULL ELSE q[k' + 1]
    <3>1. L'.head = roster.head[s] BY <2>5 DEF RoomList
    <3>2. L'.head = IF n' = 0 THEN NULL ELSE q[1] BY <2>6 DEF Orders, Threads
    <3> QED BY <2>1, <2>8, <3>1, <3>2
  <2> HIDE DEF S, n, L, k
  <2>10. k' <= n' /\ \A i \in 1..k' : sent'[i] = q[i] BY <2>7, <2>8
  <2> QED BY <2>6, <2>9, <2>10 DEF BroadcastFollowsRoll, S, n, L, k
<1>3. CASE UNCHANGED vars
  BY <1>3 DEF vars, sessionVars, roomVars, loopVars, BroadcastFollowsRoll, Occupants
<1>4. CASE ~Deliver /\ (\A m \in Member : ~ChatMessage(m)) /\ ~UNCHANGED vars
  BY <1>4, NoBroadcast DEF BroadcastFollowsRoll
<1> QED BY <1>1, <1>2, <1>3, <1>4

-----------------------------------------------------------------------------
(* The theorems. *)

\* There are no rooms before init_server makes them.
LEMMA RoomInvInit == Init => RoomInv
<1> SUFFICES ASSUME Init PROVE RoomInv OBVIOUS
<1>1. SessionInv BY SessionInvInit
<1>2. rooms = {} /\ members = {} /\ Cardinality({}) = 0 /\ MAX_NUM_OF_ROOMS \in Nat
  BY FS_EmptySet, FS_CardinalityType, ServerAssumption DEF Init
<1>3. RoomListSound
  <2> DEFINE q == [i \in 1..0 |-> NULL]
  <2>1. q \in [1..Cardinality(rooms) -> rooms] BY <1>2
  <2>2. Threads(q, rooms, room_list.head, room_list.next) BY <1>2 DEF Init, Threads
  <2>3. room_list.tail = NULL BY DEF Init
  <2> QED BY <2>1, <2>2, <2>3 DEF RoomListSound, Linked, LinkedAs
<1>4. RoomsCounted BY <1>2 DEF Init, RoomsCounted
<1>5. SweepOnRoom /\ SendingInRoom /\ BroadcastFollowsRoll
  BY DEF Init, SweepOnRoom, SendingInRoom, BroadcastFollowsRoll
<1>6. InLiveRoom /\ RostersSound /\ OccupantsCounted /\ EmptyFlagMeansEmpty
  BY <1>2 DEF InLiveRoom, RostersSound, OccupantsCounted, EmptyFlagMeansEmpty
<1> QED BY <1>1, <1>3, <1>4, <1>5, <1>6 DEF RoomInv

\* Every step of the server keeps the invariant.
LEMMA RoomInvStep == RoomInv /\ [Next]_vars => RoomInv'
<1> SUFFICES ASSUME RoomInv, [Next]_vars PROVE RoomInv' OBVIOUS
<1>1. SessionInv' BY SessionInvStep DEF RoomInv
<1>2. RoomTables' BY RoomTablesStep
<1> QED BY <1>1, <1>2, SweepOnRoomStep, SendingInRoomStep, BroadcastStep DEF RoomInv, RoomTables

\* The invariant holds in every reachable state.
LEMMA RoomInvHolds == Spec => []RoomInv
BY RoomInvInit, RoomInvStep, PTL DEF Spec

\* The list of every room is a sound list of exactly the members whose
\* current_room it is, whatever they switch, quit or have swept away.
THEOREM RostersCorrect == Spec => []RostersSound
BY RoomInvHolds, PTL DEF RoomInv

\* The room list is a sound list of exactly the rooms in use; its tail, when it
\* is not lost, is the last of them.
THEOREM RoomListCorrect == Spec => []RoomListSound
BY RoomInvHolds, PTL DEF RoomInv

\* All the counters of the server count what is there.
THEOREM CountersCorrect == Spec => []CountersAgree
<1>1. RoomInv => CountersAgree
  BY DEF RoomInv, SessionInv, SessionsCounted, RoomsCounted, OccupantsCounted, CountersAgree
<1> QED BY <1>1, RoomInvHolds, PTL

\* No pointer that is followed leads to a freed struct.
THEOREM NoDanglingPointerCorrect == Spec => []NoDanglingPointer
<1>1. RoomInv => NoDanglingPointer
  BY DEF RoomInv, SessionInv, SweepOnMember, SweepOnRoom, InLiveRoom, SendingInRoom, NoDanglingPointer
<1> QED BY <1>1, RoomInvHolds, PTL

\* The limits of defs.h bound the tables.
THEOREM LimitsCorrect == Spec => []WithinLimits
<1>1. RoomInv => WithinLimits
  BY DEF RoomInv, SessionInv, SessionsCounted, RoomsCounted, OccupantsCounted, WithinLimits
<1> QED BY <1>1, RoomInvHolds, PTL

\* A broadcast sends to the occupants of the sender's room, each once, in the
\* order of the room's list.
THEOREM BroadcastCorrect == Spec => []BroadcastFollowsRoll
BY RoomInvHolds, PTL DEF RoomInv

\* A room with its empty_flag up is empty.
THEOREM EmptyFlagCorrect == Spec => []EmptyFlagMeansEmpty
BY RoomInvHolds, PTL DEF RoomInv

\* No step frees a room that has a member in it: the sweep looks at a count,
\* which is right.
THEOREM OccupiedRoomCorrect == Spec => OccupiedRoomKept
<1>1. RoomInv /\ [Next]_vars => [\A r \in rooms : Occupants(r) # {} => r \in rooms']_vars
  <2> SUFFICES ASSUME RoomInv, [Next]_vars, NEW r \in rooms, Occupants(r) # {} PROVE r \in rooms'
    OBVIOUS
  <2>1. CASE RoomsKept BY <2>1 DEF RoomsKept, roomVars
  <2>2. ASSUME NEW m, RemoveMember(m) PROVE r \in rooms' BY <2>2 DEF RemoveMember
  <2>3. ASSUME NEW m, NEW s, SwitchRoom(m, s) PROVE r \in rooms' BY <2>3 DEF SwitchRoom
  <2>4. ASSUME NEW name, AddRoom(name) PROVE r \in rooms' BY <2>4 DEF AddRoom
  <2>5. CASE SweepRoom
    <3>1. Occupants(r) \in SUBSET Member BY DEF RoomInv, SessionInv, TypeOK, Occupants
    <3>2. room[r].num_of_members # 0 BY <3>1, NodesCount DEF RoomInv, OccupantsCounted
    <3> QED BY <2>5, <3>2 DEF SweepRoom, IsVacant, roomVars
  <2> QED BY <2>1, <2>2, <2>3, <2>4, <2>5, RoomCases
<1> QED BY <1>1, RoomInvHolds, PTL DEF Spec, OccupiedRoomKept
=============================================================================
