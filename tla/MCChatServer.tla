---------------------------- MODULE MCChatServer ----------------------------
EXTENDS ChatServerRefinement

(***************************************************************************)
(* Structs, ids and names that are not in use are alike: no variable but     *)
(* reply and listing may mention one, and the step that takes one into use   *)
(* writes those.  So it is enough that a new struct, an id or a name is the  *)
(* first of the unused ones; one that is in use is not ruled out, for a test *)
(* to find it.                                                               *)
(***************************************************************************)
First(S) == CHOOSE x \in S : TRUE
UsedOrFirst(x, used, all) == x \in used \/ x = First(all \ used)

UsedIds         == {member[m].member_id : m \in members}
UsedMemberNames == {member[m].member_name : m \in members}
UsedRoomNames   == {room[r].room_name : r \in rooms}

Canonical ==
  /\ \A m \in members' \ members :
       /\ m = First(Member \ members)
       /\ UsedOrFirst(member'[m].member_id, UsedIds, MemberId)
       /\ UsedOrFirst(member'[m].member_name, UsedMemberNames, MemberName)
  /\ \A r \in rooms' \ rooms :
       /\ r = First(Room \ rooms)
       /\ UsedOrFirst(room'[r].room_name, UsedRoomNames, RoomName)

\* Bound: members and rooms in use at a time, together.
InScope == Cardinality(members') + Cardinality(rooms') <= 4
=============================================================================
