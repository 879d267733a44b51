---------------------------- MODULE ChatService ----------------------------
(***************************************************************************)
(* What the chat server promises, without its data structures: sessions     *)
(* keyed by member id, rooms keyed by name and listed in order of creation, *)
(* the members of a room in order of entry.  No pointers, no counters, no   *)
(* linked lists: a limit is a limit on the size of the set itself, and a    *)
(* list reply is the sequence it lists.  ChatServerRefinement shows that    *)
(* the server's handlers implement it.                                      *)
(***************************************************************************)
EXTENDS Naturals, Sequences, FiniteSets

CONSTANTS MemberId, NoId, MemberName, RoomName, LongName, NoRoom,
          MAX_NUM_OF_ROOMS, MAX_NUM_OF_MEMBERS_PER_ROOM, MAX_NUM_OF_MEMBERS

VARIABLES
  phase,    \* starting, open, expiring, pruning, sending or down
  session,  \* session[id] = [name, room, silent], for the ids in use
  order,    \* the names of the rooms, oldest first
  roll,     \* roll[n]: the ids in room n, in order of entry
  vacant,   \* the rooms that were empty at the last sweep and have been since
  due,      \* the ids (then the room names) this sweep has still to look at
  pending,  \* the ids this chat message has still to be sent to
  reply, listing

tables == <<session, order, roll, vacant>>
vars == <<phase, tables, due, pending, reply, listing>>

Ids == DOMAIN session
Rooms == DOMAIN roll

Init ==
  /\ phase = "starting"
  /\ session = [id \in {} |-> NoId] /\ roll = [n \in {} |-> <<>>]
  /\ order = <<>> /\ vacant = {} /\ due = {} /\ pending = <<>>
  /\ reply = [type |-> 0, member_id |-> NoId] /\ listing = <<>>

-----------------------------------------------------------------------------
Reply(type, id, list) == reply' = [type |-> type, member_id |-> id] /\ listing' = list
Silence == Reply(0, NoId, <<>>)
Idle == phase = "open" /\ UNCHANGED <<phase, due, pending>>

Spoken(id) == [session EXCEPT ![id].silent = FALSE]
\* seq without x, which is in it once at most.
Strike(x, seq) ==
  LET k == CHOOSE i \in DOMAIN seq : seq[i] = x
  IN  IF \E i \in DOMAIN seq : seq[i] = x
      THEN [i \in 1..Len(seq)-1 |-> IF i < k THEN seq[i] ELSE seq[i+1]]
      ELSE seq
Without(f, x) == [y \in DOMAIN f \ {x} |-> f[y]]
\* The roll of every room without id.
RollWithout(id) == [n \in Rooms |-> Strike(id, roll[n])]

Admit(id, name) ==
  /\ Idle /\ Reply(2, id, <<>>)
  /\ id \notin Ids
  /\ Cardinality(Ids) < MAX_NUM_OF_MEMBERS
  /\ \A other \in Ids : session[other].name # name
  /\ session' = [i \in Ids \cup {id} |->
                   IF i = id THEN [name |-> name, room |-> NoRoom, silent |-> FALSE]
                             ELSE session[i]]
  /\ UNCHANGED <<order, roll, vacant>>

TurnAway(name) ==
  /\ Idle /\ Reply(3, NoId, <<>>)
  /\ \/ Cardinality(Ids) = MAX_NUM_OF_MEMBERS
     \/ \E other \in Ids : session[other].name = name
  /\ UNCHANGED tables

Disown(type) ==
  /\ Idle /\ Reply(type + 2, NoId, <<>>)
  /\ UNCHANGED tables

\* A session ends: its id is in no room any more.
Remove(id) ==
  /\ session' = Without(session, id)
  /\ roll' = RollWithout(id)
  /\ UNCHANGED <<order, vacant>>

Leave(id) == Idle /\ Silence /\ id \in Ids /\ Remove(id)

\* Any request of a member that changes nothing but its silence.
Hear(id) ==
  /\ Idle
  /\ id \in Ids
  /\ session' = Spoken(id)
  /\ UNCHANGED <<order, roll, vacant>>

Ping(id) == Silence /\ Hear(id)

ListRooms(id) ==
  /\ IF order = <<>>
     THEN Reply(6, id, <<>>)
     ELSE Reply(5, id, [i \in DOMAIN order |-> <<order[i], Len(roll[order[i]])>>])
  /\ Hear(id)

ListMembers(id, name) ==
  /\ IF name \in Rooms /\ roll[name] # <<>>
     THEN Reply(8, id, [i \in DOMAIN roll[name] |-> session[roll[name][i]].name])
     ELSE Reply(9, id, <<>>)
  /\ Hear(id)

MayOpen(name) == name \in RoomName \ Rooms /\ Len(order) < MAX_NUM_OF_ROOMS

Open(name) ==
  /\ MayOpen(name)
  /\ order' = Append(order, name)
  /\ roll' = [n \in Rooms \cup {name} |-> IF n = name THEN <<>> ELSE roll[n]]
  /\ UNCHANGED vacant

OpenFirst(name) ==
  /\ phase = "starting" /\ UNCHANGED <<phase, due, pending>>
  /\ Open(name) /\ Silence
  /\ UNCHANGED session

OpenForMember(id, name) ==
  /\ Idle /\ Reply(14, id, <<>>)
  /\ id \in Ids
  /\ Open(name)
  /\ session' = Spoken(id)

RefuseRoom(id, name) == Reply(15, id, <<>>) /\ ~MayOpen(name) /\ Hear(id)

MayEnter(id, name) ==
  /\ name \in Rooms
  /\ session[id].room # name
  /\ Len(roll[name]) < MAX_NUM_OF_MEMBERS_PER_ROOM

Enter(id, name) ==
  /\ Idle /\ Reply(11, id, <<>>)
  /\ id \in Ids
  /\ MayEnter(id, name)
  /\ session' = [Spoken(id) EXCEPT ![id].room = name]
  /\ roll' = [RollWithout(id) EXCEPT ![name] = Append(@, id)]
  /\ vacant' = vacant \ {name}
  /\ UNCHANGED order

RefuseEntry(id, name) ==
  Reply(12, id, <<>>) /\ id \in Ids /\ ~MayEnter(id, name) /\ Hear(id)

-----------------------------------------------------------------------------
\* A sweep looks at every session once, then at every room once.
BeginSweep ==
  /\ phase = "open" /\ phase' = "expiring" /\ due' = Ids
  /\ Silence
  /\ UNCHANGED <<tables, pending>>

Visit(id) ==
  /\ phase = "expiring" /\ id \in due /\ due' = due \ {id}
  /\ IF session[id].silent
     THEN Remove(id)
     ELSE session' = [session EXCEPT ![id].silent = TRUE] /\ UNCHANGED <<order, roll, vacant>>
  /\ UNCHANGED <<phase, pending, reply, listing>>

BeginPruning ==
  /\ phase = "expiring" /\ due = {}
  /\ phase' = "pruning" /\ due' = Rooms
  /\ UNCHANGED <<tables, pending, reply, listing>>

VisitRoom(name) ==
  /\ phase = "pruning" /\ name \in due /\ due' = due \ {name}
  /\ CASE roll[name] # <<>> -> UNCHANGED <<order, roll, vacant>>
       [] roll[name] = <<>> /\ name \notin vacant ->
            vacant' = vacant \cup {name} /\ UNCHANGED <<order, roll>>
       [] OTHER ->
            /\ order' = Strike(name, order)
            /\ roll' = Without(roll, name)
            /\ vacant' = vacant \ {name}
  /\ UNCHANGED <<phase, session, pending, reply, listing>>

EndSweep ==
  /\ phase = "pruning" /\ due = {} /\ phase' = "open"
  /\ UNCHANGED <<tables, due, pending, reply, listing>>

-----------------------------------------------------------------------------
\* A chat message goes to the members of the sender's room, in order of entry,
\* up to the first one it cannot be sent to.
Say(id) ==
  /\ phase = "open" /\ id \in Ids /\ session[id].room # NoRoom
  /\ session' = Spoken(id)
  /\ phase' = "sending" /\ pending' = roll[session[id].room]
  /\ Silence
  /\ UNCHANGED <<order, roll, vacant, due>>

Send ==
  /\ phase = "sending" /\ pending # <<>> /\ pending' = Tail(pending)
  /\ UNCHANGED <<phase, tables, due, reply, listing>>

EndSay ==
  /\ phase = "sending" /\ phase' = "open" /\ pending' = <<>>
  /\ UNCHANGED <<tables, due, reply, listing>>

StartUp ==
  /\ phase = "starting" /\ phase' = "open"
  /\ Silence
  /\ UNCHANGED <<tables, due, pending>>

\* The service may die of a request to open a room that could be opened.
Die(id, name) ==
  /\ phase = "open" /\ phase' = "down" /\ id \in Ids /\ MayOpen(name)
  /\ session' = Spoken(id)
  /\ Silence
  /\ UNCHANGED <<order, roll, vacant, due, pending>>

-----------------------------------------------------------------------------
MemberStep(id) ==
  \/ Leave(id) \/ Ping(id) \/ ListRooms(id) \/ Say(id)
  \/ \E name \in RoomName : ListMembers(id, name) \/ Enter(id, name) \/ RefuseEntry(id, name)
  \/ \E name \in RoomName \cup LongName :
       OpenForMember(id, name) \/ RefuseRoom(id, name) \/ Die(id, name)

OwnStep ==
  \/ StartUp \/ BeginPruning \/ EndSweep \/ Send \/ EndSay
  \/ \E id \in MemberId : Visit(id)
  \/ \E name \in RoomName : VisitRoom(name)

Next ==
  \/ OwnStep \/ BeginSweep
  \/ \E name \in RoomName : OpenFirst(name)
  \/ \E id \in MemberId, name \in MemberName : Admit(id, name)
  \/ \E name \in MemberName : TurnAway(name)
  \/ \E id \in MemberId : MemberStep(id)
  \/ \E type \in {4, 5, 7, 10, 13, 16, 17} : Disown(type)

\* The steps alone, and with the promise that what has begun is finished.
Safety == Init /\ [][Next]_vars
Spec == Safety /\ WF_vars(OwnStep)
=============================================================================
