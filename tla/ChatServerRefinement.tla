------------------------ MODULE ChatServerRefinement ------------------------
(***************************************************************************)
(* The server implements the service of ChatService.  The mapping reads the *)
(* tables the way the code does, by walking the links from the heads.       *)
(***************************************************************************)
EXTENDS ChatServer

\* The struct in use with this id.
Struct(id) == CHOOSE m \in members : member[m].member_id = id
Named(n)   == CHOOSE r \in rooms : room[r].room_name = n

IdsOf(seq)   == [i \in DOMAIN seq |-> member[seq[i]].member_id]
NamesOf(seq) == [i \in DOMAIN seq |-> room[seq[i]].room_name]

phaseMap ==
  CASE pc = "init" -> "starting"           [] pc = "select" -> "open"
    [] pc = "sweep_members" -> "expiring"  [] pc = "sweep_rooms" -> "pruning"
    [] pc = "broadcast" -> "sending"       [] pc = "crashed" -> "down"

SessionOf(m) ==
  [name   |-> member[m].member_name,
   room   |-> IF member[m].current_room = NULL THEN NULL
              ELSE room[member[m].current_room].room_name,
   silent |-> member[m].quiet_flag # 0]

sessionMap ==
  [id \in SetOf(IdsOf(Chain(mem_list.next, mem_list.head))) |-> SessionOf(Struct(id))]

orderMap == NamesOf(Chain(room_list.next, room_list.head))
rollMap  == [n \in SetOf(orderMap) |-> IdsOf(Roll(Named(n)))]
vacantMap == {n \in SetOf(orderMap) : room[Named(n)].empty_flag # 0}

dueMap ==
  CASE pc = "sweep_members" -> SetOf(IdsOf(Chain(mem_list.next, cursor)))
    [] pc = "sweep_rooms"   -> SetOf(NamesOf(Chain(room_list.next, cursor)))
    [] OTHER                -> {}

pendingMap == IF pc = "broadcast" THEN IdsOf(Chain(roster.next, cursor)) ELSE <<>>

Service == INSTANCE ChatService WITH
  NoRoom <- NULL, phase <- phaseMap, session <- sessionMap, order <- orderMap,
  roll <- rollMap, vacant <- vacantMap, due <- dueMap, pending <- pendingMap

\* Every handler of the server, sweep iteration and broadcast iteration is a
\* step of the abstract service with the same reply, or no step of it at all
\* (process_control_msg, process_chat_msg and the sweep of server_main.c).
ImplementsService == Service!Safety

\* And the sweeps and broadcasts that the service finishes are finished.
ImplementsLiveService == Service!Spec
=============================================================================
