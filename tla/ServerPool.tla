----------------------------- MODULE ServerPool -----------------------------
(***************************************************************************)
(* The world a chat client fails over in: chat servers that crash and start *)
(* again, the location server that names the last one started, and the      *)
(* other users.  Of a chat server only what its clients can tell apart is   *)
(* kept: its sessions, and how many ids it has drawn.  The handlers of      *)
(* server_util.c are functions on that record; ChatServer models them in    *)
(* full.                                                                    *)
(*                                                                          *)
(* The server never seeds rand(), so the k-th registration of every server  *)
(* process draws the same id (as long as no draw repeats an earlier one):   *)
(* an id is the number of its draw.                                         *)
(***************************************************************************)
EXTENDS Naturals, FiniteSets

CONSTANTS
  NumServers,   \* addresses at which a chat server may run
  Room, NoRoom, \* rooms a user may be in, and the room of a user in none
  Capacity,     \* MAX_NUM_OF_MEMBERS
  MaxFailures,  \* bound: server crashes and failed connections in a behaviour
  MaxOthers,    \* bound: registrations of other users in a behaviour
  OtherName,    \* the names other users may choose
  ReuseAddress  \* whether a server may start where one has run before

ASSUME PoolAssumption ==
  /\ NoRoom \notin Room
  /\ Capacity \in Nat \ {0} /\ MaxFailures \in Nat /\ MaxOthers \in Nat
  /\ OtherName \subseteq Nat
  /\ NumServers \in Nat \ {0} /\ ReuseAddress \in BOOLEAN

\* An address is not told from another by anything the client or a server does:
\* they are used in order.
Server == 1..NumServers

VARIABLES
  server,      \* server[s]: the process at address s
  published,   \* the address in the file of the location server
  crashes,     \* servers that have died so far
  faults,      \* connections to a server that is up that have failed so far
  others       \* registrations of other users so far

poolVars == <<server, published, crashes, faults, others>>

\* A user name is the number of "_" appended to the name the user chose.
Name == Nat
Owner == {"me", "other"}

Session == [id : Nat, name : Name, room : Room \cup {NoRoom}, owner : Owner]
\* run counts the processes that have run at the address: a connection is to
\* one of them.
Process == [up : BOOLEAN, run : Nat, draws : Nat, sessions : SUBSET Session]

PoolTypeOK ==
  /\ server \in [Server -> Process]
  /\ published \in Server
  /\ crashes \in Nat /\ faults \in Nat /\ crashes + faults <= MaxFailures
  /\ others \in 0..MaxOthers

PoolInit ==
  /\ published = 1
  /\ server = [s \in Server |-> [up |-> s = 1, run |-> IF s = 1 THEN 1 ELSE 0,
                                 draws |-> 0, sessions |-> {}]]
  /\ crashes = 0 /\ faults = 0 /\ others = 0

-----------------------------------------------------------------------------
(* What a server makes of a request, and what it answers. *)

SessionOf(x, id) == {e \in x.sessions : e.id = id}
NameUsed(x, name) == \E e \in x.sessions : e.name = name
Full(x) == Cardinality(x.sessions) >= Capacity

\* process_register_request: the server after it, and its answer.
AfterRegister(x, name, owner) ==
  IF Full(x) \/ NameUsed(x, name) THEN x
  ELSE [x EXCEPT !.draws = @ + 1,
                 !.sessions = @ \cup {[id |-> x.draws + 1, name |-> name,
                                       room |-> NoRoom, owner |-> owner]}]
RegisterReply(x, name) ==
  CASE Full(x)            -> [type |-> "FULL", id |-> 0]
    [] NameUsed(x, name)  -> [type |-> "USED", id |-> 0]
    [] OTHER              -> [type |-> "SUCC", id |-> x.draws + 1]

\* process_quit_request: the session with this id ends, whoever asked.
AfterQuit(x, id) == [x EXCEPT !.sessions = @ \ SessionOf(x, id)]

\* process_switch_room_request, when the room can take the member.
AfterSwitch(x, id, room) ==
  [x EXCEPT !.sessions = {IF e.id = id THEN [e EXCEPT !.room = room] ELSE e : e \in @}]

\* A connection to a server that is up does not come about.
ConnectFault ==
  /\ crashes + faults < MaxFailures
  /\ faults' = faults + 1
  /\ UNCHANGED <<server, published, crashes, others>>

-----------------------------------------------------------------------------
\* A server process dies, and its tables with it.
Crash(s) ==
  /\ crashes + faults < MaxFailures
  /\ server[s].up
  /\ server' = [server EXCEPT ![s].up = FALSE, ![s].sessions = {}]
  /\ crashes' = crashes + 1
  /\ UNCHANGED <<published, faults, others>>

\* A server process is started in place of the one that died last, and
\* announces itself (init_server, announce_server_ready).
Restart(s) ==
  /\ ~server[published].up /\ ~server[s].up
  /\ IF server[s].run = 0 THEN \A r \in 1..s-1 : server[r].run > 0 ELSE ReuseAddress
  /\ server' = [server EXCEPT ![s] = [up |-> TRUE, run |-> server[s].run + 1,
                                      draws |-> 0, sessions |-> {}]]
  /\ published' = s
  /\ UNCHANGED <<crashes, faults, others>>

\* Another user registers, or quits.
OtherRegisters(s, name) ==
  /\ others < MaxOthers
  /\ server[s].up /\ ~Full(server[s]) /\ ~NameUsed(server[s], name)
  /\ server' = [server EXCEPT ![s] = AfterRegister(@, name, "other")]
  /\ others' = others + 1
  /\ UNCHANGED <<published, crashes, faults>>

OtherQuits(s) ==
  /\ \E e \in server[s].sessions :
       /\ e.owner = "other"
       /\ server' = [server EXCEPT ![s] = AfterQuit(@, e.id)]
  /\ UNCHANGED <<published, crashes, faults, others>>
=============================================================================
