----------------------------- MODULE ServerLoop -----------------------------
(***************************************************************************)
(* The select loop of server_main.c and its bookkeeping: the table of       *)
(* accepted connections, the descriptor sets of select, and the timer of    *)
(* the sweep.  What a request does to the members and rooms is ChatServer's *)
(* matter; here a request is data on a connection, and of the members one   *)
(* is followed, whose client lives and sends its heartbeats.                *)
(*                                                                          *)
(* select is Linux's: it leaves in tv the time that was not slept, and it   *)
(* fails with EBADF for a descriptor that is not open.                      *)
(***************************************************************************)
EXTENDS Integers, FiniteSets

CONSTANTS
  ConnFd,                \* the descriptors accept can return
  tcp_socket_fd,
  udp_socket_fd,
  MAX_CONTROL_SESSIONS,  \* the size of fd_table
  sweep_int,             \* the interval of the sweep, 0 for never
  HEARTBEAT,             \* the longest a client goes without a heartbeat
  MaxBacklog,            \* bound: connections not accepted yet
  MaxDgrams              \* bound: chat messages not received yet

\* server_main's sweep interval is in minutes, a client's heartbeat comes every
\* five seconds.
ASSUME LoopAssumption ==
  /\ ConnFd \subseteq Nat /\ IsFiniteSet(ConnFd)
  /\ tcp_socket_fd \in Nat \ ConnFd /\ udp_socket_fd \in Nat \ ConnFd
  /\ tcp_socket_fd # udp_socket_fd
  /\ MAX_CONTROL_SESSIONS \in Nat \ {0}
  /\ sweep_int \in Nat /\ HEARTBEAT \in Nat
  /\ sweep_int # 0 => HEARTBEAT < sweep_int
  /\ MaxBacklog \in Nat /\ MaxDgrams \in Nat

VARIABLES
  pc,             \* where main is: see Location
  fd_table,       \* the connection in each slot
  max_fd_idx,
  maxfd,
  allset,
  rset,           \* what select has returned; dead outside an iteration
  num_ready_fds,  \* of those, how many have not been dealt with
  i,              \* the index of the scan
  tmp_fd_idx,     \* the last slot of the scan that had nothing to read
  conn,           \* what there is to read on each descriptor
  backlog,        \* connections in the listen queue
  dgrams,         \* chat messages in the UDP socket
  tv,             \* the time left until select times out
  quiet_flag,     \* of the member
  age             \* time slept since the member's last heartbeat was processed

tableVars == <<fd_table, max_fd_idx, maxfd, allset>>
scanVars  == <<rset, num_ready_fds, i, tmp_fd_idx>>
worldVars == <<conn, backlog, dgrams>>
timeVars  == <<tv, quiet_flag, age>>
vars == <<pc, tableVars, scanVars, worldVars, timeVars>>

Location == {"select", "udp", "tcp", "scan", "exited"}
Slot == 0..MAX_CONTROL_SESSIONS - 1
FREE == -1
SocketFd == ConnFd \cup {tcp_socket_fd, udp_socket_fd}

\* A descriptor is closed, or open with nothing to read, a heartbeat, or
\* anything else that makes read return: another request, part of one, or the
\* end of file of a client that has gone.
Traffic == {"beat", "data"}
ConnState == {"closed", "idle"} \cup Traffic

\* A session that the sweep has removed.
GONE == 2

\* The type of every variable.
TypeOK ==
  /\ pc \in Location
  /\ fd_table \in [Slot -> ConnFd \cup {FREE}]
  /\ max_fd_idx \in -1..MAX_CONTROL_SESSIONS
  /\ maxfd \in SocketFd
  /\ allset \in SUBSET SocketFd /\ rset \in SUBSET SocketFd
  /\ num_ready_fds \in Nat /\ i \in Nat /\ tmp_fd_idx \in Slot \cup {-1}
  /\ conn \in [ConnFd -> ConnState]
  /\ backlog \in 0..MaxBacklog /\ dgrams \in 0..MaxDgrams
  /\ tv \in 0..sweep_int /\ quiet_flag \in {0, 1, GONE} /\ age \in 0..HEARTBEAT

Higher(a, b) == IF a > b THEN a ELSE b

Init ==
  /\ pc = "select"
  /\ fd_table = [k \in Slot |-> FREE]
  /\ max_fd_idx = -1
  /\ allset = {tcp_socket_fd, udp_socket_fd}
  /\ maxfd = Higher(tcp_socket_fd, udp_socket_fd)
  /\ rset = {} /\ num_ready_fds = 0 /\ i = 0 /\ tmp_fd_idx = -1
  /\ conn = [f \in ConnFd |-> "closed"]
  /\ backlog = 0 /\ dgrams = 0
  /\ tv = sweep_int /\ quiet_flag = 0 /\ age = 0

-----------------------------------------------------------------------------
(* select. *)

Readable ==
  {f \in ConnFd : conn[f] \in Traffic}
    \cup {f \in {tcp_socket_fd} : backlog > 0}
    \cup {f \in {udp_socket_fd} : dgrams > 0}

\* What select finds: it looks at the descriptors up to maxfd.
Ready == {f \in allset \cap Readable : f <= maxfd}
BadFd == {f \in allset \cap ConnFd : f <= maxfd /\ conn[f] = "closed"}

\* Mutated form of Polled: the loop would look at the set it keeps.
PolledAll == allset

\* The set the loop goes by.
Polled == Ready

\* Mutated form of TimeLeft: the timer starts again with every select.
TimeRestarted == sweep_int

\* tv after a select that has not timed out.
TimeLeft == tv

SelectReady ==
  /\ pc = "select" /\ BadFd = {} /\ Ready # {}
  /\ rset' = Polled /\ num_ready_fds' = Cardinality(Ready)
  /\ tv' = TimeLeft
  /\ pc' = "udp"
  /\ UNCHANGED <<i, tmp_fd_idx, tableVars, worldVars, quiet_flag, age>>

\* select fails, and main exits.
SelectFails ==
  /\ pc = "select" /\ BadFd # {}
  /\ pc' = "exited"
  /\ UNCHANGED <<tableVars, scanVars, worldVars, timeVars>>

Asleep == pc = "select" /\ BadFd = {} /\ Ready = {}

\* Time passes in select.  The member's client is alive: its next heartbeat is
\* never later than HEARTBEAT.
Tick ==
  /\ Asleep
  /\ sweep_int = 0 \/ tv > 0
  /\ age < HEARTBEAT
  /\ tv' = IF sweep_int = 0 THEN tv ELSE tv - 1
  /\ age' = age + 1
  /\ UNCHANGED <<pc, quiet_flag, tableVars, scanVars, worldVars>>

\* Mutated forms of SweepTimer: not reset, and converted to seconds twice.
TimerKept == tv
TimerInSeconds == sweep_int * 60

\* The timer after a sweep.
SweepTimer == sweep_int

\* select times out, and the sweep finds the member.
Sweep ==
  /\ Asleep /\ sweep_int # 0 /\ tv = 0
  /\ quiet_flag' = IF quiet_flag = 0 THEN 1 ELSE GONE
  /\ tv' = SweepTimer
  /\ UNCHANGED <<pc, age, tableVars, scanVars, worldVars>>

-----------------------------------------------------------------------------
(* One iteration: the UDP socket, the listening socket, the table. *)

\* "continue", and the end of the loop body.
BackToSelect ==
  /\ pc' = "select"
  /\ rset' = {} /\ num_ready_fds' = 0 /\ i' = 0 /\ tmp_fd_idx' = -1

\* Mutated form of FirstIdx.
SecondIdx == 1

FirstIdx == 0

\* One descriptor has been dealt with: when it was the last, back to select,
\* otherwise on.
OneDone(next) ==
  IF num_ready_fds - 1 <= 0
  THEN BackToSelect
  ELSE /\ pc' = next /\ num_ready_fds' = num_ready_fds - 1
       /\ i' = IF next = "scan" THEN FirstIdx ELSE i
       /\ UNCHANGED <<rset, tmp_fd_idx>>

\* process_chat_msg receives one datagram.
ChatMessage ==
  /\ pc = "udp"
  /\ IF udp_socket_fd \in rset
     THEN dgrams' = dgrams - 1 /\ OneDone("tcp")
     ELSE pc' = "tcp" /\ UNCHANGED <<dgrams, scanVars>>
  /\ UNCHANGED <<conn, backlog, tableVars, timeVars>>

NoConnection ==
  /\ pc = "tcp" /\ tcp_socket_fd \notin rset
  /\ pc' = "scan" /\ i' = FirstIdx
  /\ UNCHANGED <<rset, num_ready_fds, tmp_fd_idx, tableVars, worldVars, timeVars>>

\* The connection may be lost, or stay where it is when there is no descriptor
\* for it.
AcceptFails ==
  /\ pc = "tcp" /\ tcp_socket_fd \in rset
  /\ backlog' \in {backlog - 1, backlog}
  /\ OneDone("scan")
  /\ UNCHANGED <<conn, dgrams, tableVars, timeVars>>

FreeSlot == {k \in Slot : fd_table[k] = FREE}

\* Mutated form of MaxFdWith.
MaxFdKept(f) == maxfd

MaxFdWith(f) == Higher(maxfd, f)

\* The kernel gives the lowest descriptor that is free.
LowestFd(f) ==
  /\ f \in ConnFd /\ conn[f] = "closed"
  /\ \A g \in ConnFd : conn[g] = "closed" => f <= g

\* A new connection gets the first free slot.
Accept ==
  /\ pc = "tcp" /\ tcp_socket_fd \in rset
  /\ \E f \in ConnFd, k \in FreeSlot :
       /\ LowestFd(f) /\ \A l \in FreeSlot : k <= l
       /\ fd_table' = [fd_table EXCEPT ![k] = f]
       /\ max_fd_idx' = Higher(max_fd_idx, k)
       /\ maxfd' = MaxFdWith(f) /\ allset' = allset \cup {f}
       /\ conn' = [conn EXCEPT ![f] = "idle"]
  /\ backlog' = backlog - 1
  /\ OneDone("scan")
  /\ UNCHANGED <<dgrams, timeVars>>

\* With the table full it is closed; the search has left i at the size of the
\* table, and what follows is done all the same.
AcceptTooMany ==
  /\ pc = "tcp" /\ tcp_socket_fd \in rset /\ FreeSlot = {}
  /\ \E f \in ConnFd :
       /\ LowestFd(f)
       /\ maxfd' = MaxFdWith(f) /\ allset' = allset \cup {f}
  /\ max_fd_idx' = Higher(max_fd_idx, MAX_CONTROL_SESSIONS)
  /\ backlog' = backlog - 1
  /\ OneDone("scan")
  /\ UNCHANGED <<fd_table, conn, dgrams, timeVars>>

\* Mutated form of LoweredIdx: max_fd_idx only ever grows.
IdxKept == max_fd_idx

\* max_fd_idx after a scan that ends at i.
LoweredIdx == IF i = max_fd_idx THEN tmp_fd_idx ELSE max_fd_idx

Scanning == pc = "scan" /\ i \in Slot /\ i <= max_fd_idx

\* A slot that is free, or whose connection has nothing to read.
ScanPast ==
  /\ Scanning /\ fd_table[i] \notin rset
  /\ tmp_fd_idx' = IF fd_table[i] = FREE THEN tmp_fd_idx ELSE i
  /\ i' = i + 1
  /\ UNCHANGED <<pc, rset, num_ready_fds, tableVars, worldVars, timeVars>>

\* process_control_msg on a connection, one read; then it is closed.
ControlMessage ==
  /\ Scanning /\ fd_table[i] \in rset
  /\ LET f == fd_table[i] IN
     /\ IF conn[f] = "beat"
        THEN /\ quiet_flag' = IF quiet_flag = GONE THEN GONE ELSE 0
             /\ age' = 0
        ELSE UNCHANGED <<quiet_flag, age>>
     /\ conn' = [conn EXCEPT ![f] = "closed"]
     /\ allset' = allset \ {f}
     /\ fd_table' = [fd_table EXCEPT ![i] = FREE]
  /\ IF num_ready_fds - 1 <= 0
     THEN max_fd_idx' = LoweredIdx /\ BackToSelect
     ELSE /\ i' = i + 1 /\ num_ready_fds' = num_ready_fds - 1
          /\ UNCHANGED <<pc, max_fd_idx, rset, tmp_fd_idx>>
  /\ UNCHANGED <<maxfd, backlog, dgrams, tv>>

-----------------------------------------------------------------------------
(* The clients. *)

Connect ==
  /\ backlog < MaxBacklog /\ backlog' = backlog + 1
  /\ UNCHANGED <<pc, conn, dgrams, tableVars, scanVars, timeVars>>

Datagram ==
  /\ dgrams < MaxDgrams /\ dgrams' = dgrams + 1
  /\ UNCHANGED <<pc, conn, backlog, tableVars, scanVars, timeVars>>

\* Data arrives on an accepted connection; a client has one heartbeat under
\* way at a time.
Arrive(f, what) ==
  /\ conn[f] = "idle"
  /\ what = "beat" => quiet_flag # GONE /\ \A g \in ConnFd : conn[g] # "beat"
  /\ conn' = [conn EXCEPT ![f] = what]
  /\ UNCHANGED <<pc, backlog, dgrams, tableVars, scanVars, timeVars>>

Iteration ==
  \/ ChatMessage \/ NoConnection \/ AcceptFails \/ Accept \/ AcceptTooMany
  \/ ScanPast \/ ControlMessage
ServerStep == SelectReady \/ SelectFails \/ Sweep \/ Iteration
ClientStep == Connect \/ Datagram \/ \E f \in ConnFd, what \in Traffic : Arrive(f, what)

Next == ServerStep \/ Tick \/ (pc # "exited" /\ ClientStep)

\* The process runs.
Spec == Init /\ [][Next]_vars /\ WF_vars(ServerStep)

-----------------------------------------------------------------------------
(* Properties. *)

Used == {k \in Slot : fd_table[k] # FREE}
InTable == {fd_table[k] : k \in Used}

\* A connection has been refused for want of a slot.
Overflowed == max_fd_idx = MAX_CONTROL_SESSIONS

\* fd_table, the set of select and the open connections are the same thing, in
\* three forms kept up by different lines (server_main.c:269-290, 313-324):
\* each open connection has one slot and is watched, maxfd and max_fd_idx
\* cover them, and max_fd_idx is no higher than it must be.
SelectSetSound ==
  /\ \A k, l \in Used : fd_table[k] = fd_table[l] => k = l
  /\ InTable = {f \in ConnFd : conn[f] # "closed"}
  /\ \A f \in allset : f <= maxfd
  /\ \A k \in Used : k <= max_fd_idx
  /\ InTable \cup {tcp_socket_fd, udp_socket_fd} \subseteq allset
  /\ ~Overflowed => /\ allset = InTable \cup {tcp_socket_fd, udp_socket_fd}
                    /\ max_fd_idx \in Used \cup {-1}

\* The descriptors that the scan has not reached yet and will read.
ToRead == {fd_table[k] : k \in i..MAX_CONTROL_SESSIONS - 1} \cap rset

\* The scan stops at the last ready connection and so never looks at a slot
\* that does not exist, also in the iteration that has set max_fd_idx to the
\* size of the table (server_main.c:278-279, 303-319).
ScanInBounds ==
  pc = "scan" => /\ i \in Slot /\ i <= max_fd_idx
                 /\ num_ready_fds = Cardinality(ToRead)
                 /\ num_ready_fds > 0

\* No read, accept or recvfrom of the loop finds nothing and blocks the one
\* thread of the server: what select has said of a descriptor still holds when
\* the loop comes to it, although it has accepted and closed others in between.
\* (The datagrams of dgrams are sound: one that select reports and recvfrom then
\* drops for its checksum is outside the model.)
NeverBlocks ==
  /\ pc = "udp" /\ udp_socket_fd \in rset => dgrams > 0
  /\ pc \in {"udp", "tcp"} /\ tcp_socket_fd \in rset => backlog > 0
  /\ pc = "scan" => \A f \in ToRead : conn[f] \in Traffic

\* A client that sends its heartbeats keeps its session: two sweeps never find
\* it quiet, whatever else arrives in between (server_main.c:136-219).
HeartbeatKeepsSession == quiet_flag # GONE

\* "server sits in an infinite loop waiting for events" (server_main.c:115): a
\* connection for which there is no slot is closed and the loop goes on
\* (server_main.c:269-275).
NeverExits == pc # "exited"

\* Every request that arrives on an accepted connection is read, however much
\* else there is to do, unless the server ends (NeverExits is about that).
RequestServed ==
  \A f \in ConnFd :
    conn[f] \in Traffic ~> (conn[f] \notin Traffic \/ pc = "exited")

\* The sweep is not put off for ever by traffic: if time goes on passing in
\* select, sweeps go on happening.
SweepsRecur == sweep_int # 0 => ([]<><<Tick>>_vars => []<><<Sweep>>_vars)
=============================================================================
