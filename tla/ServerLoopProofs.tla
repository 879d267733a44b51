-------------------------- MODULE ServerLoopProofs --------------------------
(***************************************************************************)
(* What holds of the select loop for every size of fd_table, every set of   *)
(* descriptors and every sweep interval.                                    *)
(***************************************************************************)
EXTENDS ServerLoop, FiniteSetTheorems, TLAPS

\* What select has found and the iteration has still to deal with.
Rest ==
  IF pc = "udp" THEN rset
  ELSE IF pc = "tcp" THEN rset \ {udp_socket_fd}
  ELSE ToRead

\* It is counted by num_ready_fds, and there is something to read on all of it.
RestSound ==
  pc \in {"udp", "tcp", "scan"} =>
    /\ \A f \in Rest \cap ConnFd : conn[f] \in Traffic
    /\ udp_socket_fd \in Rest => dgrams > 0
    /\ tcp_socket_fd \in Rest => backlog > 0
    /\ num_ready_fds = Cardinality(Rest) /\ num_ready_fds > 0

\* tmp_fd_idx is the highest slot in use below the scan.
TmpSound ==
  IF pc = "scan"
  THEN /\ tmp_fd_idx \in Used \cup {-1} /\ tmp_fd_idx < i
       /\ \A k \in Used : k < i => k <= tmp_fd_idx
  ELSE tmp_fd_idx = -1

NoBeat == \A f \in ConnFd : conn[f] # "beat"

\* A session that a sweep has marked has been silent since.
TimerSound ==
  /\ quiet_flag # GONE
  /\ quiet_flag = 1 /\ NoBeat => age >= sweep_int - tv

\* The one way out of the loop: a connection was refused for want of a slot.
ExitsOnlyWhenFull == pc = "exited" => Overflowed

LoopInv ==
  /\ TypeOK
  /\ SelectSetSound
  /\ RestSound
  /\ TmpSound
  /\ TimerSound
  /\ ExitsOnlyWhenFull

\* At the start.
LEMMA InitLoop == Init => LoopInv
<1> SUFFICES ASSUME Init PROVE LoopInv OBVIOUS
<1> USE LoopAssumption
<1>1. TypeOK
  BY DEF Init, TypeOK, Location, SocketFd, Slot, FREE, ConnState, Higher
<1>2. SelectSetSound
  <2>1. Used = {} /\ InTable = {} BY DEF Init, Used, InTable
  <2>2. {f \in ConnFd : conn[f] # "closed"} = {} BY DEF Init
  <2>3. \A f \in allset : f <= maxfd BY DEF Init, Higher
  <2> QED BY <2>1, <2>2, <2>3 DEF Init, SelectSetSound
<1>3. RestSound /\ TmpSound BY DEF Init, RestSound, TmpSound
<1>4. TimerSound BY DEF Init, TimerSound, GONE
<1>5. ExitsOnlyWhenFull BY DEF Init, ExitsOnlyWhenFull
<1> QED BY <1>1, <1>2, <1>3, <1>4, <1>5 DEF LoopInv

-----------------------------------------------------------------------------
(* What an iteration finds. *)

\* Descriptors are finitely many, and no slot's mark is one.
LEMMA Descriptors ==
  /\ SocketFd \subseteq Nat /\ IsFiniteSet(SocketFd)
  /\ FREE \notin SocketFd
<1>1. SocketFd = (ConnFd \cup {tcp_socket_fd}) \cup {udp_socket_fd} BY DEF SocketFd
<1>2. IsFiniteSet(ConnFd \cup {tcp_socket_fd})
  BY LoopAssumption, FS_AddElement
<1>3. IsFiniteSet(SocketFd) BY <1>1, <1>2, FS_AddElement
<1>4. SocketFd \subseteq Nat BY LoopAssumption DEF SocketFd
<1> QED BY <1>3, <1>4 DEF FREE

\* The scan reads connections of the table only.
LEMMA ToReadInTable ==
  ASSUME TypeOK
  PROVE  /\ ToRead \subseteq ConnFd
         /\ IsFiniteSet(ToRead)
         /\ \A f \in ToRead : \E k \in Used : k >= i /\ fd_table[k] = f
<1>1. \A f \in ToRead : \E k \in Used : k >= i /\ fd_table[k] = f /\ f \in ConnFd
  <2> SUFFICES ASSUME NEW f \in ToRead
               PROVE  \E k \in Used : k >= i /\ fd_table[k] = f /\ f \in ConnFd
    OBVIOUS
  <2>1. PICK k \in i..MAX_CONTROL_SESSIONS - 1 : fd_table[k] = f BY DEF ToRead
  <2>2. k \in Slot /\ k >= i BY <2>1, LoopAssumption DEF TypeOK, Slot
  <2>3. f \in SocketFd BY DEF ToRead, TypeOK
  <2>4. f # FREE BY <2>3, Descriptors
  <2>5. f \in ConnFd BY <2>1, <2>2, <2>4 DEF TypeOK
  <2> QED BY <2>1, <2>2, <2>4, <2>5 DEF Used
<1>2. ToRead \subseteq SocketFd BY DEF ToRead, TypeOK
<1> QED BY <1>1, <1>2, Descriptors, FS_Subset

\* In a scan there is something left to read, at or behind the index.
LEMMA ScanAtSlot ==
  ASSUME LoopInv, pc = "scan"
  PROVE  i \in Slot /\ i <= max_fd_idx
<1>1. ToRead # {}
  BY FS_EmptySet DEF LoopInv, RestSound, Rest
<1>2. PICK k \in Used : k >= i BY <1>1, ToReadInTable DEF LoopInv
<1>3. k \in Slot /\ k <= max_fd_idx BY DEF Used, LoopInv, SelectSetSound
<1> QED BY <1>2, <1>3, LoopAssumption DEF LoopInv, TypeOK, Slot

\* What the scan is going to read when it begins.
LEMMA ScanStart ==
  ASSUME LoopInv, pc = "tcp"
  PROVE  rset \cap ConnFd = rset \cap InTable
         /\ Rest \ {tcp_socket_fd} = rset \cap ConnFd
<1>1. \A f \in rset \cap ConnFd : conn[f] \in Traffic
  BY LoopAssumption DEF LoopInv, RestSound, Rest
<1>2. rset \cap ConnFd \subseteq InTable
  BY <1>1 DEF LoopInv, SelectSetSound, Traffic
<1>3. InTable \subseteq ConnFd BY DEF LoopInv, SelectSetSound
<1>4. Rest \ {tcp_socket_fd} = rset \cap ConnFd
  BY LoopAssumption DEF LoopInv, TypeOK, SocketFd, Rest
<1> QED BY <1>2, <1>3, <1>4

\* The scan from slot 0 reads whatever select has found of the table.
LEMMA ToReadAtStart ==
  ASSUME NEW T \in [Slot -> ConnFd \cup {FREE}], NEW R \in SUBSET SocketFd
  PROVE  {T[k] : k \in 0..MAX_CONTROL_SESSIONS - 1} \cap R
           = {T[k] : k \in {l \in Slot : T[l] # FREE}} \cap R
BY Descriptors DEF Slot

-----------------------------------------------------------------------------
(* The iteration counts down what it has to deal with. *)

\* Dealing with one descriptor leaves the rest, and its number.
LEMMA OneLess ==
  ASSUME LoopInv, NEW f \in Rest, pc \in {"udp", "tcp", "scan"},
         num_ready_fds - 1 > 0
  PROVE  num_ready_fds - 1 = Cardinality(Rest \ {f})
<1>1. Rest \subseteq SocketFd BY DEF Rest, ToRead, LoopInv, TypeOK
<1>2. IsFiniteSet(Rest) BY <1>1, Descriptors, FS_Subset
<1> QED BY <1>2, FS_RemoveElement DEF LoopInv, RestSound

\* select counts what it returns.
LEMMA RestSelect ==
  ASSUME LoopInv, SelectReady
  PROVE  RestSound'
<1>1. Ready \subseteq SocketFd /\ IsFiniteSet(Ready)
  <2>1. Ready \subseteq SocketFd BY DEF Ready, LoopInv, TypeOK
  <2> QED BY <2>1, Descriptors, FS_Subset
<1>2. Cardinality(Ready) \in Nat /\ Cardinality(Ready) # 0
  BY <1>1, FS_CardinalityType, FS_EmptySet DEF SelectReady
<1>3. Rest' = Ready /\ num_ready_fds' = Cardinality(Ready) /\ pc' = "udp"
  BY DEF SelectReady, Rest, Polled
<1>4. UNCHANGED worldVars BY DEF SelectReady
<1>5. \A f \in Ready \cap ConnFd : conn[f] \in Traffic
  BY LoopAssumption DEF Ready, Readable
<1>6. /\ udp_socket_fd \in Ready => dgrams > 0
      /\ tcp_socket_fd \in Ready => backlog > 0
  BY LoopAssumption DEF Ready, Readable
<1> QED BY <1>2, <1>3, <1>4, <1>5, <1>6 DEF RestSound, worldVars

\* The UDP socket.
LEMMA RestUdp ==
  ASSUME LoopInv, ChatMessage
  PROVE  RestSound'
<1>1. pc = "udp" /\ UNCHANGED <<conn, backlog>> BY DEF ChatMessage
<1>2. CASE pc' = "select" BY <1>2 DEF RestSound
<1>3. CASE udp_socket_fd \in rset /\ pc' # "select"
  <2>1. /\ pc' = "tcp" /\ num_ready_fds' = num_ready_fds - 1 /\ rset' = rset
        /\ num_ready_fds - 1 > 0
    BY <1>3 DEF ChatMessage, OneDone, BackToSelect, LoopInv, TypeOK
  <2>2. udp_socket_fd \in Rest /\ Rest' = Rest \ {udp_socket_fd}
    BY <1>1, <1>3, <2>1 DEF Rest
  <2>3. num_ready_fds' = Cardinality(Rest') BY <1>1, <2>1, <2>2, OneLess
  <2> QED BY <1>1, <2>1, <2>2, <2>3 DEF RestSound, LoopInv
<1>4. CASE udp_socket_fd \notin rset
  <2>1. pc' = "tcp" /\ UNCHANGED <<dgrams, scanVars>> BY <1>4 DEF ChatMessage
  <2>2. Rest' = Rest BY <1>1, <1>4, <2>1 DEF Rest, scanVars
  <2> QED BY <1>1, <2>1, <2>2 DEF RestSound, LoopInv, scanVars
<1> QED BY <1>2, <1>3, <1>4

\* The listening socket, when there is nothing on it.
LEMMA RestNoConnection ==
  ASSUME LoopInv, NoConnection
  PROVE  RestSound'
<1>1. /\ pc = "tcp" /\ pc' = "scan" /\ i' = 0
      /\ UNCHANGED <<rset, num_ready_fds, fd_table, conn>>
      /\ tcp_socket_fd \notin rset
  BY DEF NoConnection, FirstIdx, tableVars, worldVars
<1>2. Rest' = rset \cap InTable
  <2>1. {fd_table[k] : k \in 0..MAX_CONTROL_SESSIONS - 1} \cap rset = InTable \cap rset
    BY ToReadAtStart DEF LoopInv, TypeOK, InTable, Used
  <2> QED BY <1>1, <2>1 DEF Rest, ToRead
<1>3. Rest = rset \cap ConnFd /\ rset \cap ConnFd = rset \cap InTable
  BY <1>1, ScanStart DEF Rest
<1> QED BY <1>1, <1>2, <1>3, LoopAssumption DEF RestSound, LoopInv

\* After an accept, whatever its outcome: the connection it has made, if any, is
\* not among those select has returned.
LEMMA RestAccept ==
  ASSUME LoopInv, AcceptFails \/ Accept \/ AcceptTooMany
  PROVE  RestSound'
<1>1. pc = "tcp" /\ tcp_socket_fd \in rset /\ OneDone("scan")
  BY DEF AcceptFails, Accept, AcceptTooMany
<1>2. CASE pc' = "select" BY <1>2 DEF RestSound
<1>3. CASE pc' # "select"
  <2>1. /\ pc' = "scan" /\ num_ready_fds' = num_ready_fds - 1
        /\ num_ready_fds - 1 > 0 /\ i' = 0 /\ rset' = rset
    BY <1>1, <1>3 DEF OneDone, BackToSelect, FirstIdx, LoopInv, TypeOK
  <2>2. \A f \in rset \cap ConnFd : conn[f] \in Traffic
    BY <1>1, LoopAssumption DEF LoopInv, RestSound, Rest
  <2>3. \A f \in rset \cap ConnFd : conn'[f] = conn[f]
    <3>1. CASE Accept
      <4>1. PICK f \in ConnFd : conn[f] = "closed" /\ conn' = [conn EXCEPT ![f] = "idle"]
        BY <3>1 DEF Accept, LowestFd
      <4>2. f \notin rset BY <2>2, <4>1 DEF Traffic
      <4> QED BY <4>1, <4>2 DEF LoopInv, TypeOK
    <3>2. CASE AcceptFails \/ AcceptTooMany
      BY <3>2 DEF AcceptFails, AcceptTooMany
    <3> QED BY <3>1, <3>2
  <2>4. InTable' \cap rset = InTable \cap rset
    <3>1. CASE Accept
      <4>1. PICK f \in ConnFd, k \in FreeSlot :
              conn[f] = "closed" /\ fd_table' = [fd_table EXCEPT ![k] = f]
        BY <3>1 DEF Accept, LowestFd
      <4>2. f \notin rset BY <2>2, <4>1 DEF Traffic
      <4>3. fd_table[k] = FREE /\ k \in Slot BY DEF FreeSlot
      <4>4. f # FREE BY Descriptors DEF SocketFd
      <4>5. InTable' = InTable \cup {f}
        BY <4>1, <4>3, <4>4 DEF InTable, Used, LoopInv, TypeOK
      <4> QED BY <4>2, <4>5
    <3>2. CASE AcceptFails \/ AcceptTooMany
      BY <3>2 DEF AcceptFails, AcceptTooMany, InTable, Used, tableVars
    <3> QED BY <3>1, <3>2
  <2>5. fd_table' \in [Slot -> ConnFd \cup {FREE}]
    BY DEF AcceptFails, Accept, AcceptTooMany, FreeSlot, LoopInv, TypeOK, tableVars
  <2>6. Rest' = InTable' \cap rset
    <3>1. {fd_table'[k] : k \in 0..MAX_CONTROL_SESSIONS - 1} \cap rset = InTable' \cap rset
      BY <2>5, ToReadAtStart DEF LoopInv, TypeOK, InTable, Used
    <3> QED BY <2>1, <3>1 DEF Rest, ToRead
  <2>7. Rest' = Rest \ {tcp_socket_fd} /\ tcp_socket_fd \in Rest
    BY <1>1, <2>4, <2>6, ScanStart, LoopAssumption DEF Rest
  <2>8. num_ready_fds' = Cardinality(Rest') BY <1>1, <2>1, <2>7, OneLess
  <2>9. Rest' = rset \cap ConnFd BY <1>1, <2>7, ScanStart
  <2> QED BY <2>1, <2>2, <2>3, <2>8, <2>9, LoopAssumption DEF RestSound
<1> QED BY <1>2, <1>3

\* The scan moves past a slot, or closes what it has read.
LEMMA RestScan ==
  ASSUME LoopInv, ScanPast \/ ControlMessage
  PROVE  RestSound'
<1>1. pc = "scan" /\ i \in Slot /\ Rest = ToRead
  BY DEF ScanPast, ControlMessage, Scanning, Rest
<1>2. i \in Int /\ i <= MAX_CONTROL_SESSIONS - 1
  BY <1>1, LoopAssumption DEF Slot
<1>3. i..MAX_CONTROL_SESSIONS - 1 = {i} \cup (i + 1..MAX_CONTROL_SESSIONS - 1)
  BY <1>2, LoopAssumption
<1>4. CASE ScanPast
  <2>1. /\ fd_table[i] \notin rset /\ i' = i + 1 /\ pc' = "scan"
        /\ UNCHANGED <<rset, num_ready_fds, fd_table, conn>>
    BY <1>1, <1>4 DEF ScanPast, tableVars, worldVars
  <2>2. ToRead' = ToRead BY <1>3, <2>1 DEF ToRead
  <2>3. Rest' = Rest BY <1>1, <2>1, <2>2 DEF Rest
  <2> QED BY <1>1, <2>1, <2>3, ToReadInTable, LoopAssumption DEF RestSound, LoopInv
<1>5. CASE ControlMessage /\ pc' = "select" BY <1>5 DEF RestSound
<1>6. CASE ControlMessage /\ pc' # "select"
  <2> DEFINE f == fd_table[i]
  <2>1. /\ f \in rset /\ i' = i + 1 /\ pc' = "scan" /\ rset' = rset
        /\ num_ready_fds' = num_ready_fds - 1 /\ num_ready_fds - 1 > 0
        /\ fd_table' = [fd_table EXCEPT ![i] = FREE]
        /\ conn' = [conn EXCEPT ![f] = "closed"]
    BY <1>1, <1>6 DEF ControlMessage, BackToSelect, LoopInv, TypeOK
  <2>2. f \in ToRead BY <1>3, <2>1 DEF ToRead
  <2>3. ToRead' = ToRead \ {f}
    <3>1. {fd_table'[k] : k \in i + 1..MAX_CONTROL_SESSIONS - 1}
            = {fd_table[k] : k \in i + 1..MAX_CONTROL_SESSIONS - 1}
      BY <1>2, <2>1, LoopAssumption DEF LoopInv, TypeOK, Slot
    <3>2. \A k \in i + 1..MAX_CONTROL_SESSIONS - 1 : fd_table[k] \in rset => fd_table[k] # f
      <4> SUFFICES ASSUME NEW k \in i + 1..MAX_CONTROL_SESSIONS - 1,
                          fd_table[k] \in rset, fd_table[k] = f
                   PROVE  FALSE
        OBVIOUS
      <4>1. k \in Slot /\ k # i BY <1>1, <1>2, LoopAssumption DEF Slot
      <4>2. f # FREE BY <2>1, Descriptors DEF LoopInv, TypeOK
      <4>3. k \in Used /\ i \in Used BY <1>1, <4>1, <4>2 DEF Used
      <4> QED BY <4>1, <4>3 DEF LoopInv, SelectSetSound
    <3> QED BY <1>3, <2>1, <3>1, <3>2 DEF ToRead
  <2>4. Rest' = Rest \ {f} BY <1>1, <2>1, <2>3 DEF Rest
  <2>5. num_ready_fds' = Cardinality(Rest') BY <1>1, <2>1, <2>2, <2>4, OneLess
  <2>6. Rest \subseteq ConnFd BY <1>1, ToReadInTable DEF LoopInv
  <2>7. \A g \in Rest' : g \in ConnFd /\ conn'[g] \in Traffic
    BY <1>1, <2>1, <2>4, <2>6 DEF RestSound, LoopInv, TypeOK
  <2> QED BY <2>1, <2>4, <2>5, <2>6, <2>7, LoopAssumption DEF RestSound
<1> QED BY <1>4, <1>5, <1>6

\* Clients only add to what there is to read.
LEMMA RestClient ==
  ASSUME LoopInv, ClientStep
  PROVE  RestSound'
<1>1. UNCHANGED <<pc, fd_table, scanVars>>
  BY DEF ClientStep, Connect, Datagram, Arrive, tableVars
<1>2. Rest' = Rest BY <1>1 DEF Rest, ToRead, scanVars
<1>3. \A f \in ConnFd : conn[f] \in Traffic => conn'[f] = conn[f]
  BY DEF ClientStep, Connect, Datagram, Arrive, Traffic, LoopInv, TypeOK
<1>4. dgrams' >= dgrams /\ backlog' >= backlog
  BY LoopAssumption DEF ClientStep, Connect, Datagram, Arrive, LoopInv, TypeOK
<1>5. dgrams' \in Int /\ backlog' \in Int /\ dgrams \in Int /\ backlog \in Int
  BY LoopAssumption DEF ClientStep, Connect, Datagram, Arrive, LoopInv, TypeOK
<1> QED BY <1>1, <1>2, <1>3, <1>4, <1>5 DEF RestSound, LoopInv, scanVars

LEMMA RestStep ==
  ASSUME LoopInv, Next
  PROVE  RestSound'
<1>1. CASE SelectReady BY <1>1, RestSelect
<1>2. CASE SelectFails \/ Sweep \/ Tick
  BY <1>2 DEF SelectFails, Sweep, Tick, Asleep, RestSound
<1>3. CASE Iteration
  BY <1>3, RestUdp, RestNoConnection, RestAccept, RestScan DEF Iteration
<1>4. CASE ClientStep BY <1>4, RestClient
<1> QED BY <1>1, <1>2, <1>3, <1>4 DEF Next, ServerStep

-----------------------------------------------------------------------------
(* Types. *)

LEMMA OneDoneType ==
  ASSUME LoopInv, NEW next \in {"tcp", "scan"}, OneDone(next)
  PROVE  /\ pc' \in Location /\ rset' \in SUBSET SocketFd
         /\ num_ready_fds' \in Nat /\ i' \in Nat /\ tmp_fd_idx' \in Slot \cup {-1}
BY DEF OneDone, BackToSelect, LoopInv, TypeOK, Location, FirstIdx

LEMMA TypeStep ==
  ASSUME LoopInv, Next
  PROVE  TypeOK'
<1> USE LoopAssumption
<1>1. CASE SelectReady
  <2>1. Ready \subseteq SocketFd BY DEF Ready, LoopInv, TypeOK
  <2>2. Cardinality(Ready) \in Nat
    BY <2>1, Descriptors, FS_Subset, FS_CardinalityType
  <2> QED BY <1>1, <2>1, <2>2
          DEF SelectReady, LoopInv, TypeOK, Polled, TimeLeft, Location, tableVars, worldVars
<1>2. CASE SelectFails
  BY <1>2 DEF SelectFails, LoopInv, TypeOK, Location, tableVars, scanVars, worldVars, timeVars
<1>3. CASE Sweep
  BY <1>3 DEF Sweep, LoopInv, TypeOK, SweepTimer, GONE, tableVars, scanVars, worldVars
<1>4. CASE Tick
  BY <1>4 DEF Tick, LoopInv, TypeOK, tableVars, scanVars, worldVars
<1>5. CASE ChatMessage
  <2>1. CASE udp_socket_fd \in rset
    <3>1. OneDone("tcp") /\ dgrams' = dgrams - 1 /\ dgrams > 0
      BY <1>5, <2>1 DEF ChatMessage, LoopInv, RestSound, Rest
    <3> QED BY <1>5, <3>1, OneDoneType DEF ChatMessage, LoopInv, TypeOK, tableVars, timeVars
  <2>2. CASE udp_socket_fd \notin rset
    BY <1>5, <2>2 DEF ChatMessage, LoopInv, TypeOK, Location, scanVars, tableVars, timeVars
  <2> QED BY <2>1, <2>2
<1>6. CASE NoConnection
  BY <1>6 DEF NoConnection, LoopInv, TypeOK, Location, FirstIdx, tableVars, worldVars, timeVars
<1>7. CASE AcceptFails \/ Accept \/ AcceptTooMany
  <2>1. OneDone("scan") /\ backlog' \in {backlog - 1, backlog} /\ backlog > 0
    BY <1>7 DEF AcceptFails, Accept, AcceptTooMany, LoopInv, RestSound, Rest
  <2>2. backlog' \in 0..MaxBacklog BY <2>1 DEF LoopInv, TypeOK
  <2>3. CASE AcceptFails
    BY <2>1, <2>2, <2>3, OneDoneType
       DEF AcceptFails, LoopInv, TypeOK, tableVars, timeVars
  <2>4. CASE Accept
    <3>1. PICK f \in ConnFd, k \in FreeSlot :
            /\ fd_table' = [fd_table EXCEPT ![k] = f]
            /\ max_fd_idx' = Higher(max_fd_idx, k)
            /\ maxfd' = MaxFdWith(f) /\ allset' = allset \cup {f}
            /\ conn' = [conn EXCEPT ![f] = "idle"]
      BY <2>4 DEF Accept
    <3>2. k \in Slot BY DEF FreeSlot
    <3>3. max_fd_idx' \in -1..MAX_CONTROL_SESSIONS /\ maxfd' \in SocketFd
      BY <3>1, <3>2 DEF Higher, MaxFdWith, LoopInv, TypeOK, SocketFd, Slot
    <3>4. /\ fd_table' \in [Slot -> ConnFd \cup {FREE}]
          /\ allset' \in SUBSET SocketFd /\ conn' \in [ConnFd -> ConnState]
      BY <3>1, <3>2 DEF LoopInv, TypeOK, SocketFd, ConnState
    <3> QED BY <2>1, <2>2, <2>4, <3>3, <3>4, OneDoneType
            DEF Accept, LoopInv, TypeOK, timeVars
  <2>5. CASE AcceptTooMany
    <3>1. PICK f \in ConnFd : maxfd' = MaxFdWith(f) /\ allset' = allset \cup {f}
      BY <2>5 DEF AcceptTooMany
    <3>2. max_fd_idx' \in -1..MAX_CONTROL_SESSIONS /\ maxfd' \in SocketFd
      BY <2>5, <3>1 DEF AcceptTooMany, Higher, MaxFdWith, LoopInv, TypeOK, SocketFd
    <3>3. allset' \in SUBSET SocketFd BY <3>1 DEF LoopInv, TypeOK, SocketFd
    <3> QED BY <2>1, <2>2, <2>5, <3>2, <3>3, OneDoneType
            DEF AcceptTooMany, LoopInv, TypeOK, timeVars
  <2> QED BY <1>7, <2>3, <2>4, <2>5
<1>8. CASE ScanPast
  <2>1. tmp_fd_idx' \in Slot \cup {-1} /\ i' \in Nat
    BY <1>8 DEF ScanPast, Scanning, LoopInv, TypeOK
  <2> QED BY <1>8, <2>1 DEF ScanPast, LoopInv, TypeOK, tableVars, worldVars, timeVars
<1>9. CASE ControlMessage
  <2>1. i \in Slot /\ fd_table[i] \in ConnFd
    <3>1. fd_table[i] \in SocketFd /\ i \in Slot
      BY <1>9 DEF ControlMessage, Scanning, LoopInv, TypeOK
    <3> QED BY <3>1, Descriptors DEF LoopInv, TypeOK
  <2>2. /\ fd_table' \in [Slot -> ConnFd \cup {FREE}]
        /\ conn' \in [ConnFd -> ConnState]
        /\ allset' \in SUBSET SocketFd
        /\ quiet_flag' \in {0, 1, GONE} /\ age' \in 0..HEARTBEAT
    BY <1>9, <2>1 DEF ControlMessage, LoopInv, TypeOK, ConnState
  <2>3. max_fd_idx' \in -1..MAX_CONTROL_SESSIONS
    BY <1>9 DEF ControlMessage, LoweredIdx, LoopInv, TypeOK, Slot
  <2>4. /\ pc' \in Location /\ rset' \in SUBSET SocketFd
        /\ num_ready_fds' \in Nat /\ i' \in Nat /\ tmp_fd_idx' \in Slot \cup {-1}
    BY <1>9 DEF ControlMessage, BackToSelect, LoopInv, TypeOK, Location
  <2> QED BY <1>9, <2>2, <2>3, <2>4 DEF ControlMessage, LoopInv, TypeOK
<1>10. CASE ClientStep
  <2>1. /\ conn' \in [ConnFd -> ConnState]
        /\ backlog' \in 0..MaxBacklog /\ dgrams' \in 0..MaxDgrams
    BY <1>10 DEF ClientStep, Connect, Datagram, Arrive, LoopInv, TypeOK, ConnState
  <2>2. UNCHANGED <<pc, tableVars, scanVars, timeVars>>
    BY <1>10 DEF ClientStep, Connect, Datagram, Arrive
  <2> QED BY <2>1, <2>2 DEF LoopInv, TypeOK, tableVars, scanVars, timeVars
<1> QED BY <1>1, <1>2, <1>3, <1>4, <1>5, <1>6, <1>7, <1>8, <1>9, <1>10
        DEF Next, ServerStep, Iteration

-----------------------------------------------------------------------------
(* The table and the sets. *)

\* A new connection in the first free slot.
LEMMA SelectSetAccept ==
  ASSUME LoopInv, Accept
  PROVE  SelectSetSound'
<1> USE LoopAssumption
<1>1. PICK f \in ConnFd, k \in FreeSlot :
        /\ conn[f] = "closed"
        /\ fd_table' = [fd_table EXCEPT ![k] = f]
        /\ max_fd_idx' = Higher(max_fd_idx, k)
        /\ maxfd' = Higher(maxfd, f) /\ allset' = allset \cup {f}
        /\ conn' = [conn EXCEPT ![f] = "idle"]
  BY DEF Accept, LowestFd, MaxFdWith
<1>2. k \in Slot /\ fd_table[k] = FREE /\ f # FREE
  BY Descriptors DEF FreeSlot, SocketFd
<1>3. f \notin InTable BY <1>1 DEF LoopInv, SelectSetSound
<1>4. Used' = Used \cup {k} BY <1>1, <1>2 DEF Used, LoopInv, TypeOK
<1>5. \A l \in Used : fd_table'[l] = fd_table[l] /\ fd_table[l] # f
  BY <1>1, <1>2, <1>3 DEF Used, InTable, LoopInv, TypeOK
<1>6. fd_table'[k] = f BY <1>1, <1>2 DEF LoopInv, TypeOK
<1>7. InTable' = InTable \cup {f} BY <1>4, <1>5, <1>6 DEF InTable
<1>8. {g \in ConnFd : conn'[g] # "closed"} = {g \in ConnFd : conn[g] # "closed"} \cup {f}
  BY <1>1 DEF LoopInv, TypeOK
<1>9. \A g \in allset' : g <= maxfd'
  <2>1. maxfd \in Nat /\ f \in Nat /\ allset \subseteq Nat
    BY Descriptors DEF LoopInv, TypeOK, SocketFd
  <2> QED BY <1>1, <2>1 DEF Higher, LoopInv, SelectSetSound
<1>10. \A l \in Used' : l <= max_fd_idx'
  <2>1. max_fd_idx \in Int /\ k \in Int /\ Used \subseteq Int
    BY <1>2 DEF Used, Slot, LoopInv, TypeOK
  <2> QED BY <1>1, <1>4, <2>1 DEF Higher, LoopInv, SelectSetSound
<1>11. ~Overflowed' => ~Overflowed /\ max_fd_idx' \in Used' \cup {-1}
  <2>1. max_fd_idx \in Int /\ k \in Int /\ k < MAX_CONTROL_SESSIONS
    BY <1>2 DEF Slot, LoopInv, TypeOK
  <2> QED BY <1>1, <1>4, <2>1 DEF Higher, Overflowed, LoopInv, SelectSetSound
<1>12. \A l, n \in Used' : fd_table'[l] = fd_table'[n] => l = n
  BY <1>4, <1>5, <1>6 DEF LoopInv, SelectSetSound
<1> QED BY <1>1, <1>7, <1>8, <1>9, <1>10, <1>11, <1>12 DEF LoopInv, SelectSetSound

\* One too many.
LEMMA SelectSetTooMany ==
  ASSUME LoopInv, AcceptTooMany
  PROVE  SelectSetSound'
<1> USE LoopAssumption
<1>1. PICK f \in ConnFd : maxfd' = Higher(maxfd, f) /\ allset' = allset \cup {f}
  BY DEF AcceptTooMany, MaxFdWith
<1>2. Overflowed' /\ max_fd_idx' >= max_fd_idx
  BY DEF AcceptTooMany, Overflowed, Higher, LoopInv, TypeOK
<1>3. \A g \in allset' : g <= maxfd'
  <2>1. maxfd \in Nat /\ f \in Nat /\ allset \subseteq Nat
    BY Descriptors DEF LoopInv, TypeOK, SocketFd
  <2> QED BY <1>1, <2>1 DEF Higher, LoopInv, SelectSetSound
<1>4. Used' = Used /\ InTable' = InTable BY DEF AcceptTooMany, Used, InTable
<1>5. \A k \in Used : k <= max_fd_idx'
  BY <1>2 DEF Used, Slot, LoopInv, TypeOK, SelectSetSound, Overflowed
<1> QED BY <1>1, <1>2, <1>3, <1>4, <1>5
        DEF AcceptTooMany, LoopInv, SelectSetSound, Overflowed

\* A connection that has been read is closed and leaves table and set.
LEMMA SelectSetControl ==
  ASSUME LoopInv, ControlMessage
  PROVE  SelectSetSound'
<1> USE LoopAssumption
<1> DEFINE f == fd_table[i]
<1>1. /\ i \in Slot /\ f \in rset
      /\ fd_table' = [fd_table EXCEPT ![i] = FREE]
      /\ conn' = [conn EXCEPT ![f] = "closed"]
      /\ allset' = allset \ {f} /\ maxfd' = maxfd /\ pc = "scan"
  BY DEF ControlMessage, Scanning
<1>2. f \in ConnFd /\ f # FREE
  <2>1. f \in SocketFd BY <1>1 DEF LoopInv, TypeOK
  <2> QED BY <1>1, <2>1, Descriptors DEF LoopInv, TypeOK
<1>3. i \in Used /\ Used' = Used \ {i}
  BY <1>1, <1>2 DEF Used, LoopInv, TypeOK
<1>4. \A l \in Used' : fd_table'[l] = fd_table[l] /\ fd_table[l] # f
  BY <1>1, <1>3 DEF Used, LoopInv, TypeOK, SelectSetSound
<1>5. InTable' = InTable \ {f} BY <1>3, <1>4 DEF InTable
<1>6. {g \in ConnFd : conn'[g] # "closed"} = {g \in ConnFd : conn[g] # "closed"} \ {f}
  BY <1>1, <1>2 DEF LoopInv, TypeOK
<1>7. \A l, n \in Used' : fd_table'[l] = fd_table'[n] => l = n
  BY <1>3, <1>4 DEF LoopInv, SelectSetSound
<1>8. \A l \in Used' : l <= max_fd_idx'
  <2>1. CASE max_fd_idx' = max_fd_idx
    BY <1>3, <2>1 DEF LoopInv, SelectSetSound
  <2>2. CASE max_fd_idx' # max_fd_idx
    <3>1. i = max_fd_idx /\ max_fd_idx' = tmp_fd_idx
      BY <2>2 DEF ControlMessage, LoweredIdx
    <3>2. \A l \in Used' : l < i
      BY <1>3, <3>1 DEF LoopInv, SelectSetSound, Used, Slot
    <3> QED BY <1>1, <1>3, <3>1, <3>2 DEF LoopInv, TmpSound
  <2> QED BY <2>1, <2>2
<1>9. ~Overflowed' => ~Overflowed /\ max_fd_idx' \in Used' \cup {-1}
  <2>1. CASE i = max_fd_idx
    <3>1. ~Overflowed BY <1>1, <2>1 DEF Slot, Overflowed
    <3>2. pc' = "select" /\ max_fd_idx' = tmp_fd_idx
      <4> SUFFICES ASSUME num_ready_fds - 1 > 0 PROVE FALSE
        BY <2>1 DEF ControlMessage, LoweredIdx, BackToSelect, LoopInv, TypeOK
      <4>1. \A g \in ToRead : g = f
        <5> SUFFICES ASSUME NEW g \in ToRead PROVE g = f OBVIOUS
        <5>1. PICK k \in Used : k >= i /\ fd_table[k] = g BY ToReadInTable DEF LoopInv
        <5>2. k <= i BY <2>1 DEF LoopInv, SelectSetSound
        <5>3. k = i BY <1>1, <5>1, <5>2 DEF Used, Slot
        <5> QED BY <5>1, <5>3
      <4>2. ToRead \ {f} = {} BY <4>1
      <4>3. f \in ToRead
        BY <1>1 DEF ToRead, Slot
      <4>4. num_ready_fds - 1 = Cardinality({})
        <5>1. Rest = ToRead BY <1>1 DEF Rest
        <5> QED BY <1>1, <4>2, <4>3, <5>1, OneLess
      <4> QED BY <4>4, FS_EmptySet
    <3>3. tmp_fd_idx \in Used' \cup {-1}
      BY <1>1, <1>3 DEF LoopInv, TmpSound, Slot, TypeOK
    <3> QED BY <3>1, <3>2, <3>3
  <2>2. CASE i # max_fd_idx
    <3>1. max_fd_idx' = max_fd_idx BY <2>2 DEF ControlMessage, LoweredIdx
    <3> QED BY <1>3, <2>2, <3>1 DEF Overflowed, LoopInv, SelectSetSound
  <2> QED BY <2>1, <2>2
<1>10. tcp_socket_fd # f /\ udp_socket_fd # f BY <1>2
<1> QED BY <1>1, <1>5, <1>6, <1>7, <1>8, <1>9, <1>10 DEF LoopInv, SelectSetSound

LEMMA SelectSetStep ==
  ASSUME LoopInv, Next
  PROVE  SelectSetSound'
<1>1. CASE Accept BY <1>1, SelectSetAccept
<1>2. CASE AcceptTooMany BY <1>2, SelectSetTooMany
<1>3. CASE ControlMessage BY <1>3, SelectSetControl
<1>4. CASE \/ SelectReady \/ SelectFails \/ Sweep \/ Tick
           \/ ChatMessage \/ NoConnection \/ AcceptFails \/ ScanPast
  <2>1. UNCHANGED <<tableVars, conn>>
    BY <1>4 DEF SelectReady, SelectFails, Sweep, Tick, ChatMessage, NoConnection,
                AcceptFails, ScanPast, worldVars
  <2> QED BY <2>1 DEF tableVars, LoopInv, SelectSetSound, Used, InTable, Overflowed
<1>5. CASE ClientStep
  <2>1. UNCHANGED tableVars BY <1>5 DEF ClientStep, Connect, Datagram, Arrive
  <2>2. \A f \in ConnFd : conn'[f] = "closed" <=> conn[f] = "closed"
    BY <1>5 DEF ClientStep, Connect, Datagram, Arrive, Traffic, LoopInv, TypeOK
  <2> QED BY <2>1, <2>2 DEF tableVars, LoopInv, SelectSetSound, Used, InTable, Overflowed
<1> QED BY <1>1, <1>2, <1>3, <1>4, <1>5 DEF Next, ServerStep, Iteration

-----------------------------------------------------------------------------
(* The scan's note of the highest slot it leaves in use. *)

LEMMA TmpStep ==
  ASSUME LoopInv, Next
  PROVE  TmpSound'
<1> USE LoopAssumption
<1>1. CASE pc' # "scan"
  <2>1. tmp_fd_idx' = -1 \/ (tmp_fd_idx' = tmp_fd_idx /\ pc # "scan")
    BY <1>1 DEF Next, ServerStep, Iteration, SelectReady, SelectFails, Sweep, Tick, Asleep,
                ChatMessage, NoConnection, AcceptFails, Accept, AcceptTooMany, ScanPast,
                ControlMessage, Scanning, OneDone, BackToSelect, ClientStep,
                Connect, Datagram, Arrive, scanVars
  <2> QED BY <1>1, <2>1 DEF LoopInv, TmpSound
<1>2. CASE pc' = "scan" /\ pc # "scan"
  <2>1. i' = 0 /\ tmp_fd_idx' = tmp_fd_idx /\ pc = "tcp"
    BY <1>2 DEF Next, ServerStep, Iteration, SelectReady, SelectFails, Sweep, Tick, Asleep,
                ChatMessage, NoConnection, AcceptFails, Accept, AcceptTooMany, ScanPast,
                ControlMessage, Scanning, OneDone, BackToSelect, FirstIdx, ClientStep,
                Connect, Datagram, Arrive
  <2>2. tmp_fd_idx' = -1 BY <2>1 DEF LoopInv, TmpSound
  <2> QED BY <2>1, <2>2 DEF TmpSound, Used, Slot
<1>3. CASE ScanPast
  <2>1. /\ pc = "scan" /\ i \in Slot /\ i' = i + 1 /\ UNCHANGED fd_table
        /\ tmp_fd_idx' = IF fd_table[i] = FREE THEN tmp_fd_idx ELSE i
    BY <1>3 DEF ScanPast, Scanning, tableVars
  <2>2. CASE fd_table[i] = FREE
    <3>1. tmp_fd_idx' = tmp_fd_idx /\ Used' = Used /\ i \notin Used
      BY <2>1, <2>2 DEF Used
    <3>2. i \in Int /\ tmp_fd_idx \in Int BY <2>1 DEF LoopInv, TypeOK, Slot
    <3>3. \A k \in Used : k < i + 1 => k < i BY <3>1, <3>2 DEF Used, Slot
    <3> QED BY <1>3, <2>1, <3>1, <3>2, <3>3 DEF LoopInv, TmpSound, ScanPast
  <2>3. CASE fd_table[i] # FREE
    <3>1. tmp_fd_idx' = i /\ Used' = Used /\ i \in Used
      BY <2>1, <2>3 DEF Used
    <3>2. i \in Int /\ \A k \in Used : k \in Int /\ (k < i + 1 => k <= i)
      BY <2>1 DEF Used, Slot
    <3>3. tmp_fd_idx' \in Used' /\ tmp_fd_idx' < i' BY <2>1, <3>1, <3>2
    <3>4. \A k \in Used' : k < i' => k <= tmp_fd_idx' BY <2>1, <3>1, <3>2
    <3> QED BY <1>3, <2>1, <3>3, <3>4 DEF TmpSound, ScanPast
  <2> QED BY <2>2, <2>3
<1>4. CASE ControlMessage /\ pc' = "scan"
  <2>1. /\ pc = "scan" /\ i \in Slot /\ i' = i + 1 /\ tmp_fd_idx' = tmp_fd_idx
        /\ fd_table' = [fd_table EXCEPT ![i] = FREE]
    BY <1>4 DEF ControlMessage, Scanning, BackToSelect
  <2>2. Used' = Used \ {i} BY <2>1 DEF Used, LoopInv, TypeOK
  <2>3. i \in Int /\ tmp_fd_idx \in Int /\ \A k \in Used : k \in Int
    BY <2>1 DEF LoopInv, TypeOK, Used, Slot
  <2>4. \A k \in Used' : k < i + 1 => k < i BY <2>2, <2>3
  <2> QED BY <1>4, <2>1, <2>2, <2>3, <2>4 DEF LoopInv, TmpSound
<1>5. CASE ClientStep
  BY <1>5 DEF ClientStep, Connect, Datagram, Arrive, LoopInv, TmpSound, Used, tableVars, scanVars
<1>6. CASE Tick
  BY <1>6 DEF Tick, Asleep, LoopInv, TmpSound, tableVars, scanVars
<1>7. pc = "scan" => ScanPast \/ ControlMessage \/ ClientStep \/ Tick
  BY DEF Next, ServerStep, Iteration, SelectReady, SelectFails, Sweep, Asleep,
         ChatMessage, NoConnection, AcceptFails, Accept, AcceptTooMany
<1> QED BY <1>1, <1>2, <1>3, <1>4, <1>5, <1>6, <1>7

-----------------------------------------------------------------------------
(* The timer. *)

\* Asleep, the server has read everything that has arrived.
LEMMA AsleepNoBeat ==
  ASSUME LoopInv, Asleep
  PROVE  NoBeat
<1> SUFFICES ASSUME NEW f \in ConnFd, conn[f] = "beat" PROVE FALSE BY DEF NoBeat
<1>1. f \in InTable BY DEF LoopInv, SelectSetSound
<1>2. f \in allset /\ f <= maxfd BY <1>1 DEF LoopInv, SelectSetSound
<1>3. f \in Ready BY <1>2 DEF Ready, Readable, Traffic
<1> QED BY <1>3 DEF Asleep

LEMMA TimerStep ==
  ASSUME LoopInv, Next
  PROVE  TimerSound'
<1> USE LoopAssumption
<1>1. CASE Sweep
  <2>1. NoBeat /\ tv = 0 /\ sweep_int # 0 BY <1>1, AsleepNoBeat DEF Sweep
  <2>2. age < sweep_int BY <2>1 DEF LoopInv, TypeOK
  <2>3. quiet_flag = 0
    BY <2>1, <2>2 DEF LoopInv, TypeOK, TimerSound
  <2> QED BY <1>1, <2>3 DEF Sweep, SweepTimer, TimerSound, GONE, LoopInv, TypeOK
<1>2. CASE Tick
  <2>1. NoBeat BY <1>2, AsleepNoBeat DEF Tick
  <2> QED BY <1>2, <2>1 DEF Tick, LoopInv, TypeOK, TimerSound, worldVars
<1>3. CASE ControlMessage
  <2>1. CASE conn[fd_table[i]] = "beat"
    BY <1>3, <2>1 DEF ControlMessage, LoopInv, TimerSound, GONE
  <2>2. CASE conn[fd_table[i]] # "beat"
    <3>1. UNCHANGED timeVars BY <1>3, <2>2 DEF ControlMessage, timeVars
    <3>2. NoBeat' => NoBeat
      BY <1>3, <2>2 DEF ControlMessage, NoBeat, LoopInv, TypeOK
    <3> QED BY <3>1, <3>2 DEF timeVars, LoopInv, TimerSound
  <2> QED BY <2>1, <2>2
<1>4. CASE Accept
  <2>1. UNCHANGED timeVars BY <1>4 DEF Accept
  <2>2. NoBeat' => NoBeat
    <3>1. PICK f \in ConnFd : conn[f] = "closed" /\ conn' = [conn EXCEPT ![f] = "idle"]
      BY <1>4 DEF Accept, LowestFd
    <3> QED BY <3>1 DEF NoBeat, LoopInv, TypeOK
  <2> QED BY <2>1, <2>2 DEF timeVars, LoopInv, TimerSound
<1>5. CASE ClientStep
  <2>1. UNCHANGED timeVars BY <1>5 DEF ClientStep, Connect, Datagram, Arrive
  <2>2. NoBeat' => NoBeat
    BY <1>5 DEF ClientStep, Connect, Datagram, Arrive, NoBeat, LoopInv, TypeOK
  <2> QED BY <2>1, <2>2 DEF timeVars, LoopInv, TimerSound
<1>6. CASE \/ SelectReady \/ SelectFails \/ ChatMessage \/ NoConnection
           \/ AcceptFails \/ AcceptTooMany \/ ScanPast
  <2>1. UNCHANGED <<timeVars, conn>>
    BY <1>6 DEF SelectReady, TimeLeft, SelectFails, ChatMessage, NoConnection,
                AcceptFails, AcceptTooMany, ScanPast, timeVars, worldVars
  <2> QED BY <2>1 DEF timeVars, NoBeat, LoopInv, TimerSound
<1> QED BY <1>1, <1>2, <1>3, <1>4, <1>5, <1>6 DEF Next, ServerStep, Iteration

-----------------------------------------------------------------------------
(* The end. *)

LEMMA ExitStep ==
  ASSUME LoopInv, Next
  PROVE  ExitsOnlyWhenFull'
<1>1. CASE SelectFails
  <2>1. PICK f \in allset \cap ConnFd : conn[f] = "closed"
    BY <1>1 DEF SelectFails, BadFd
  <2>2. f \notin InTable BY <2>1 DEF LoopInv, SelectSetSound
  <2>3. f # tcp_socket_fd /\ f # udp_socket_fd BY LoopAssumption
  <2>4. Overflowed BY <2>1, <2>2, <2>3 DEF LoopInv, SelectSetSound
  <2> QED BY <1>1, <2>4 DEF SelectFails, tableVars, Overflowed, ExitsOnlyWhenFull
<1>2. CASE ~SelectFails
  <2>1. pc # "exited" /\ pc' # "exited"
    BY <1>2 DEF Next, ServerStep, Iteration, SelectReady, Sweep, Tick, Asleep,
                ChatMessage, NoConnection, AcceptFails, Accept, AcceptTooMany, ScanPast,
                ControlMessage, Scanning, OneDone, BackToSelect, ClientStep,
                Connect, Datagram, Arrive
  <2> QED BY <2>1 DEF ExitsOnlyWhenFull
<1> QED BY <1>1, <1>2

-----------------------------------------------------------------------------
(* The theorems. *)

LEMMA LoopStep == LoopInv /\ [Next]_vars => LoopInv'
<1> SUFFICES ASSUME LoopInv, [Next]_vars PROVE LoopInv' OBVIOUS
<1>1. CASE Next
  BY <1>1, TypeStep, SelectSetStep, RestStep, TmpStep, TimerStep, ExitStep DEF LoopInv
<1>2. CASE UNCHANGED vars
  BY <1>2 DEF vars, tableVars, scanVars, worldVars, timeVars, LoopInv, TypeOK,
              SelectSetSound, RestSound, Rest, ToRead, TmpSound, TimerSound, NoBeat,
              ExitsOnlyWhenFull, Used, InTable, Overflowed
<1> QED BY <1>1, <1>2

\* The conjuncts describe every reachable state of the loop.
THEOREM LoopInvariant == Spec => []LoopInv
BY InitLoop, LoopStep, PTL DEF Spec

\* Every variable keeps its type; in particular no counter of the loop leaves its
\* range.
THEOREM LoopTypeCorrect == Spec => []TypeOK
<1>1. LoopInv => TypeOK BY DEF LoopInv
<1> QED BY <1>1, LoopInvariant, PTL

\* The table, the set of select and the open connections agree
\* (server_main.c:269-324), for any size of the table.
THEOREM SelectSetCorrect == Spec => []SelectSetSound
<1>1. LoopInv => SelectSetSound BY DEF LoopInv
<1> QED BY <1>1, LoopInvariant, PTL

\* The scan of the table ends in time (server_main.c:303-319).
THEOREM ScanCorrect == Spec => []ScanInBounds
<1>1. LoopInv => ScanInBounds
  BY ScanAtSlot DEF LoopInv, RestSound, Rest, ScanInBounds
<1> QED BY <1>1, LoopInvariant, PTL

\* The loop never waits for one descriptor (server_main.c:225-321).
THEOREM NeverBlocksCorrect == Spec => []NeverBlocks
<1>1. LoopInv => NeverBlocks
  BY ToReadInTable, LoopAssumption DEF LoopInv, RestSound, Rest, NeverBlocks
<1> QED BY <1>1, LoopInvariant, PTL

\* Heartbeats keep a session, whatever the interval of the sweep, as long as it
\* is longer than theirs (server_main.c:136-219).
THEOREM HeartbeatCorrect == Spec => []HeartbeatKeepsSession
<1>1. LoopInv => HeartbeatKeepsSession
  BY DEF LoopInv, TimerSound, HeartbeatKeepsSession
<1> QED BY <1>1, LoopInvariant, PTL

\* The loop does end (NeverExits fails), and of one cause only: select fails after
\* a connection was refused for want of a slot (server_main.c:131, 269-280).
THEOREM ExitCorrect == Spec => []ExitsOnlyWhenFull
<1>1. LoopInv => ExitsOnlyWhenFull BY DEF LoopInv
<1> QED BY <1>1, LoopInvariant, PTL
=============================================================================
