--------------------------- MODULE ReceiverProofs ---------------------------
(***************************************************************************)
(* What holds of the message queue between client and receiver for any      *)
(* size of the queue, any number of tries and any number of lines.          *)
(***************************************************************************)
EXTENDS ReceiverChannel, SequenceTheorems, TLAPS

\* create_receiver_manager has not returned.
InStart == main \in {"init_ipc", "fork", "poll", "waitpid"}

\* The receiver has not reported anything yet.
Unreported ==
  \/ rcv \in {"none", "starting", "init_udp", "send_error"}
  \/ rcv = "send_ok" /\ bound

\* What the start-up has come to: the client leaves it with an answer or after
\* the receiver has ended, so that a receiver that has not reported finds the
\* client waiting and the queue empty.
StartSound ==
  /\ queue # "ours" => ctrl = <<>> /\ recv = <<>>
  /\ main \in {"init_ipc", "fork"} => rcv = "none"
  /\ main \in {"init_ipc", "fork", "poll"} => numtries < IPC_GET_UDP_PORT_TRIALS
  /\ rcv = "none" => main \in {"init_ipc", "fork", "exited"}
  /\ rcv \in {"none", "starting", "init_udp", "send_error"} => ~bound
  /\ InStart => handshake = "none" /\ recv = <<>> /\ said = 0 /\ shown = <<>>
  /\ Unreported => ctrl = <<>> /\ (rcv = "none" \/ main \in {"poll", "waitpid"})
  /\ rcv = "none" => recv = <<>> /\ said = 0 /\ shown = <<>> /\ handshake = "none"
  /\ InStart /\ ctrl # <<>> =>
       IF bound THEN ctrl[1] = [status |-> RECV_READY, value |-> PORT]
                ELSE ctrl[1].status = RECV_NOTREADY
  /\ InStart /\ rcv = "send_ok" /\ ~bound /\ queue = "ours" => ctrl # <<>>

\* The heartbeat thread has been joined, or has never been started.
AtTheEnd == {"quitting", "quit_print", "shutdown", "exited"}

\* Who may still print, and where CHAT_QUIT is.
LinesSound ==
  /\ InStart \/ main \in {"register", "connected"} => hb = "none"
  /\ main \in AtTheEnd => hb \in {"none", "gone"}
  /\ \A k \in 1..Len(shown) : shown[k] = k
  /\ \A k \in 1..Len(recv) :
       \/ recv[k] = Len(shown) + k
       \/ recv[k] = CHAT_QUIT /\ k = Len(recv) /\ main = "exited"
  /\ queue = "ours" /\ ~QuitQueued => said = Len(shown) + Len(recv)
  /\ queue = "ours" /\ QuitQueued => said + 1 = Len(shown) + Len(recv)
  /\ rcv = "done" => said = Len(shown) /\ recv = <<>> /\ main = "exited"

ChannelInv == TypeOK /\ StartSound /\ HandshakeSound /\ LinesSound

\* At the start.
LEMMA InitChannel == Init => ChannelInv
<1> SUFFICES ASSUME Init PROVE ChannelInv OBVIOUS
<1> USE ChannelAssumption
<1>1. TypeOK
  <2>1. /\ ctrl \in Seq(CtrlMsg) /\ Len(ctrl) = 0
        /\ recv \in Seq(Nat) /\ Len(recv) = 0 /\ shown \in Seq(Nat)
    BY EmptySeq DEF Init
  <2>2. numtries \in 0..IPC_GET_UDP_PORT_TRIALS /\ dgrams \in 0..MaxDgrams /\ said \in Nat
        /\ Len(ctrl) + Len(recv) <= QueueSize
    BY <2>1 DEF Init
  <2>3. bound \in BOOLEAN BY DEF Init
  <2>4. /\ queue \in QueueState /\ main \in MainPC /\ hb \in HbPC /\ rcv \in RcvPC
        /\ handshake \in {"none", "ok", "failed"} /\ client_udp_port \in {PORT, GARBAGE}
    BY DEF Init, QueueState, MainPC, HbPC, RcvPC
  <2> QED BY <2>1, <2>2, <2>3, <2>4 DEF TypeOK
<1>2. StartSound BY DEF Init, StartSound, InStart, Unreported
<1>3. HandshakeSound BY DEF Init, HandshakeSound
<1>4. LinesSound BY DEF Init, LinesSound, InStart
<1> QED BY <1>1, <1>2, <1>3, <1>4 DEF ChannelInv

-----------------------------------------------------------------------------
(* The queue. *)

\* A message sent is behind all others, unless the queue has gone.
LEMMA SendToReceiverSound ==
  ASSUME TypeOK, StartSound, NEW msg \in Nat, SendToReceiver(msg)
  PROVE  /\ queue' = queue /\ ctrl' = ctrl /\ queue \in {"ours", "removed"}
         /\ recv' \in Seq(Nat)
         /\ Len(ctrl') + Len(recv') <= QueueSize
         /\ queue = "ours" => /\ Len(recv') = Len(recv) + 1
                              /\ recv'[Len(recv) + 1] = msg
                              /\ \A k \in 1..Len(recv) : recv'[k] = recv[k]
         /\ queue = "removed" => recv' = recv
<1>1. recv \in Seq(Nat) /\ Len(recv) \in Nat /\ Len(ctrl) \in Nat
  BY LenProperties DEF TypeOK
<1>2. /\ Append(recv, msg) \in Seq(Nat)
      /\ Len(Append(recv, msg)) = Len(recv) + 1
      /\ Append(recv, msg)[Len(recv) + 1] = msg
      /\ \A k \in 1..Len(recv) : Append(recv, msg)[k] = recv[k]
  BY <1>1, AppendProperties
<1>3. CASE queue = "ours"
  <2>1. ~(Len(ctrl) + Len(recv) >= QueueSize) /\ recv' = Append(recv, msg)
        /\ queue' = queue /\ ctrl' = ctrl
    BY <1>3 DEF SendToReceiver, Full
  <2>2. Len(ctrl) + (Len(recv) + 1) <= QueueSize BY <1>1, <2>1, ChannelAssumption
  <2> QED BY <1>2, <1>3, <2>1, <2>2
<1>4. CASE queue # "ours"
  BY <1>1, <1>4 DEF SendToReceiver, queueVars, TypeOK
<1> QED BY <1>3, <1>4

LEMMA SendToClientSound ==
  ASSUME TypeOK, NEW msg \in CtrlMsg, SendToClient(msg)
  PROVE  /\ queue' = queue /\ recv' = recv /\ queue \in {"ours", "removed"}
         /\ ctrl' \in Seq(CtrlMsg)
         /\ Len(ctrl') + Len(recv') <= QueueSize
         /\ queue = "ours" => /\ Len(ctrl') = Len(ctrl) + 1
                              /\ ctrl'[Len(ctrl) + 1] = msg
                              /\ \A k \in 1..Len(ctrl) : ctrl'[k] = ctrl[k]
         /\ queue = "removed" => ctrl' = ctrl
<1>1. ctrl \in Seq(CtrlMsg) /\ Len(recv) \in Nat /\ Len(ctrl) \in Nat
  BY LenProperties DEF TypeOK
<1>2. /\ Append(ctrl, msg) \in Seq(CtrlMsg)
      /\ Len(Append(ctrl, msg)) = Len(ctrl) + 1
      /\ Append(ctrl, msg)[Len(ctrl) + 1] = msg
      /\ \A k \in 1..Len(ctrl) : Append(ctrl, msg)[k] = ctrl[k]
  BY <1>1, AppendProperties
<1>3. CASE queue = "ours"
  <2>1. ~(Len(ctrl) + Len(recv) >= QueueSize) /\ ctrl' = Append(ctrl, msg)
        /\ queue' = queue /\ recv' = recv
    BY <1>3 DEF SendToClient, Full
  <2>2. (Len(ctrl) + 1) + Len(recv) <= QueueSize BY <1>1, <2>1, ChannelAssumption
  <2> QED BY <1>2, <1>3, <2>1, <2>2
<1>4. CASE queue # "ours"
  BY <1>1, <1>4 DEF SendToClient, queueVars, TypeOK
<1> QED BY <1>3, <1>4

-----------------------------------------------------------------------------
(* Types. *)

LEMMA TypeStep ==
  ASSUME ChannelInv, Next
  PROVE  TypeOK'
<1> USE ChannelAssumption DEF ChannelInv, TypeOK, QueueState, MainPC, HbPC, RcvPC
<1>1. CASE \/ InitIpc \/ InitIpcFails \/ StartReceiver
           \/ PollNothing \/ WaitReturns \/ Registration \/ UserLine \/ HbLine \/ Quit \/ ClientDies
           \/ HbCancelled \/ Joined \/ QuitSent \/ OpenChannel \/ InitUdpSocket \/ HandleChatServer
           \/ ReceiverDies \/ Datagram
  <2>1. UNCHANGED <<ctrl, recv>>
    BY <1>1 DEF InitIpc, InitIpcFails, StartReceiver, PollNothing, WaitReturns,
         Registration, UserLine, HbLine, Quit, ClientDies, QuitSent, HbCancelled, Joined, OpenChannel,
         InitUdpSocket, HandleChatServer, ReceiverDies, Datagram, queueVars
  <2>2. UNCHANGED <<said, shown>>
    BY <1>1 DEF InitIpc, InitIpcFails, StartReceiver, PollNothing, WaitReturns,
         Registration, UserLine, HbLine, Quit, ClientDies, QuitSent, HbCancelled, Joined, OpenChannel,
         InitUdpSocket, HandleChatServer, ReceiverDies, Datagram, rcvVars, clientVars
  <2>3. CASE InitIpc \/ InitIpcFails \/ StartReceiver \/ Registration
    BY <2>1, <2>2, <2>3 DEF InitIpc, InitIpcFails, StartReceiver, Registration, queueVars, rcvVars
  <2>4. CASE PollNothing
    <3>1. numtries < IPC_GET_UDP_PORT_TRIALS BY <2>4 DEF PollNothing, StartSound
    <3> QED BY <2>1, <2>2, <2>4, <3>1 DEF PollNothing, LastTry, GivenUp, queueVars, rcvVars
  <2>5. CASE WaitReturns
    BY <2>1, <2>2, <2>5 DEF WaitReturns, PortAnswer, queueVars, rcvVars
  <2>6. CASE UserLine \/ HbLine \/ Quit \/ ClientDies \/ HbCancelled \/ Joined \/ QuitSent
    BY <2>1, <2>2, <2>6 DEF UserLine, HbLine, Quit, ClientDies, QuitSent, HbCancelled, Joined, queueVars, rcvVars
  <2>7. CASE OpenChannel \/ InitUdpSocket \/ HandleChatServer \/ ReceiverDies \/ Datagram
    <3>1. rcv' \in RcvPC /\ UNCHANGED <<queueVars, clientVars>>
      BY <2>7 DEF OpenChannel, InitUdpSocket, HandleChatServer, ReceiverDies, Datagram,
                  ReportsFailure, AfterChat
    <3>2. bound' \in BOOLEAN
      BY <2>7 DEF OpenChannel, InitUdpSocket, HandleChatServer, ReceiverDies, Datagram
    <3>3. dgrams' \in 0..MaxDgrams
      BY <2>7 DEF OpenChannel, InitUdpSocket, HandleChatServer, ReceiverDies, Datagram
    <3> QED BY <2>2, <3>1, <3>2, <3>3 DEF queueVars, clientVars
  <2> QED BY <1>1, <2>3, <2>4, <2>5, <2>6, <2>7
<1>2. CASE PollAnswer
  <2>1. Head(ctrl) \in CtrlMsg /\ Tail(ctrl) \in Seq(CtrlMsg) /\ Len(Tail(ctrl)) = Len(ctrl) - 1
    BY <1>2, HeadTailProperties DEF PollAnswer
  <2> QED BY <1>2, <2>1 DEF PollAnswer, PortOf, PortAnswer, rcvVars, CtrlMsg
<1>3. CASE PrintConnected \/ MainPrint \/ HbPrint
  <2>1. SendToReceiver(said + 1) /\ said' = said + 1
    BY <1>3 DEF PrintConnected, MainPrint, HbPrint, SendLine
  <2>2. queue' = queue /\ ctrl' = ctrl /\ recv' \in Seq(Nat)
        /\ Len(ctrl') + Len(recv') <= QueueSize
    BY <2>1, SendToReceiverSound
  <2>3. UNCHANGED <<numtries, client_udp_port, handshake, rcvVars>>
    BY <1>3 DEF PrintConnected, MainPrint, HbPrint
  <2>4. main' \in MainPC /\ hb' \in HbPC BY <1>3 DEF PrintConnected, MainPrint, HbPrint
  <2> QED BY <2>1, <2>2, <2>3, <2>4 DEF rcvVars
<1>4. CASE Shutdown
  <2>1. SendToReceiver(CHAT_QUIT) BY <1>4 DEF Shutdown, QuitMessage
  <2>2. queue' = queue /\ ctrl' = ctrl /\ recv' \in Seq(Nat)
        /\ Len(ctrl') + Len(recv') <= QueueSize
    BY <2>1, SendToReceiverSound DEF CHAT_QUIT
  <2> QED BY <1>4, <2>2 DEF Shutdown, rcvVars
<1>5. CASE SendError \/ SendOk
  <2>1. PICK msg \in CtrlMsg : SendToClient(msg)
    BY <1>5 DEF SendError, SendOk, CtrlMsg
  <2>2. queue' = queue /\ recv' = recv /\ ctrl' \in Seq(CtrlMsg)
        /\ Len(ctrl') + Len(recv') <= QueueSize
    BY <2>1, SendToClientSound
  <2>3. UNCHANGED <<clientVars, bound, dgrams, shown>> /\ rcv' \in RcvPC
    BY <1>5 DEF SendError, SendOk
  <2> QED BY <2>2, <2>3 DEF clientVars
<1>6. CASE HandleChatClient
  <2>1. CASE queue = "ours" /\ recv # <<>>
    <3>1. Head(recv) \in Nat /\ Tail(recv) \in Seq(Nat) /\ Len(Tail(recv)) = Len(recv) - 1
      BY <2>1, HeadTailProperties
    <3>2. Append(shown, Head(recv)) \in Seq(Nat) BY <3>1, AppendProperties
    <3>3. /\ recv' = Tail(recv) /\ rcv' \in {"done", "chatserver"}
          /\ shown' = shown \/ shown' = Append(shown, Head(recv))
          /\ UNCHANGED <<queue, ctrl, clientVars, bound, dgrams>>
      BY <1>6, <2>1 DEF HandleChatClient
    <3>4. Len(ctrl) \in Nat /\ Len(recv) \in Nat BY LenProperties
    <3>5. Len(ctrl') + Len(recv') <= QueueSize BY <3>1, <3>3, <3>4
    <3>6. recv' \in Seq(Nat) /\ shown' \in Seq(Nat) /\ rcv' \in RcvPC BY <3>1, <3>2, <3>3
    <3>7. UNCHANGED <<queue, ctrl, main, hb, numtries, client_udp_port, handshake, said,
                      bound, dgrams>>
      BY <3>3 DEF clientVars
    <3> QED BY <3>5, <3>6, <3>7
  <2>2. CASE queue # "ours" \/ recv = <<>>
    <3>1. /\ UNCHANGED <<queue, ctrl, recv, shown, clientVars, bound, dgrams>>
          /\ rcv' \in {"gone", "chatserver"}
      BY <1>6, <2>2 DEF HandleChatClient
    <3>2. rcv' \in RcvPC BY <3>1
    <3> QED BY <3>1, <3>2 DEF clientVars
  <2> QED BY <2>1, <2>2
<1>7. CASE RemoveQueue
  BY <1>7 DEF RemoveQueue, clientVars, rcvVars
<1> QED BY <1>1, <1>2, <1>3, <1>4, <1>5, <1>6, <1>7 DEF Next, MainStep, HbStep, RcvStep, World

-----------------------------------------------------------------------------
(* Start-up. *)

\* The client's own steps before it prints.
LEMMA StartByMain ==
  ASSUME ChannelInv,
         \/ InitIpc \/ InitIpcFails \/ StartReceiver \/ PollNothing \/ WaitReturns
         \/ Registration \/ Joined \/ QuitSent
  PROVE  StartSound'
<1> USE DEF ChannelInv, StartSound, InStart, Unreported
<1>1. CASE InitIpc BY <1>1, ChannelAssumption DEF InitIpc, rcvVars
<1>2. CASE InitIpcFails BY <1>2 DEF InitIpcFails, queueVars, rcvVars
<1>3. CASE StartReceiver BY <1>3 DEF StartReceiver, queueVars
<1>4. CASE PollNothing
  <2>1. numtries' = numtries + 1 /\ numtries \in Nat /\ numtries < IPC_GET_UDP_PORT_TRIALS
    BY <1>4, ChannelAssumption DEF PollNothing, TypeOK
  <2>2. \/ main' = "poll" /\ numtries' # IPC_GET_UDP_PORT_TRIALS
        \/ main' = "waitpid"
    BY <1>4 DEF PollNothing, LastTry, GivenUp
  <2>3. main' = "poll" => numtries' < IPC_GET_UDP_PORT_TRIALS
    BY <2>1, <2>2, ChannelAssumption
  <2> QED BY <1>4, <2>2, <2>3 DEF PollNothing, queueVars, rcvVars
<1>5. CASE WaitReturns
  BY <1>5 DEF WaitReturns, Over, PortAnswer, queueVars, rcvVars
<1>6. CASE Registration BY <1>6 DEF Registration, queueVars, rcvVars
<1>7. CASE Joined \/ QuitSent BY <1>7 DEF Joined, QuitSent, queueVars, rcvVars
<1> QED BY <1>1, <1>2, <1>3, <1>4, <1>5, <1>6, <1>7

LEMMA StartByPoll ==
  ASSUME ChannelInv, PollAnswer
  PROVE  StartSound'
<1>1. main' = "register" /\ UNCHANGED rcvVars /\ main = "poll" /\ queue = "ours" /\ queue' = queue
  BY DEF PollAnswer, PortOf, PortAnswer
<1>2. ~Unreported /\ rcv # "none"
  BY <1>1 DEF PollAnswer, ChannelInv, StartSound, InStart
<1> QED BY <1>1, <1>2 DEF StartSound, InStart, Unreported, rcvVars

\* Printing and quitting happen after it.
LEMMA StartByLines ==
  ASSUME ChannelInv,
         \/ PrintConnected \/ MainPrint \/ HbPrint \/ Shutdown
         \/ UserLine \/ HbLine \/ Quit \/ ClientDies \/ HbCancelled
  PROVE  StartSound'
<1> USE DEF ChannelInv, StartSound, InStart, Unreported
<1>1. CASE UserLine \/ HbLine \/ Quit \/ HbCancelled
  BY <1>1 DEF UserLine, HbLine, Quit, QuitSent, HbCancelled, queueVars, rcvVars
<1>2. CASE PrintConnected \/ MainPrint \/ HbPrint \/ Shutdown
  <2>1. PICK msg \in Nat : SendToReceiver(msg)
    BY <1>2 DEF PrintConnected, MainPrint, HbPrint, Shutdown, SendLine, QuitMessage, CHAT_QUIT, TypeOK
  <2>2. /\ queue' = queue /\ ctrl' = ctrl /\ queue \in {"ours", "removed"}
        /\ queue = "removed" => recv' = recv
    BY <2>1, SendToReceiverSound
  <2>3. ~InStart
    <3>1. CASE HbPrint BY <3>1 DEF HbPrint, LinesSound
    <3>2. CASE PrintConnected \/ MainPrint \/ Shutdown
      BY <3>2 DEF PrintConnected, MainPrint, Shutdown
    <3> QED BY <1>2, <3>1, <3>2
  <2>4. ~InStart' BY <1>2, <2>3 DEF PrintConnected, MainPrint, HbPrint, Shutdown
  <2>5. rcv # "none"
    <3>1. CASE HbPrint BY <2>3, <3>1 DEF HbPrint, LinesSound, AtTheEnd
    <3>2. CASE PrintConnected \/ MainPrint \/ Shutdown
      BY <3>2 DEF PrintConnected, MainPrint, Shutdown
    <3> QED BY <1>2, <3>1, <3>2
  <2>6. UNCHANGED rcvVars BY <1>2 DEF PrintConnected, MainPrint, HbPrint, Shutdown
  <2>7. ~Unreported BY <2>3, <2>5
  <2> QED BY <2>2, <2>3, <2>4, <2>5, <2>6, <2>7 DEF rcvVars
<1>3. CASE ClientDies
  <2>1. ~InStart /\ main # "exited" BY <1>3 DEF ClientDies, LinesSound, AtTheEnd
  <2>2. rcv # "none" /\ ~Unreported BY <2>1
  <2>3. main' = "dead" /\ UNCHANGED <<queueVars, rcvVars, numtries, handshake, said>>
    BY <1>3 DEF ClientDies
  <2> QED BY <2>1, <2>2, <2>3 DEF queueVars, rcvVars
<1> QED BY <1>1, <1>2, <1>3

\* The receiver reports.
LEMMA StartByReport ==
  ASSUME ChannelInv, SendError \/ SendOk
  PROVE  StartSound'
<1> DEFINE msg == IF rcv = "send_error"
                  THEN [status |-> RECV_NOTREADY, value |-> GARBAGE]
                  ELSE [status |-> RECV_READY, value |-> IF bound THEN PORT ELSE GARBAGE]
<1>1. msg \in CtrlMsg /\ SendToClient(msg) BY DEF SendError, SendOk, CtrlMsg
<1>2. UNCHANGED <<clientVars, bound, dgrams, shown>> BY DEF SendError, SendOk
<1>3. /\ queue' = queue /\ recv' = recv /\ queue \in {"ours", "removed"}
      /\ queue = "ours" => /\ Len(ctrl') = Len(ctrl) + 1
                           /\ ctrl'[Len(ctrl) + 1] = msg
                           /\ \A k \in 1..Len(ctrl) : ctrl'[k] = ctrl[k]
      /\ queue = "removed" => ctrl' = ctrl
  BY <1>1, SendToClientSound DEF ChannelInv
<1>4. ctrl \in Seq(CtrlMsg) /\ Len(ctrl) \in Nat /\ (ctrl = <<>> <=> Len(ctrl) = 0)
  BY LenProperties, EmptySeq DEF ChannelInv, TypeOK
<1>5. ctrl' \in Seq(CtrlMsg) /\ (ctrl' = <<>> <=> Len(ctrl') = 0)
  BY <1>1, SendToClientSound, LenProperties, EmptySeq DEF ChannelInv
<1>6. rcv' # "none" /\ rcv # "none" /\ rcv' \in {"send_ok", "chatserver"}
  BY DEF SendError, SendOk
<1>7. ~Unreported' BY <1>2, <1>6 DEF SendError, SendOk, Unreported, ChannelInv, StartSound
<1>8. queue # "ours" => ctrl' = <<>> /\ recv' = <<>>
  BY <1>3 DEF ChannelInv, StartSound
<1>9. InStart' /\ ctrl' # <<>> =>
        IF bound' THEN ctrl'[1] = [status |-> RECV_READY, value |-> PORT]
                  ELSE ctrl'[1].status = RECV_NOTREADY
  <2> SUFFICES ASSUME InStart, queue = "ours"
               PROVE  IF bound THEN ctrl'[1] = [status |-> RECV_READY, value |-> PORT]
                               ELSE ctrl'[1].status = RECV_NOTREADY
    BY <1>2, <1>3, <1>8 DEF InStart, clientVars
  <2>1. CASE ctrl # <<>>
    <3>1. ctrl'[1] = ctrl[1] BY <1>3, <1>4, <2>1
    <3> QED BY <2>1, <3>1 DEF ChannelInv, StartSound
  <2>2. CASE ctrl = <<>>
    <3>1. ctrl'[1] = msg BY <1>3, <1>4, <2>2
    <3>2. rcv = "send_ok" => bound BY <2>2 DEF ChannelInv, StartSound
    <3>3. CASE rcv = "send_error" /\ bound
      BY <3>3 DEF ChannelInv, StartSound
    <3>4. CASE rcv = "send_error" /\ ~bound BY <3>1, <3>4
    <3>5. CASE rcv = "send_ok" BY <3>1, <3>2, <3>5
    <3> QED BY <3>3, <3>4, <3>5 DEF SendError, SendOk
  <2> QED BY <2>1, <2>2
<1>10. queue = "ours" => ctrl' # <<>> BY <1>3, <1>4, <1>5
<1> QED BY <1>2, <1>3, <1>6, <1>7, <1>8, <1>9, <1>10
        DEF ChannelInv, StartSound, InStart, clientVars

\* The receiver's other steps, and what happens to it.
LEMMA StartByReceiver ==
  ASSUME ChannelInv,
         \/ OpenChannel \/ InitUdpSocket \/ HandleChatServer \/ HandleChatClient
         \/ ReceiverDies \/ Datagram \/ RemoveQueue
  PROVE  StartSound'
<1> USE DEF ChannelInv, StartSound, InStart, Unreported
<1>1. CASE OpenChannel BY <1>1 DEF OpenChannel, queueVars, clientVars
<1>2. CASE InitUdpSocket
  BY <1>2 DEF InitUdpSocket, ReportsFailure, queueVars, clientVars
<1>3. CASE HandleChatServer BY <1>3 DEF HandleChatServer, AfterChat, queueVars, clientVars
<1>4. CASE HandleChatClient
  <2>1. /\ UNCHANGED <<queue, ctrl, main, handshake, said, numtries, bound>>
        /\ rcv = "chatclient" /\ rcv' \in {"gone", "chatserver", "done"}
        /\ recv = <<>> => UNCHANGED <<recv, shown>>
    BY <1>4 DEF HandleChatClient, clientVars
  <2>2. queue # "ours" => UNCHANGED <<recv, shown>>
    BY <1>4 DEF HandleChatClient
  <2> QED BY <2>1, <2>2
<1>5. CASE ReceiverDies BY <1>5 DEF ReceiverDies, Over, queueVars, clientVars
<1>6. CASE Datagram BY <1>6 DEF Datagram, queueVars, clientVars
<1>7. CASE RemoveQueue BY <1>7 DEF RemoveQueue, rcvVars, clientVars
<1> QED BY <1>1, <1>2, <1>3, <1>4, <1>5, <1>6, <1>7

LEMMA StartStep ==
  ASSUME ChannelInv, Next
  PROVE  StartSound'
BY StartByMain, StartByPoll, StartByLines, StartByReport, StartByReceiver
   DEF Next, MainStep, HbStep, RcvStep, World

\* The answer the client takes.
LEMMA HandshakeStep ==
  ASSUME ChannelInv, Next
  PROVE  HandshakeSound'
<1> USE DEF ChannelInv, HandshakeSound
<1>1. CASE PollAnswer
  <2>1. InStart /\ handshake = "none" BY <1>1 DEF PollAnswer, InStart, StartSound
  <2>2. Head(ctrl) = ctrl[1] OBVIOUS
  <2>3. IF bound THEN ctrl[1] = [status |-> RECV_READY, value |-> PORT]
                 ELSE ctrl[1].status = RECV_NOTREADY
    BY <1>1, <2>1 DEF PollAnswer, StartSound
  <2> QED BY <1>1, <2>1, <2>2, <2>3
          DEF PollAnswer, PortOf, PortAnswer, rcvVars, RECV_READY, RECV_NOTREADY
<1>2. CASE InitUdpSocket
  <2>1. handshake = "none" BY <1>2 DEF InitUdpSocket, StartSound, Unreported, InStart
  <2> QED BY <1>2, <2>1 DEF InitUdpSocket, clientVars
<1>3. CASE WaitReturns
  BY <1>3 DEF WaitReturns, PortAnswer, StartSound, InStart
<1>4. CASE ~PollAnswer /\ ~InitUdpSocket /\ ~WaitReturns
  <2>1. UNCHANGED <<handshake, client_udp_port, bound>>
    BY <1>4 DEF Next, MainStep, HbStep, RcvStep, World, InitIpc, InitIpcFails, StartReceiver,
         PollNothing, Registration, PrintConnected, MainPrint, HbPrint, UserLine, HbLine, Quit, ClientDies, QuitSent,
         HbCancelled, Joined, Shutdown, OpenChannel, SendError, SendOk, HandleChatServer,
         HandleChatClient, ReceiverDies, Datagram, RemoveQueue, rcvVars, clientVars
  <2> QED BY <2>1
<1> QED BY <1>1, <1>2, <1>3, <1>4

-----------------------------------------------------------------------------
(* The lines. *)

\* A line sent is the next.
LEMMA LinesByPrint ==
  ASSUME ChannelInv, PrintConnected \/ MainPrint \/ HbPrint
  PROVE  LinesSound'
<1>1. SendToReceiver(said + 1) /\ said' = said + 1 /\ UNCHANGED rcvVars
  BY DEF PrintConnected, MainPrint, HbPrint, SendLine
<1>2. /\ main # "exited" /\ ~InStart /\ ~InStart'
      /\ main' \notin {"register", "connected", "exited"}
  BY DEF PrintConnected, MainPrint, HbPrint, ChannelInv, LinesSound, InStart, AtTheEnd
<1>3. main' \in AtTheEnd => hb' \in {"none", "gone"}
  BY DEF PrintConnected, MainPrint, HbPrint, ChannelInv, LinesSound, AtTheEnd
<1>5. ~QuitQueued BY <1>2 DEF ChannelInv, LinesSound, QuitQueued, CHAT_QUIT, TypeOK
<1>6. Len(shown) \in Nat /\ Len(recv) \in Nat /\ said \in Nat /\ Len(recv') \in Nat
  BY LenProperties, <1>1, SendToReceiverSound DEF ChannelInv, TypeOK
<1>7. rcv # "done" BY <1>2 DEF ChannelInv, LinesSound
<1>8. CASE queue = "ours"
  <2>1. said = Len(shown) + Len(recv) BY <1>5, <1>6, <1>8 DEF ChannelInv, LinesSound
  <2>2. /\ Len(recv') = Len(recv) + 1 /\ recv'[Len(recv) + 1] = said + 1
        /\ \A k \in 1..Len(recv) : recv'[k] = recv[k] /\ queue' = queue
    BY <1>1, <1>6, <1>8, SendToReceiverSound DEF ChannelInv
  <2>3. \A k \in 1..Len(recv') : recv'[k] = Len(shown) + k
    <3> SUFFICES ASSUME NEW k \in 1..Len(recv') PROVE recv'[k] = Len(shown) + k OBVIOUS
    <3>1. CASE k = Len(recv) + 1 BY <1>6, <2>1, <2>2, <3>1
    <3>2. CASE k # Len(recv) + 1
      <4>1. k \in 1..Len(recv) BY <1>6, <2>2, <3>2
      <4> QED BY <1>2, <2>2, <4>1 DEF ChannelInv, LinesSound
    <3> QED BY <3>1, <3>2
  <2>4. ~QuitQueued' BY <1>6, <2>3 DEF QuitQueued, CHAT_QUIT
  <2>5. said' = Len(shown) + Len(recv') BY <1>1, <1>6, <2>1, <2>2
  <2> QED BY <1>1, <1>2, <1>3, <1>6, <1>7, <2>3, <2>4, <2>5 DEF ChannelInv, LinesSound, rcvVars
<1>9. CASE queue # "ours"
  <2>1. queue' = queue /\ recv' = recv
    BY <1>1, <1>6, <1>9, SendToReceiverSound DEF ChannelInv
  <2>2. recv = <<>> /\ Len(recv) = 0 BY <1>9, EmptySeq DEF ChannelInv, StartSound
  <2> QED BY <1>1, <1>2, <1>3, <1>7, <1>9, <2>1, <2>2 DEF ChannelInv, LinesSound, rcvVars
<1> QED BY <1>8, <1>9

\* CHAT_QUIT is the last: nobody is left to print.
LEMMA LinesByShutdown ==
  ASSUME ChannelInv, Shutdown
  PROVE  LinesSound'
<1>1. /\ SendToReceiver(CHAT_QUIT) /\ UNCHANGED <<rcvVars, said, hb>>
      /\ main = "shutdown" /\ main' = "exited"
  BY DEF Shutdown, QuitMessage
<1>2. Len(shown) \in Nat /\ Len(recv) \in Nat /\ said \in Nat
  BY LenProperties DEF ChannelInv, TypeOK
<1>3. ~QuitQueued
  <2> SUFFICES ASSUME NEW k \in 1..Len(recv), recv[k] = 0 PROVE FALSE BY DEF QuitQueued, CHAT_QUIT
  <2>1. recv[k] = Len(shown) + k BY <1>1 DEF ChannelInv, LinesSound
  <2> QED BY <1>2, <2>1
<1>4. rcv # "done" BY <1>1 DEF ChannelInv, LinesSound
<1>5. CHAT_QUIT \in Nat BY DEF CHAT_QUIT
<1>6. CASE queue = "ours"
  <2>1. /\ Len(recv') = Len(recv) + 1 /\ recv'[Len(recv) + 1] = CHAT_QUIT
        /\ \A k \in 1..Len(recv) : recv'[k] = recv[k]
    BY <1>1, <1>5, <1>6, SendToReceiverSound DEF ChannelInv
  <2>2. \A k \in 1..Len(recv') :
          recv'[k] = Len(shown) + k \/ (recv'[k] = CHAT_QUIT /\ k = Len(recv'))
    <3> SUFFICES ASSUME NEW k \in 1..Len(recv'), k # Len(recv')
                 PROVE  recv'[k] = Len(shown) + k
      BY <2>1
    <3>1. k \in 1..Len(recv) BY <1>2, <2>1
    <3> QED BY <1>1, <2>1, <3>1 DEF ChannelInv, LinesSound
  <2>3. QuitQueued'
    <3>1. Len(recv') \in 1..Len(recv') BY <1>2, <2>1
    <3> QED BY <2>1, <3>1 DEF QuitQueued
  <2>4. said + 1 = Len(shown) + Len(recv')
    BY <1>3, <1>2, <1>6, <2>1 DEF ChannelInv, LinesSound
  <2> QED BY <1>1, <1>4, <2>2, <2>3, <2>4 DEF ChannelInv, LinesSound, rcvVars, InStart, AtTheEnd
<1>7. CASE queue # "ours"
  <2>1. queue' = queue /\ recv' = recv
    BY <1>1, <1>5, <1>7, SendToReceiverSound DEF ChannelInv
  <2>2. recv = <<>> /\ Len(recv) = 0 BY <1>7, EmptySeq DEF ChannelInv, StartSound
  <2> QED BY <1>1, <1>4, <1>7, <2>1, <2>2 DEF ChannelInv, LinesSound, rcvVars, InStart, AtTheEnd
<1> QED BY <1>6, <1>7

\* What the first message of a queue is, and what is behind it.
LEMMA FirstAndRest ==
  ASSUME NEW s \in Seq(Nat), s # <<>>
  PROVE  /\ Len(s) \in Nat /\ Len(s) # 0
         /\ Head(s) = s[1] /\ Head(s) \in Nat
         /\ Tail(s) \in Seq(Nat) /\ Len(Tail(s)) = Len(s) - 1
         /\ \A k \in 1..Len(Tail(s)) : Tail(s)[k] = s[k + 1]
<1>1. Len(s) \in Nat /\ Len(s) # 0 BY LenProperties, EmptySeq
<1>2. /\ Head(s) \in Nat /\ Tail(s) \in Seq(Nat) /\ Len(Tail(s)) = Len(s) - 1
      /\ \A k \in 1..Len(Tail(s)) : Tail(s)[k] = s[k + 1]
  BY HeadTailProperties, Zenon
<1>3. Head(s) = s[1] OBVIOUS
<1> QED BY <1>1, <1>2, <1>3, Zenon

\* The receiver takes the first message.
LEMMA LinesByReceiver ==
  ASSUME ChannelInv, HandleChatClient
  PROVE  LinesSound'
<1>1. UNCHANGED <<queue, main, hb, said>> /\ rcv = "chatclient"
  BY DEF HandleChatClient, clientVars
<1>2. CASE queue = "ours" /\ recv # <<>>
  <2>1. /\ Len(shown) \in Nat /\ Len(recv) \in Nat /\ said \in Nat /\ Len(recv) # 0
        /\ Head(recv) = recv[1] /\ Head(recv) \in Nat
        /\ Tail(recv) \in Seq(Nat) /\ Len(Tail(recv)) = Len(recv) - 1
        /\ \A k \in 1..Len(Tail(recv)) : Tail(recv)[k] = recv[k + 1]
    <3>1. recv \in Seq(Nat) /\ shown \in Seq(Nat) /\ said \in Nat
      BY Zenon DEF ChannelInv, TypeOK
    <3> QED BY <1>2, <3>1, FirstAndRest, LenProperties, Zenon
  <2>2. recv' = Tail(recv) /\ Len(recv') = Len(recv) - 1
        /\ \A k \in 1..Len(recv') : recv'[k] = recv[k + 1]
    <3>1. recv' = Tail(recv) BY <1>2, SMTT(30) DEF HandleChatClient
    <3> QED BY <2>1, <3>1, Zenon
  <2>3. 1 \in 1..Len(recv) BY <2>1
  <2>4. CASE Head(recv) = CHAT_QUIT
    <3>1. rcv' = "done" /\ shown' = shown BY <1>2, <2>4 DEF HandleChatClient
    <3>2. QuitQueued BY <2>1, <2>3, <2>4 DEF QuitQueued
    <3>3. Len(recv) = 1 /\ main = "exited"
      <4>1. \/ recv[1] = Len(shown) + 1
            \/ 1 = Len(recv) /\ main = "exited"
        BY <2>3 DEF ChannelInv, LinesSound
      <4> QED BY <2>1, <2>4, <4>1 DEF CHAT_QUIT
    <3>4. said = Len(shown) BY <1>2, <2>1, <3>2, <3>3 DEF ChannelInv, LinesSound
    <3>5. recv' = <<>> /\ Len(recv') = 0 /\ ~QuitQueued'
      <4>1. recv' = <<>> /\ Len(recv') = 0 BY <2>1, <2>2, <3>3, EmptySeq
      <4> QED BY <4>1 DEF QuitQueued
    <3>6. said = Len(shown) + 0 BY <2>1, <3>4
    <3> QED BY <1>1, <3>1, <3>3, <3>4, <3>5, <3>6 DEF ChannelInv, LinesSound, InStart, AtTheEnd
  <2>5. CASE Head(recv) # CHAT_QUIT
    <3>1. rcv' = "chatserver" /\ shown' = Append(shown, Head(recv))
      <4>1. /\ recv' = Tail(recv)
            /\ IF Head(recv) = CHAT_QUIT
               THEN rcv' = "done" /\ shown' = shown
               ELSE rcv' = "chatserver" /\ shown' = Append(shown, Head(recv))
        BY <1>2, SMTT(30) DEF HandleChatClient
      <4> QED BY <2>5, <4>1
    <3>2. Head(recv) = Len(shown) + 1
      BY <2>1, <2>3, <2>5 DEF ChannelInv, LinesSound
    <3>3. /\ Len(shown') = Len(shown) + 1 /\ shown'[Len(shown) + 1] = Len(shown) + 1
          /\ \A k \in 1..Len(shown) : shown'[k] = shown[k]
      BY <2>1, <3>1, <3>2, AppendProperties DEF ChannelInv, TypeOK
    <3>4. \A k \in 1..Len(shown') : shown'[k] = k
      <4> SUFFICES ASSUME NEW k \in 1..Len(shown') PROVE shown'[k] = k OBVIOUS
      <4>1. k = Len(shown) + 1 \/ k \in 1..Len(shown) BY <2>1, <3>3
      <4> QED BY <3>3, <4>1 DEF ChannelInv, LinesSound
    <3>5. \A k \in 1..Len(recv') :
            \/ recv'[k] = Len(shown') + k
            \/ recv'[k] = CHAT_QUIT /\ k = Len(recv') /\ main = "exited"
      <4> SUFFICES ASSUME NEW k \in 1..Len(recv')
                   PROVE  \/ recv'[k] = Len(shown') + k
                          \/ recv'[k] = CHAT_QUIT /\ k = Len(recv') /\ main = "exited"
        OBVIOUS
      <4>1. k + 1 \in 1..Len(recv) /\ recv'[k] = recv[k + 1] BY <2>1, <2>2
      <4>2. \/ recv[k + 1] = Len(shown) + (k + 1)
            \/ recv[k + 1] = CHAT_QUIT /\ k + 1 = Len(recv) /\ main = "exited"
        BY <4>1 DEF ChannelInv, LinesSound
      <4>3. /\ k \in Nat /\ Len(recv') = Len(recv) - 1 /\ Len(shown') = Len(shown) + 1
            /\ Len(recv) \in Nat /\ Len(shown) \in Nat
        BY <2>1, <2>2, <3>3
      <4>4. CASE recv[k + 1] = Len(shown) + (k + 1) BY <4>1, <4>3, <4>4
      <4>5. CASE recv[k + 1] = CHAT_QUIT /\ k + 1 = Len(recv) /\ main = "exited"
        BY <4>1, <4>3, <4>5
      <4> QED BY <4>2, <4>4, <4>5
    <3>6. QuitQueued' <=> QuitQueued
      <4>1. \A k \in 1..Len(recv') : k + 1 \in 1..Len(recv) /\ recv'[k] = recv[k + 1]
        BY <2>1, <2>2
      <4>2. \A k \in 1..Len(recv) : k # 1 => k - 1 \in 1..Len(recv') /\ recv'[k - 1] = recv[k]
        BY <2>1, <2>2
      <4>3. recv[1] # CHAT_QUIT BY <2>1, <2>5
      <4>4. ASSUME QuitQueued PROVE QuitQueued'
        <5>1. PICK k \in 1..Len(recv) : recv[k] = CHAT_QUIT BY <4>4 DEF QuitQueued
        <5>2. k # 1 BY <4>3, <5>1
        <5>3. k - 1 \in 1..Len(recv') /\ recv'[k - 1] = CHAT_QUIT BY <4>2, <5>1, <5>2
        <5> QED BY <5>3 DEF QuitQueued
      <4>5. ASSUME QuitQueued' PROVE QuitQueued
        <5>1. PICK k \in 1..Len(recv') : recv'[k] = CHAT_QUIT BY <4>5 DEF QuitQueued
        <5>2. k + 1 \in 1..Len(recv) /\ recv[k + 1] = CHAT_QUIT BY <4>1, <5>1
        <5> QED BY <5>2 DEF QuitQueued
      <4> QED BY <4>4, <4>5
    <3>7. Len(shown') + Len(recv') = Len(shown) + Len(recv) BY <2>1, <2>2, <3>3
    <3>8. /\ ~QuitQueued' => said = Len(shown') + Len(recv')
          /\ QuitQueued' => said + 1 = Len(shown') + Len(recv')
      BY <1>2, <3>6, <3>7 DEF ChannelInv, LinesSound
    <3> QED BY <1>1, <3>1, <3>4, <3>5, <3>8 DEF ChannelInv, LinesSound, InStart, AtTheEnd
  <2> QED BY <2>4, <2>5
<1>3. CASE queue # "ours" \/ recv = <<>>
  <2>1. UNCHANGED <<recv, shown>> /\ rcv' \in {"gone", "chatserver"}
    BY <1>3 DEF HandleChatClient
  <2> QED BY <1>1, <2>1 DEF ChannelInv, LinesSound, InStart, QuitQueued
<1> QED BY <1>2, <1>3

\* The rest leaves the lines alone.
LEMMA LinesByOthers ==
  ASSUME ChannelInv, Next,
         ~PrintConnected, ~MainPrint, ~HbPrint, ~Shutdown, ~HandleChatClient
  PROVE  LinesSound'
<1>1. CASE RemoveQueue
  <2>1. recv' = <<>> /\ Len(recv') = 0 /\ queue' = "removed"
        /\ UNCHANGED <<main, hb, said, shown, rcv>>
    BY <1>1, EmptySeq DEF RemoveQueue, clientVars, rcvVars
  <2> QED BY <2>1 DEF ChannelInv, LinesSound, InStart, AtTheEnd
<1>2. CASE ~RemoveQueue
  <2>1. UNCHANGED <<recv, said, shown>>
    BY <1>2 DEF Next, MainStep, HbStep, RcvStep, World, InitIpc, InitIpcFails, StartReceiver,
         PollAnswer, PollNothing, WaitReturns, Registration, UserLine, HbLine, Quit, ClientDies, QuitSent,
         HbCancelled, Joined, OpenChannel, InitUdpSocket, SendError, SendOk, SendToClient,
         HandleChatServer, ReceiverDies, Datagram, rcvVars, clientVars, queueVars
  <2>2. (rcv' = "done" => rcv = "done") /\ (main = "exited" => main' = "exited")
    <3>1. CASE ClientDies
      BY <3>1 DEF ClientDies, rcvVars, ChannelInv, LinesSound, AtTheEnd
    <3>2. CASE ~ClientDies
      BY <1>2, <3>2 DEF Next, MainStep, HbStep, RcvStep, World, InitIpc, InitIpcFails,
           StartReceiver, PollAnswer, PollNothing, WaitReturns, Registration, UserLine, HbLine,
           Quit, QuitSent, HbCancelled, Joined, OpenChannel, InitUdpSocket, SendError, SendOk,
           ReportsFailure, AfterChat, HandleChatServer, ReceiverDies, Datagram, rcvVars, clientVars
    <3> QED BY <3>1, <3>2
  <2>3. /\ InStart' \/ main' \in {"register", "connected"} => hb' = "none"
        /\ main' \in AtTheEnd => hb' \in {"none", "gone"}
    BY <1>2 DEF Next, MainStep, HbStep, RcvStep, World, InitIpc, InitIpcFails, StartReceiver,
         PollAnswer, PollNothing, PortOf, PortAnswer, GivenUp, WaitReturns, Registration,
         UserLine, HbLine, Quit, ClientDies, QuitSent, HbCancelled, Joined, HbOver, OpenChannel, InitUdpSocket,
         SendError, SendOk, HandleChatServer, ReceiverDies, Datagram, clientVars,
         ChannelInv, LinesSound, InStart, AtTheEnd
  <2>4. queue' = "ours" => /\ ~QuitQueued => said = Len(shown) + Len(recv)
                           /\ QuitQueued => said + 1 = Len(shown) + Len(recv)
    <3>1. CASE InitIpc
      <4>1. rcv = "none" BY <3>1 DEF InitIpc, ChannelInv, StartSound
      <4>2. recv = <<>> /\ said = 0 /\ shown = <<>> BY <4>1 DEF ChannelInv, StartSound
      <4>3. Len(recv) = 0 /\ Len(shown) = 0 BY <4>2, EmptySeq
      <4>4. ~QuitQueued BY <4>3 DEF QuitQueued
      <4> QED BY <4>2, <4>3, <4>4
    <3>2. CASE ~InitIpc
      <4>1. queue' = queue
        BY <1>2, <3>2 DEF Next, MainStep, HbStep, RcvStep, World, InitIpcFails, StartReceiver,
             PollAnswer, PollNothing, WaitReturns, Registration, UserLine, HbLine, Quit, ClientDies, QuitSent,
             HbCancelled, Joined, OpenChannel, InitUdpSocket, SendError, SendOk, SendToClient,
             HandleChatServer, ReceiverDies, Datagram, queueVars
      <4> QED BY <4>1 DEF ChannelInv, LinesSound
    <3> QED BY <3>1, <3>2
  <2>5. QuitQueued' <=> QuitQueued BY <2>1 DEF QuitQueued
  <2> QED BY <2>1, <2>2, <2>3, <2>4, <2>5 DEF ChannelInv, LinesSound
<1> QED BY <1>1, <1>2

-----------------------------------------------------------------------------
(* The theorems. *)

LEMMA ChannelStep == ChannelInv /\ [Next]_vars => ChannelInv'
<1> SUFFICES ASSUME ChannelInv, [Next]_vars PROVE ChannelInv' OBVIOUS
<1>1. CASE Next
  <2>1. LinesSound'
    BY <1>1, LinesByPrint, LinesByShutdown, LinesByReceiver, LinesByOthers
  <2> QED BY <1>1, <2>1, TypeStep, StartStep, HandshakeStep DEF ChannelInv
<1>2. CASE UNCHANGED vars
  BY <1>2 DEF vars, queueVars, clientVars, rcvVars, ChannelInv, TypeOK, StartSound, InStart,
              Unreported, HandshakeSound, LinesSound, QuitQueued
<1> QED BY <1>1, <1>2

\* The conjuncts describe every reachable state of client and receiver.
THEOREM ChannelInvariant == Spec => []ChannelInv
BY InitChannel, ChannelStep, PTL DEF Spec

\* Every variable keeps its type, and the queue holds no more than it has room for.
THEOREM ChannelTypeCorrect == Spec => []TypeOK
<1>1. ChannelInv => TypeOK BY DEF ChannelInv
<1> QED BY <1>1, ChannelInvariant, PTL

\* get_client_udp_port does not report a port the receiver does not have
\* (receiver_mgr.c:83-131, client_recv.c:112-127).
THEOREM HandshakeCorrect == Spec => []HandshakeSound
<1>1. ChannelInv => HandshakeSound BY DEF ChannelInv
<1> QED BY <1>1, ChannelInvariant, PTL

\* Lines are printed in order, once, and before the receiver is ended
\* (receiver_mgr.c:164-195, client_core.c:122-128).
THEOREM LinesCorrect == Spec => []LinesInOrder
<1>1. ChannelInv => LinesInOrder
  <2> SUFFICES ASSUME ChannelInv PROVE LinesInOrder OBVIOUS
  <2>1. LinesSound BY DEF ChannelInv
  <2> QED BY <2>1 DEF LinesSound, LinesInOrder
<1> QED BY <1>1, ChannelInvariant, PTL

\* A receiver that has its socket never waits for room to say so
\* (client_recv.c:25-38).
THEOREM ReceiverUnchokedCorrect == Spec => []ReceiverUnchoked
<1>1. ChannelInv => ReceiverUnchoked
  <2> SUFFICES ASSUME ChannelInv, rcv \in {"send_error", "send_ok"}, Full,
                      rcv = "send_error" \/ bound
               PROVE  FALSE
    BY DEF ReceiverUnchoked
  <2>1. Unreported /\ rcv # "none" BY DEF Unreported
  <2>2. InStart BY <2>1 DEF ChannelInv, StartSound, InStart
  <2>3. ctrl = <<>> /\ recv = <<>> BY <2>1, <2>2 DEF ChannelInv, StartSound
  <2>4. Len(ctrl) = 0 /\ Len(recv) = 0 BY <2>3, EmptySeq
  <2> QED BY <2>4, ChannelAssumption DEF Full
<1> QED BY <1>1, ChannelInvariant, PTL
=============================================================================
