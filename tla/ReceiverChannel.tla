--------------------------- MODULE ReceiverChannel ---------------------------
(***************************************************************************)
(* The chat client and its receiver process, which share one System V       *)
(* message queue (receiver_mgr.c, client_recv.c): how the receiver is       *)
(* started and tells its UDP port, the lines the client has it print, and   *)
(* how it is ended.                                                         *)
(*                                                                          *)
(* The queue keeps the messages of a type in order, and messages of both    *)
(* types take the same space: sending waits while there is none.  What the  *)
(* client does between two lines is ClientSender's matter.                  *)
(***************************************************************************)
EXTENDS Naturals, Sequences

CONSTANTS
  IPC_GET_UDP_PORT_TRIALS,
  QueueSize,      \* messages the queue has room for
  PORT, GARBAGE,  \* the port of the receiver's socket; an uninitialised variable
  MaxLines,       \* bound: lines printed in a behaviour
  MaxDgrams       \* bound: chat messages the receiver's socket holds

ASSUME ChannelAssumption ==
  /\ IPC_GET_UDP_PORT_TRIALS \in Nat \ {0}
  /\ QueueSize \in Nat \ {0}
  /\ PORT # GARBAGE
  /\ MaxLines \in Nat /\ MaxDgrams \in Nat

VARIABLES
  queue,            \* the message queue: see QueueState
  ctrl,             \* its messages of CTRL_TYPE, to the client
  recv,             \* its messages of RECV_TYPE, to the receiver
  main,             \* where the client's main thread is: see MainPC
  hb,               \* where its heartbeat thread is: see HbPC
  numtries,
  client_udp_port,  \* as the client knows it
  handshake,        \* history: what get_client_udp_port has returned
  rcv,              \* where the receiver is: see RcvPC
  bound,            \* whether the receiver has its socket
  dgrams,           \* chat messages waiting in its socket
  said,             \* history: lines the client has sent
  shown             \* history: lines the receiver has printed

queueVars  == <<queue, ctrl, recv>>
clientVars == <<main, hb, numtries, client_udp_port, handshake, said>>
rcvVars    == <<rcv, bound, dgrams, shown>>
vars == <<queueVars, clientVars, rcvVars>>

\* A queue of that key may be left from a client that has ended; anyone may
\* remove ours (init_ipc_with_receiver of a client that gets the same key does).
QueueState == {"none", "stale", "ours", "removed"}

RECV_READY    == 1
RECV_NOTREADY == 2
CtrlMsg == [status : {RECV_READY, RECV_NOTREADY}, value : {PORT, GARBAGE}]

\* A line is the number of its msgsnd.
CHAT_QUIT == 0

\* connected: registered, and about to say so; quitting: in send_quit_request;
\* dead: killed by a signal.
MainPC == {"init_ipc", "fork", "poll", "waitpid", "register", "connected", "idle",
           "print", "join", "quitting", "quit_print", "shutdown", "exited", "dead"}
HbPC == {"none", "sleep", "print", "gone"}
\* done: ended by CHAT_QUIT; gone: ended otherwise, or never started.
RcvPC == {"none", "starting", "init_udp", "send_error", "send_ok",
          "chatserver", "chatclient", "done", "gone"}

\* The type of every variable, and the room in the queue.
TypeOK ==
  /\ queue \in QueueState
  /\ ctrl \in Seq(CtrlMsg) /\ recv \in Seq(Nat)
  /\ Len(ctrl) + Len(recv) <= QueueSize
  /\ main \in MainPC /\ hb \in HbPC
  /\ numtries \in 0..IPC_GET_UDP_PORT_TRIALS
  /\ client_udp_port \in {PORT, GARBAGE}
  /\ handshake \in {"none", "ok", "failed"}
  /\ rcv \in RcvPC /\ bound \in BOOLEAN
  /\ dgrams \in 0..MaxDgrams
  /\ said \in Nat /\ shown \in Seq(Nat)

Init ==
  /\ queue \in {"none", "stale"} /\ ctrl = <<>> /\ recv = <<>>
  /\ main = "init_ipc" /\ hb = "none" /\ numtries = 0
  /\ client_udp_port = GARBAGE /\ handshake = "none"
  /\ rcv = "none" /\ bound = FALSE /\ dgrams = 0
  /\ said = 0 /\ shown = <<>>

-----------------------------------------------------------------------------
(* The queue. *)

Full == Len(ctrl) + Len(recv) >= QueueSize

\* Mutated form of SendToReceiver: IPC_NOWAIT, and what there is no room for is lost.
SendToReceiverAtOnce(msg) ==
  \/ queue = "ours" /\ ~Full /\ recv' = Append(recv, msg) /\ UNCHANGED <<queue, ctrl>>
  \/ (Full \/ queue = "removed") /\ UNCHANGED queueVars

\* msgsnd of RECV_TYPE waits for room; it fails at once, unnoticed, on a queue
\* that is gone.
SendToReceiver(msg) ==
  \/ queue = "ours" /\ ~Full /\ recv' = Append(recv, msg) /\ UNCHANGED <<queue, ctrl>>
  \/ queue = "removed" /\ UNCHANGED queueVars
SendToClient(msg) ==
  \/ queue = "ours" /\ ~Full /\ ctrl' = Append(ctrl, msg) /\ UNCHANGED <<queue, recv>>
  \/ queue = "removed" /\ UNCHANGED queueVars

\* A file for the key and a new queue, in the place of one left over.
InitIpc ==
  /\ main = "init_ipc" /\ queue' = "ours" /\ main' = "fork"
  /\ UNCHANGED <<ctrl, recv, hb, numtries, client_udp_port, handshake, said, rcvVars>>

\* No file or no queue: there is no client.
InitIpcFails ==
  /\ main = "init_ipc" /\ main' = "exited"
  /\ UNCHANGED <<queueVars, hb, numtries, client_udp_port, handshake, said, rcvVars>>

\* Someone else removes the queue, with what is in it.
RemoveQueue ==
  /\ queue = "ours" /\ queue' = "removed" /\ ctrl' = <<>> /\ recv' = <<>>
  /\ UNCHANGED <<clientVars, rcvVars>>

-----------------------------------------------------------------------------
(* The client starts the receiver. *)

\* fork may fail; the client goes on all the same.
StartReceiver ==
  /\ main = "fork" /\ main' = "poll"
  /\ rcv' \in {"starting", "gone"}
  /\ UNCHANGED <<queueVars, hb, numtries, client_udp_port, handshake, said,
                 bound, dgrams, shown>>

\* What get_client_udp_port returns is not looked at: create_client_core goes on
\* to register with client_udp_port whatever it is.
PortAnswer(result, port) ==
  /\ handshake' = result /\ client_udp_port' = port /\ main' = "register"

\* Mutated form of PortOf: the status is not looked at.
AnyPortOf(msg) == PortAnswer("ok", msg.value)

PortOf(msg) ==
  IF msg.status = RECV_READY THEN PortAnswer("ok", msg.value)
                             ELSE PortAnswer("failed", client_udp_port)

PollAnswer ==
  /\ main = "poll" /\ queue = "ours" /\ ctrl # <<>>
  /\ PortOf(Head(ctrl)) /\ ctrl' = Tail(ctrl)
  /\ UNCHANGED <<queue, recv, hb, numtries, said, rcvVars>>

\* Mutated form of GivenUp: the client would go on at once.
GoneOn == "register"

GivenUp == "waitpid"

\* Mutated form of LastTry: the loop runs once more.
PastLastTry(n) == n > IPC_GET_UDP_PORT_TRIALS

LastTry(n) == n = IPC_GET_UDP_PORT_TRIALS

\* No message: sleep, and after the last try wait for the receiver's end.  (On
\* any other error of msgrcv the loop neither counts nor sleeps nor ends.)
PollNothing ==
  /\ main = "poll" /\ queue = "ours" /\ ctrl = <<>>
  /\ numtries' = numtries + 1
  /\ main' = IF LastTry(numtries') THEN GivenUp ELSE "poll"
  /\ UNCHANGED <<queueVars, hb, client_udp_port, handshake, said, rcvVars>>

\* The receiver is no process any more.
Over == rcv \in {"done", "gone"}

\* waitpid, also when there is no child.  A receiver that has started well after
\* the last try does not end, nor does the wait for it.
WaitReturns ==
  /\ main = "waitpid" /\ Over
  /\ PortAnswer("failed", client_udp_port)
  /\ UNCHANGED <<queueVars, hb, numtries, said, rcvVars>>

\* create_client_core: the registration, then the first line; or the receiver is
\* sent away again.
Registration ==
  /\ main = "register" /\ main' \in {"connected", "shutdown"}
  /\ UNCHANGED <<queueVars, hb, numtries, client_udp_port, handshake, said, rcvVars>>

-----------------------------------------------------------------------------
(* The client prints, and quits. *)

\* receiver_printf.
SendLine == SendToReceiver(said + 1) /\ said' = said + 1

\* The first line; then the heartbeat thread is started.
PrintConnected ==
  /\ main = "connected" /\ SendLine
  /\ main' = "idle" /\ hb' = "sleep"
  /\ UNCHANGED <<numtries, client_udp_port, handshake, rcvVars>>

MainPrint ==
  /\ \/ main = "print" /\ main' = "idle"
     \/ main = "quit_print" /\ main' = "quitting"
  /\ SendLine
  /\ UNCHANGED <<hb, numtries, client_udp_port, handshake, rcvVars>>

HbPrint ==
  /\ hb = "print" /\ SendLine /\ hb' = "sleep"
  /\ UNCHANGED <<main, numtries, client_udp_port, handshake, rcvVars>>

\* A command, its answer, a failover: there is something to print.  The request
\* to quit may fail over too.
UserLine ==
  /\ said < MaxLines
  /\ \/ main = "idle" /\ main' = "print"
     \/ main = "quitting" /\ main' = "quit_print"
  /\ UNCHANGED <<queueVars, hb, numtries, client_udp_port, handshake, said, rcvVars>>

HbLine ==
  /\ hb = "sleep" /\ said < MaxLines /\ hb' = "print"
  /\ UNCHANGED <<queueVars, main, numtries, client_udp_port, handshake, said, rcvVars>>

\* cli_core_quit.  msgsnd is a cancellation point: a line the heartbeat thread is
\* waiting to print is not printed.
Quit ==
  /\ main = "idle" /\ main' = "join"
  /\ UNCHANGED <<queueVars, hb, numtries, client_udp_port, handshake, said, rcvVars>>
HbCancelled ==
  /\ main = "join" /\ hb \in {"sleep", "print"} /\ hb' = "gone"
  /\ UNCHANGED <<queueVars, main, numtries, client_udp_port, handshake, said, rcvVars>>

\* Mutated form of HbOver: the thread is cancelled and not joined.
HbCancelSent == TRUE

HbOver == hb = "gone"

Joined ==
  /\ main = "join" /\ HbOver /\ main' = "quitting"
  /\ UNCHANGED <<queueVars, hb, numtries, client_udp_port, handshake, said, rcvVars>>

\* send_quit_request returns (ClientSender shows when it does not).
QuitSent ==
  /\ main = "quitting" /\ main' = "shutdown"
  /\ UNCHANGED <<queueVars, hb, numtries, client_udp_port, handshake, said, rcvVars>>

\* Mutated form of QuitMessage: a message that is not CHAT_QUIT.
LineForQuit == said + 1

QuitMessage == CHAT_QUIT

\* shutdown_receiver; then main returns.  The queue is not removed.
Shutdown ==
  /\ main = "shutdown" /\ SendToReceiver(QuitMessage) /\ main' = "exited"
  /\ UNCHANGED <<hb, numtries, client_udp_port, handshake, said, rcvVars>>

\* A request for which the location server does not answer kills the client
\* (ClientSender's RefreshCrash): in the registration, a request, a heartbeat
\* or the request to quit.  The receiver is not told.
ClientDies ==
  /\ main # "dead"
  /\ main \in {"register", "idle", "quitting"} \/ hb = "sleep"
  /\ main' = "dead" /\ hb' = "gone"
  /\ UNCHANGED <<queueVars, numtries, client_udp_port, handshake, said, rcvVars>>

-----------------------------------------------------------------------------
(* The receiver. *)

\* open_client_channel.
OpenChannel ==
  /\ rcv = "starting"
  /\ rcv' = IF queue = "ours" THEN "init_udp" ELSE "gone"
  /\ UNCHANGED <<queueVars, clientVars, bound, dgrams, shown>>

\* Mutated form of ReportsFailure: init_udp_socket leaves the report to its
\* caller, which believes that it went well.
ReportsNothing == "send_ok"

ReportsFailure == "send_error"

InitUdpSocket ==
  /\ rcv = "init_udp"
  /\ \/ bound' = TRUE /\ rcv' = "send_ok"
     \/ bound' = FALSE /\ rcv' = ReportsFailure
  /\ UNCHANGED <<queueVars, clientVars, dgrams, shown>>

\* init_receiver keeps -1 in an unsigned variable and finds it not negative: the
\* error is followed by a success.
SendError ==
  /\ rcv = "send_error"
  /\ SendToClient([status |-> RECV_NOTREADY, value |-> GARBAGE])
  /\ rcv' = "send_ok"
  /\ UNCHANGED <<clientVars, bound, dgrams, shown>>
SendOk ==
  /\ rcv = "send_ok"
  /\ SendToClient([status |-> RECV_READY, value |-> IF bound THEN PORT ELSE GARBAGE])
  /\ rcv' = "chatserver"
  /\ UNCHANGED <<clientVars, bound, dgrams, shown>>

\* Mutated form of AfterChat: back to the socket for more.
MoreChat == IF dgrams > 1 THEN "chatserver" ELSE "chatclient"

AfterChat == "chatclient"

\* One datagram, if there is one.
HandleChatServer ==
  /\ rcv = "chatserver" /\ rcv' = AfterChat
  /\ dgrams' = IF dgrams > 0 THEN dgrams - 1 ELSE 0
  /\ UNCHANGED <<queueVars, clientVars, bound, shown>>

\* One message, if there is one; CHAT_QUIT and a queue that is gone end the
\* receiver.
HandleChatClient ==
  /\ rcv = "chatclient"
  /\ CASE queue # "ours" -> rcv' = "gone" /\ UNCHANGED <<recv, shown>>
       [] queue = "ours" /\ recv = <<>> -> rcv' = "chatserver" /\ UNCHANGED <<recv, shown>>
       [] queue = "ours" /\ recv # <<>> ->
            /\ recv' = Tail(recv)
            /\ IF Head(recv) = CHAT_QUIT
               THEN rcv' = "done" /\ shown' = shown
               ELSE rcv' = "chatserver" /\ shown' = Append(shown, Head(recv))
  /\ UNCHANGED <<queue, ctrl, clientVars, bound, dgrams>>

\* xterm cannot be started, or the user closes it.
ReceiverDies ==
  /\ rcv # "none" /\ ~Over /\ rcv' = "gone"
  /\ UNCHANGED <<queueVars, clientVars, bound, dgrams, shown>>

\* The server sends a chat message on.
Datagram ==
  /\ bound /\ ~Over /\ dgrams < MaxDgrams
  /\ dgrams' = dgrams + 1
  /\ UNCHANGED <<queueVars, clientVars, rcv, bound, shown>>

-----------------------------------------------------------------------------

MainStep == \/ InitIpc \/ InitIpcFails \/ StartReceiver \/ PollAnswer \/ PollNothing
            \/ WaitReturns \/ Registration \/ PrintConnected \/ MainPrint
            \/ Joined \/ QuitSent \/ Shutdown
HbStep   == HbPrint \/ HbCancelled
RcvStep  == \/ OpenChannel \/ InitUdpSocket \/ SendError \/ SendOk
            \/ HandleChatServer \/ HandleChatClient
World    == UserLine \/ HbLine \/ Quit \/ ClientDies \/ RemoveQueue \/ ReceiverDies \/ Datagram

Next == MainStep \/ HbStep \/ RcvStep \/ World

\* The threads and the receiver run; users, chat messages and faults are not
\* promised.
Spec == Init /\ [][Next]_vars /\ WF_vars(MainStep) /\ WF_vars(HbStep) /\ WF_vars(RcvStep)

-----------------------------------------------------------------------------
(* Properties. *)

\* "the receiver's response is the udp port it'll use to receive messages on"
\* (a3_doc.txt:62-64): a port that get_client_udp_port returns with success is
\* that of a socket the receiver has, although the receiver also reports
\* success with an uninitialised port (client_recv.c:112-127).  Without success
\* the client has no port, and registers all the same.
HandshakeSound ==
  /\ handshake = "ok" => bound /\ client_udp_port = PORT
  /\ handshake # "ok" => client_udp_port = GARBAGE

QuitQueued == \E k \in 1..Len(recv) : recv[k] = CHAT_QUIT

\* The lines of two threads are printed in the order they were sent in, none
\* twice and none left out; CHAT_QUIT comes behind all of them, so that a
\* receiver it has ended has printed everything (receiver_mgr.c:164-195,
\* client_core.c:122-128).
LinesInOrder ==
  /\ \A k \in 1..Len(shown) : shown[k] = k
  /\ \A k \in 1..Len(recv) :
       \/ recv[k] = Len(shown) + k
       \/ recv[k] = CHAT_QUIT /\ k = Len(recv) /\ main = "exited"
  /\ queue = "ours" /\ ~QuitQueued => said = Len(shown) + Len(recv)
  /\ rcv = "done" => said = Len(shown)

\* The receiver waits for room in the queue only in one case: its socket could
\* not be made, the client has taken the error for an answer, and has filled
\* the queue with lines before the receiver could add its second report.
ReceiverUnchoked ==
  rcv \in {"send_error", "send_ok"} /\ Full => rcv = "send_ok" /\ ~bound

\* The state in which it does: then nobody empties the queue.
Choked == rcv = "send_ok" /\ Full

Printing == {"connected", "print", "quit_print"}

\* A thread that prints goes on, unless the receiver is no more or waits in
\* turn: receiver_printf waits for room in a queue nobody empties.
PrintReturns ==
  /\ main \in Printing ~> main \notin Printing \/ Over \/ Choked
  /\ hb = "print" ~> hb # "print" \/ Over \/ Choked

\* Every line is printed as long as the receiver runs: chat messages, however
\* many, do not keep it from the queue.
LinesShown ==
  \A n \in 1..MaxLines : said >= n ~> Len(shown) >= n \/ Over \/ Choked

\* A client that ends by itself, after a failed registration or a quit, takes its
\* receiver with it (client_core.c, receiver_mgr.c:188-195).  One that is killed
\* (ClientDies) sends no CHAT_QUIT and leaves it.
ReceiverEnds == main \in {"shutdown", "exited"} /\ rcv # "none" ~> Over \/ Choked
=============================================================================
