---------------------------- MODULE ClientSender ----------------------------
(***************************************************************************)
(* The chat client: the user's thread (client_main.c, client_core.c) and    *)
(* the heartbeat thread, which send their requests through send_control_msg *)
(* (client_to_server_sender.c) and fail over to another server inside it.   *)
(*                                                                          *)
(* send_control_msg calls itself: after a failure it registers again and    *)
(* then rejoins the room, each by a request of its own, before it retries   *)
(* the request that failed.  A thread therefore has a stack of calls, and   *)
(* the mutex it takes on every call is recursive.  The request is encoded   *)
(* before the mutex is taken and is retried as it was encoded.              *)
(***************************************************************************)
EXTENDS ServerPool, Sequences

CONSTANTS
  MaxName,       \* bound: the "_" a name may grow
  LocationMayFail, \* whether the location server can be out of reach
  ConnectMayFail,  \* whether connect can fail although the server is up
  Stale,           \* answers an answer buffer may hold that nothing was read into
  LeftoverId,      \* what member_id and curr_room may hold before anything has
  LeftoverRoom,    \* been written to them: malloc does not clear client_core
  NoThread         \* the owner of a free mutex

\* An answer, by what its caller tells apart; EMPTY has no known header.
Reply == [type : {"SUCC", "FAIL", "USED", "FULL", "EMPTY"}, id : Nat]

ASSUME ClientAssumption ==
  /\ MaxName \in Nat /\ NoThread \notin {"main", "hb"}
  /\ LocationMayFail \in BOOLEAN /\ ConnectMayFail \in BOOLEAN
  /\ Stale \subseteq Reply
  /\ LeftoverId \subseteq Nat /\ LeftoverRoom \subseteq Room \cup {NoRoom}

Thread == {"main", "hb"}

VARIABLES
  stack,        \* stack[t]: the calls of send_control_msg thread t is in, innermost last
  returned,     \* returned[t]: the call that has just returned, until its answer is used
  lock,         \* sender_lock: its owner and how often the owner has taken it
  main,         \* where the user's thread is
  hb,           \* where the heartbeat thread is
  cancelled,    \* pthread_cancel(hb_thread) has been called
  chatserver,   \* chatserver_manager: the address in use
  member_name, member_id, curr_room,
  lost          \* history: the room this user was in when its server last died

clientVars == <<stack, returned, lock, main, hb, cancelled,
                chatserver, member_name, member_id, curr_room>>
vars == <<poolVars, clientVars, lost>>

\* The user's thread: in create_client_core, waiting for input, in a request,
\* in the three steps of cli_core_quit, exited, or the process killed by a
\* null dereference in refresh_chatserver.
MainPC == {"starting", "prompt", "requesting", "joining", "quitting", "exited", "dead"}
HbPC == {"off", "sleeping", "beating", "gone"}

Kind == {"register", "switch", "keep_alive", "quit", "list"}
NoReply == [type |-> "EMPTY", id |-> 0]

\* A call: the request as encoded, whether a failure makes it register again,
\* where it is, its connection (address and process) and the answer it got.
Frame == [kind : Kind, id : Nat, room : Room \cup {NoRoom}, name : Name,
          re_register : BOOLEAN,
          at : {"lock", "connect", "write", "read", "refresh", "rereg", "rejoin"},
          conn : {<<>>} \cup (Server \X Nat), reply : Reply]
\* What is left of a call that has returned.
Answered == [kind : Kind, room : Room \cup {NoRoom}, reply : Reply]

TypeOK ==
  /\ PoolTypeOK
  /\ stack \in [Thread -> Seq(Frame)]
  /\ returned \in [Thread -> Seq(Answered)]
  /\ lock \in [owner : Thread \cup {NoThread}, depth : Nat]
  /\ (lock.owner = NoThread) <=> (lock.depth = 0)
  /\ main \in MainPC /\ hb \in HbPC /\ cancelled \in BOOLEAN
  /\ chatserver \in Server
  /\ member_name \in 0..MaxName /\ member_id \in Nat
  /\ curr_room \in Room \cup {NoRoom} /\ lost \in Room \cup {NoRoom}

Init ==
  /\ PoolInit
  /\ returned = [t \in Thread |-> <<>>]
  /\ lock = [owner |-> NoThread, depth |-> 0]
  /\ main = "starting" /\ hb = "off" /\ cancelled = FALSE
  /\ chatserver = published
  /\ member_name = 0 /\ member_id \in LeftoverId /\ curr_room \in LeftoverRoom
  /\ lost = NoRoom
  /\ stack = [t \in Thread |-> <<>>]

-----------------------------------------------------------------------------
(* Calls. *)

Alive == main \notin {"exited", "dead"}
Top(t) == stack[t][Len(stack[t])]
At(t, place) == Alive /\ stack[t] # <<>> /\ returned[t] = <<>> /\ Top(t).at = place
\* Back in the caller of the innermost call that is left on the stack.
BackAt(t, place) == Alive /\ stack[t] # <<>> /\ returned[t] # <<>> /\ Top(t).at = place
BackInThread(t) == Alive /\ stack[t] = <<>> /\ returned[t] # <<>>
Result(t) == returned[t][1]
\* A cancelled thread goes no further than its next cancellation point; connect,
\* write, read, close and sleep are such, pthread_mutex_lock is not.
Running(t) == t = "main" \/ ~cancelled

WithTop(t, f) == [stack EXCEPT ![t] = [@ EXCEPT ![Len(@)] = f]]
Go(t, place) == stack' = WithTop(t, [Top(t) EXCEPT !.at = place])

Call(kind, id, room, re_register) ==
  [kind |-> kind, id |-> id, room |-> room, name |-> 0,
   re_register |-> re_register, at |-> "lock", conn |-> <<>>, reply |-> NoReply]

\* Mutated form of RegisterCall: a registration that fails registers again.
RegisterCallNested == [Call("register", 0, NoRoom, TRUE) EXCEPT !.name = member_name]

\* send_register_request asks not to be registered again when it fails.
RegisterCall == [Call("register", 0, NoRoom, FALSE) EXCEPT !.name = member_name]

\* PTHREAD_MUTEX_RECURSIVE.
Free(t) == lock.owner \in {NoThread, t}

Lock(t) ==
  /\ At(t, "lock") /\ Free(t)
  /\ lock' = [owner |-> t, depth |-> lock.depth + 1]
  /\ Go(t, "connect")
  /\ UNCHANGED <<poolVars, returned, main, hb, cancelled, chatserver,
                 member_name, member_id, curr_room, lost>>

quiet == <<returned, lock, main, hb, cancelled, member_name, member_id, curr_room, lost>>

\* create_tcp_connection, to the address the chatserver_manager holds now.
Connect(t) ==
  /\ At(t, "connect") /\ Running(t)
  /\ \/ /\ server[chatserver].up
        /\ stack' = WithTop(t, [Top(t) EXCEPT !.at = "write",
                                  !.conn = <<chatserver, server[chatserver].run>>])
        /\ UNCHANGED poolVars
     \/ ~server[chatserver].up /\ Go(t, "refresh") /\ UNCHANGED poolVars
     \/ ConnectMayFail /\ server[chatserver].up /\ Go(t, "refresh") /\ ConnectFault
  /\ UNCHANGED <<quiet, chatserver>>

\* What the server answers to a call other than register: nothing to a
\* keep-alive or a quit it accepts, a failure to an id it does not know.  A room
\* that can be switched to may have the empty name (NoRoom), too.
MayAnswer(x, f, type) ==
  CASE SessionOf(x, f.id) = {}            -> type = "FAIL"
    [] f.kind \in {"keep_alive", "quit"}  -> type = "EMPTY"
    [] f.kind = "switch"                  -> type \in {"SUCC", "FAIL"}
    [] OTHER                              -> type = "SUCC"

\* The process a connection is to.
Connected(f) == server[f.conn[1]].up /\ server[f.conn[1]].run = f.conn[2]

\* write, and the server's handling of the request.
Write(t) ==
  LET f == Top(t)
      s == f.conn[1]
      x == server[s]
      answer(reply, y) ==
        /\ stack' = WithTop(t, [f EXCEPT !.at = "read", !.reply = reply])
        /\ server' = [server EXCEPT ![s] = y]
  IN  /\ At(t, "write") /\ Running(t) /\ Connected(f)
      /\ \/ /\ f.kind = "register"
            /\ answer(RegisterReply(x, f.name), AfterRegister(x, f.name, "me"))
         \/ /\ f.kind # "register"
            /\ \E type \in {"SUCC", "FAIL", "EMPTY"} :
                 /\ MayAnswer(x, f, type)
                 /\ answer([type |-> type, id |-> f.id],
                           CASE f.kind = "quit"                    -> AfterQuit(x, f.id)
                             [] f.kind = "switch" /\ type = "SUCC" -> AfterSwitch(x, f.id, f.room)
                             [] OTHER                              -> x)
      /\ UNCHANGED <<published, crashes, faults, others, quiet, chatserver>>

\* What the callers may find in the buffer of send_tcp_request when read has put
\* nothing in it: malloc does not clear it.
Unwritten(f) ==
  LET types == CASE f.kind = "register" -> {"SUCC", "USED", "FULL"}
                 [] f.kind = "switch"   -> {"SUCC"}
                 [] OTHER               -> {}
  IN  {NoReply} \cup {reply \in Stale : reply.type \in types}

\* The process the connection was to is gone: read fails, or it finds the
\* connection closed and send_tcp_request returns the buffer as it is.
WriteToTheDead(t) ==
  LET f == Top(t)
  IN  /\ At(t, "write") /\ Running(t) /\ ~Connected(f)
      /\ \/ stack' = WithTop(t, [f EXCEPT !.at = "refresh", !.conn = <<>>])
         \/ \E reply \in Unwritten(f) :
              stack' = WithTop(t, [f EXCEPT !.at = "read", !.reply = reply])
      /\ UNCHANGED <<poolVars, quiet, chatserver>>

\* Mutated form of Unlocked: the owner is not cleared with the last unlock.
UnlockedOwnerKept == [owner |-> lock.owner, depth |-> lock.depth - 1]

\* Mutated form of Unlocked: one unlock gives the mutex up, however often it is held.
UnlockedAtOnce == [owner |-> NoThread, depth |-> 0]

Unlocked == [owner |-> IF lock.depth = 1 THEN NoThread ELSE lock.owner, depth |-> lock.depth - 1]

\* The answer is read, the mutex given up and the call returns.
Return(t) ==
  /\ At(t, "read") /\ Running(t)
  /\ lock' = Unlocked
  /\ stack' = [stack EXCEPT ![t] = SubSeq(@, 1, Len(@) - 1)]
  /\ returned' = [returned EXCEPT ![t] =
       <<[kind |-> Top(t).kind, room |-> Top(t).room, reply |-> Top(t).reply]>>]
  /\ UNCHANGED <<poolVars, main, hb, cancelled, chatserver, member_name, member_id, curr_room, lost>>

\* refresh_chatserver, and then the retry or, first, the registration.
Refresh(t) ==
  /\ At(t, "refresh") /\ Running(t)
  /\ chatserver' = published
  /\ IF Top(t).re_register
     THEN stack' = [stack EXCEPT ![t] = Append(WithTop(t, [Top(t) EXCEPT !.at = "rereg"])[t], RegisterCall)]
     ELSE Go(t, "connect")
  /\ UNCHANGED <<poolVars, quiet>>

\* The location server cannot be reached: the connection, or else the answer, is
\* NULL and is dereferenced.
RefreshCrash(t) ==
  /\ At(t, "refresh") /\ Running(t) /\ LocationMayFail
  /\ main' = "dead"
  /\ UNCHANGED <<poolVars, stack, returned, lock, hb, cancelled, chatserver,
                 member_name, member_id, curr_room, lost>>

\* Mutated form of NextName: the name is tried again as it is.
SameName == member_name

\* sprintf(member_name, "%s_", member_name).
NextName == member_name + 1

\* re_register_func: refused, and on its way to try again.
ReRegisterAgain(t) ==
  /\ BackAt(t, "rereg")
  /\ \/ /\ Result(t).reply.type = "USED" /\ member_name < MaxName
        /\ member_name' = NextName
     \/ Result(t).reply.type = "FULL" /\ Running(t) /\ UNCHANGED member_name
  /\ stack' = [stack EXCEPT ![t] = Append(@, [RegisterCall EXCEPT !.name = member_name'])]
  /\ returned' = [returned EXCEPT ![t] = <<>>]
  /\ UNCHANGED <<poolVars, lock, main, hb, cancelled, chatserver, member_id, curr_room, lost>>

\* Mutated form of IdAfterRegister: the id of the old session is kept.
OldId(f) == member_id

\* handle_register_response: an answer that is neither REGISTER_FAIL nor
\* REGISTER_SUCC counts as a success and leaves the id alone.
IdAfterRegister(f) == IF f.reply.type = "SUCC" THEN f.reply.id ELSE member_id

\* Registered, and on its way to the room it was in.
ReRegistered(t) ==
  /\ BackAt(t, "rereg")
  /\ Result(t).reply.type \in {"SUCC", "EMPTY"}
  /\ member_id' = IdAfterRegister(Result(t))
  /\ stack' = [stack EXCEPT ![t] =
       Append(WithTop(t, [Top(t) EXCEPT !.at = "rejoin"])[t],
              [Call("switch", 0, curr_room, TRUE) EXCEPT !.id = member_id'])]
  /\ returned' = [returned EXCEPT ![t] = <<>>]
  /\ UNCHANGED <<poolVars, lock, main, hb, cancelled, chatserver, member_name, curr_room, lost>>

\* The text that send_switch_room_request returns is read as a message header:
\* its first two characters are never SWITCH_ROOM_SUCC, and the room that
\* send_switch_room_request may just have noted is forgotten.
Rejoined(t) ==
  /\ BackAt(t, "rejoin")
  /\ curr_room' = NoRoom
  /\ Go(t, "connect")
  /\ returned' = [returned EXCEPT ![t] = <<>>]
  /\ UNCHANGED <<poolVars, lock, main, hb, cancelled, chatserver, member_name, member_id, lost>>

-----------------------------------------------------------------------------
(* The two threads. *)

\* create_client_core registers; a failure of it does not register again.
StartUp ==
  /\ main = "starting" /\ stack["main"] = <<>> /\ returned["main"] = <<>>
  /\ stack' = [stack EXCEPT !["main"] = <<RegisterCall>>]
  /\ UNCHANGED <<poolVars, quiet, chatserver>>

Started ==
  /\ main = "starting" /\ BackInThread("main")
  /\ returned' = [returned EXCEPT !["main"] = <<>>]
  /\ IF Result("main").reply.type \in {"USED", "FULL"}
     THEN main' = "exited" /\ UNCHANGED <<hb, member_id>>
     ELSE /\ main' = "prompt" /\ hb' = "sleeping"
          /\ member_id' = IdAfterRegister(Result("main"))
  /\ UNCHANGED <<poolVars, stack, lock, cancelled, chatserver, member_name, curr_room, lost>>

\* The user asks for something, with the id the client has now.  "list" stands
\* for the requests whose answer is only shown: room list, member list, create.
UserRequest(kind, r) ==
  /\ main = "prompt" /\ main' = "requesting"
  /\ kind = "list" <=> r = NoRoom
  /\ stack' = [stack EXCEPT !["main"] = <<Call(kind, member_id, r, TRUE)>>]
  /\ UNCHANGED <<poolVars, returned, lock, hb, cancelled, chatserver,
                 member_name, member_id, curr_room, lost>>

\* send_switch_room_request notes the room, after the mutex has been given up.
UserAnswered ==
  LET f == Result("main")
  IN  /\ main = "requesting" /\ BackInThread("main")
      /\ main' = "prompt"
      /\ curr_room' = IF f.kind = "switch" /\ f.reply.type = "SUCC" THEN f.room ELSE curr_room
      /\ returned' = [returned EXCEPT !["main"] = <<>>]
      /\ UNCHANGED <<poolVars, stack, lock, hb, cancelled, chatserver,
                     member_name, member_id, lost>>

\* Mutated form of HeartbeatCall: as if member_id were read once, before the loop.
HeartbeatCallFirstId == Call("keep_alive", 1, NoRoom, TRUE)

\* Mutated form of HeartbeatCall: a heartbeat that fails does not register again.
HeartbeatCallOnly == Call("keep_alive", member_id, NoRoom, FALSE)

\* send_heart_beat.
HeartbeatCall == Call("keep_alive", member_id, NoRoom, TRUE)

\* cli_core_heart_beat: what the server answers is not looked at.
Beat ==
  /\ Alive /\ hb = "sleeping" /\ ~cancelled
  /\ hb' = "beating"
  /\ stack' = [stack EXCEPT !["hb"] = <<HeartbeatCall>>]
  /\ UNCHANGED <<poolVars, returned, lock, main, cancelled, chatserver,
                 member_name, member_id, curr_room, lost>>

Beaten ==
  /\ hb = "beating" /\ BackInThread("hb")
  /\ hb' = "sleeping"
  /\ returned' = [returned EXCEPT !["hb"] = <<>>]
  /\ UNCHANGED <<poolVars, stack, lock, main, cancelled, chatserver,
                 member_name, member_id, curr_room, lost>>

\* cli_core_quit: pthread_cancel,
QuitCancel ==
  /\ main = "prompt" /\ main' = "joining" /\ cancelled' = TRUE
  /\ UNCHANGED <<poolVars, stack, returned, lock, hb, chatserver,
                 member_name, member_id, curr_room, lost>>

\* the end of the heartbeat thread where it next can be cancelled, holding what
\* it holds,
HbGone ==
  /\ Alive /\ cancelled
  /\ \/ hb = "sleeping"
     \/ \E place \in {"connect", "write", "read", "refresh"} : At("hb", place)
     \/ BackAt("hb", "rereg") /\ Result("hb").reply.type = "FULL"
  /\ hb' = "gone"
  /\ stack' = [stack EXCEPT !["hb"] = <<>>]
  /\ returned' = [returned EXCEPT !["hb"] = <<>>]
  /\ UNCHANGED <<poolVars, lock, main, cancelled, chatserver,
                 member_name, member_id, curr_room, lost>>

\* pthread_join and send_quit_request,
QuitJoined ==
  /\ main = "joining" /\ hb = "gone"
  /\ main' = "quitting"
  /\ stack' = [stack EXCEPT !["main"] = <<Call("quit", member_id, NoRoom, TRUE)>>]
  /\ UNCHANGED <<poolVars, returned, lock, hb, cancelled, chatserver,
                 member_name, member_id, curr_room, lost>>

\* and the exit.
QuitDone ==
  /\ main = "quitting" /\ BackInThread("main")
  /\ main' = "exited"
  /\ returned' = [returned EXCEPT !["main"] = <<>>]
  /\ UNCHANGED <<poolVars, stack, lock, hb, cancelled, chatserver,
                 member_name, member_id, curr_room, lost>>

-----------------------------------------------------------------------------
Mine(s) == {e \in server[s].sessions : e.owner = "me"}

ServerCrash(s) ==
  /\ Crash(s)
  /\ lost' = IF Mine(s) = {} THEN lost
             ELSE IF \E e \in Mine(s) : e.room # NoRoom
                  THEN CHOOSE r \in Room : \E e \in Mine(s) : e.room = r
                  ELSE NoRoom
  /\ UNCHANGED clientVars

ServerStart == (\E s \in Server : Restart(s)) /\ UNCHANGED <<clientVars, lost>>

OtherUser ==
  /\ \E s \in Server : OtherQuits(s) \/ \E name \in OtherName : OtherRegisters(s, name)
  /\ UNCHANGED <<clientVars, lost>>

\* What a thread does inside send_control_msg, but for taking the mutex.
SenderStep(t) ==
  \/ Connect(t) \/ Write(t) \/ WriteToTheDead(t) \/ Return(t)
  \/ Refresh(t) \/ RefreshCrash(t)
  \/ ReRegisterAgain(t) \/ ReRegistered(t) \/ Rejoined(t)

MainStep == StartUp \/ Started \/ UserAnswered \/ QuitJoined \/ QuitDone
HbStep == Beat \/ Beaten \/ HbGone

User ==
  \/ QuitCancel
  \/ \E kind \in {"switch", "list"}, r \in Room \cup {NoRoom} : UserRequest(kind, r)

Next ==
  \/ \E t \in Thread : Lock(t) \/ SenderStep(t)
  \/ MainStep \/ HbStep \/ User
  \/ \E s \in Server : ServerCrash(s)
  \/ ServerStart \/ OtherUser

\* The threads run; a server that has died is replaced; and the heartbeat
\* thread, which sleeps for five seconds whenever it has given the mutex up,
\* does not keep it from a thread that waits for it for ever.
Spec ==
  /\ Init /\ [][Next]_vars
  /\ \A t \in Thread : WF_vars(SenderStep(t)) /\ SF_vars(Lock(t))
  /\ WF_vars(MainStep) /\ WF_vars(HbStep) /\ WF_vars(ServerStart)

-----------------------------------------------------------------------------
(* Properties. *)

\* sender_lock is held exactly as often as its owner is inside
\* send_control_msg, however deep a failover has nested, and nobody else is
\* past the lock: one failover at a time.
LockDiscipline ==
  \A t \in Thread :
    (t = "hb" => hb # "gone") =>
      Cardinality({i \in DOMAIN stack[t] : stack[t][i].at # "lock"})
        = IF lock.owner = t THEN lock.depth ELSE 0

\* Between requests the id and the name the client goes by are those of a
\* session of its own, if it has any at the server it uses: no failover of
\* either thread leaves the ones of a server that is gone.
IdIsCurrent ==
  lock.owner = NoThread /\ main \in {"prompt", "requesting", "joining"}
    /\ Mine(chatserver) # {} =>
      \E e \in Mine(chatserver) : e.id = member_id /\ e.name = member_name

\* The user has one session in all, and at most one more for every connection
\* that failed although the server was up: two threads that both notice a
\* failure do not both register, nor does a retry.
OneSession == Cardinality(UNION {{s} \X Mine(s) : s \in Server}) <= 1 + faults

\* "If the location server is not available, then continuously retry to get the
\* info from the location server" (a3_doc.txt:93-94): an outage does not end the
\* client.
SurvivesOutage == main # "dead"

\* The assumptions of the next properties on the world: no request to the
\* location server stays without an answer (SurvivesOutage is about one that
\* does), and the server in use does not stay full for ever: "hope someone leaves
\* in that time. then try again." (client_to_server_sender.c:101).
LocationAnswers == []SurvivesOutage
RoomInTheEnd    == <>[]~Full(server[published])

\* A request of the user is answered in the end, although servers die and
\* connections fail meanwhile: both threads get through the failover, and through
\* the mutex.
RequestsReturn ==
  LocationAnswers /\ RoomInTheEnd => (main = "requesting" ~> main = "prompt")

Registered == \E s \in Server : Mine(s) # {}
Quitting == main \in {"joining", "quitting", "exited"}

\* "recovery from server failure through reregistration": a user whose server
\* has died is registered again in the end, unless the user quits.
FailureIsRecovered ==
  LocationAnswers /\ RoomInTheEnd => (main = "prompt" /\ ~Registered ~> Registered \/ Quitting)

\* It holds as long as no server is started where one has died: two failures in a
\* row, the second also in the middle of the failover from the first, failed
\* connections and answers that were never written are recovered from.
FailureIsRecoveredElsewhere == [](\A s \in Server : server[s].run <= 1) => FailureIsRecovered

\* The heartbeat thread has its say with the id of a session of this user.
KeepsAlive ==
  /\ Write("hb") /\ Top("hb").kind = "keep_alive"
  /\ \E e \in Mine(Top("hb").conn[1]) : e.id = Top("hb").id

\* A user who stays registered is heard of again and again: the id of before that
\* the heartbeat may have read without the mutex (client_core.c:115) is not the
\* one it goes on with, and the session is not swept.
SessionHeard ==
  LocationAnswers /\ RoomInTheEnd
    /\ <>[](Registered /\ main \in {"prompt", "requesting"}) => []<><<KeepsAlive>>_vars

\* Cancelling the heartbeat thread lets the quit request go out.
QuitReturns == main = "joining" ~> main = "exited"

\* What this client asks for is done for its own session only.
OthersUntouched ==
  [][\A t \in Thread : Write(t) =>
       \A s \in Server : \A e \in server[s].sessions : e.owner = "other" => e \in server'[s].sessions]_vars

RejoinCall(t) == Len(stack'[t]) > Len(stack[t]) /\ stack[t] # <<>> /\ Top(t).at = "rereg"
                   /\ stack'[t][Len(stack'[t])].kind = "switch"

\* After a failover by the heartbeat thread, while the user asks for nothing, the
\* room asked for is the room the user was in when the server failed.
RejoinsItsRoom ==
  [][main = "prompt" /\ RejoinCall("hb") /\ lost # NoRoom
       => stack'["hb"][Len(stack'["hb"])].room = lost]_vars
=============================================================================
