# A verification model of the CSC469 A3 chat system

The program (`src/a3`, C) is a chat server, a chat client and the client's
receiver process. This directory holds TLA+ models of it, the TLC
configurations that check them and the proofs TLAPS checks.

## 1. Inventory

| Component | State | Operations | Hard part |
|---|---|---|---|
| Server tables (`server_util.c`) | session list, room list, one member list per room, three kinds of counters | register, quit, keep-alive, create room, room list, member list, switch; chat message broadcast | four hand-written intrusive linked lists that must agree with each other and with the counters |
| Server sweep (`server_main.c` 136-220) | `quiet_flag`, `empty_flag` | two loops that free members and rooms while walking the lists | freeing under the cursor; two intervals of grace |
| Server select loop (`server_main.c` 127-326) | `fd_table`, `max_fd_idx`, `maxfd`, descriptor set, timer | accept, one request per connection, one chat message per round, time-out | the table at its limit; descriptors closed and used again between select and read; a timer counted down over many calls |
| Client sender (`client_to_server_sender.c`, `chatserver_manager.c`, `tcp_connection.c`) | `sender_lock`, server address, the stack of nested calls | one request/answer per connection, fail over, register again, rejoin | two threads, recursion, retry with what was encoded before |
| Client core (`client_core.c`, `client_main.c`) | `member_id`, `member_name`, `curr_room`, the heartbeat thread | commands, heartbeat every 5 s, quit by cancelling the thread | cancellation with the mutex taken |
| Receiver manager, receiver (`receiver_mgr.c`, `client_recv.c`) | a System V message queue, a UDP port, the tries left | start-up and report of the port, printing by two threads, `CHAT_QUIT` | giving up a moment too early, a full queue, a queue removed by another client, a receiver that dies |
| Location server access (`http_connection.c`) | none | one GET | no answer |
| `client_util.c`, `udp_connection.c`, logging, options | none that matters | | `client_util.c` is not called |

The client talks to the server over TCP, one connection per request; chat
messages go by UDP to the server and from it to the receivers. Client and
receiver share a message queue. The server publishes its address at the
location server when it starts; the client reads it after a failure.

What makes each part correct:

* tables: every list is a sound doubly (rooms: singly) linked list of exactly
  the structs it should hold; counters count; ids and names are unique; limits
  hold; nothing freed is reachable;
* sweep: a silent session goes, one that is heard stays, an occupied room stays; nobody
  is passed over or looked at twice;
* broadcast: everyone in the room once, in order, nobody else;
* select loop: the table, the descriptor set and the open connections agree,
  nothing the one thread reads blocks, every request is read, sweeps are not put
  off by traffic, and no client with a heartbeat is swept;
* receiver: a port that is registered is one the receiver has; lines are printed in
  order and without loss; neither side waits for the other for ever;
* sender: one failover at a time, the identity in use is the one of the session
  the client has, one session in all, every request returns, a failure of the
  server leads to a registration at another.

## 2. Modules

| Module | What it is |
|---|---|
| `DList` | the doubly linked list as pure functions on a record (`Unlink`, `LinkTail`, `ClearLinks`), what a sound list is (`Ordered`) and what a walk finds (`Walk`, `Chain`) |
| `ChatServer` | the server: tables, handlers, sweep, broadcast |
| `ChatService` | what the server promises, without pointers: sessions by id, rooms by name in order, rolls as sequences |
| `ChatServerRefinement` | the mapping of the one to the other, by walking the lists as the code does |
| `ServerLoop` | the select loop of the server's `main`: sockets, connection table, scan, timer |
| `ServerPool` | servers as a client sees them: processes that die and start, ids drawn so far, sessions, other users |
| `ClientSender` | the client's two threads inside `send_control_msg`, on top of `ServerPool` |
| `ReceiverChannel` | client and receiver on either side of their message queue |
| `DListProofs` | lemmas on lists of any length |
| `ChatServerProofs`, `RoomProofs` | the theorems about the server's tables: types and sessions; rooms, rolls, counters and broadcasts |
| `ServiceProofs` | the server implements `ChatService`; the sweep |
| `ServerLoopProofs` | the theorems about the select loop |
| `ClientProofs`, `ClientSessionProofs` | the theorems about the client: its calls and its mutex; its sessions and identity |
| `ReceiverProofs` | the theorems about the message queue |
| `MCChatServer`, `MCServerLoop`, `MCClientSender`, `MCReceiverChannel` | instances for TLC |

The modules divide the program where it communicates. `ChatServer` is what a
request does to the tables, `ServerLoop` how a request comes to be read, so that
in the one a request is an action and in the other it is data on a connection.
`ServerPool` is the server as `ClientSender` sees it through one connection per
request. `ReceiverChannel` takes over where a thread of `ClientSender` prints.

### ChatServer and the code

The process has one thread, so a handler is one action. The three loops that
change the list they walk or leave early take one step per iteration:
`SweepMember`, `SweepRoom`, `Deliver`. A struct is an address in `Member` or
`Room`; `members` and `rooms` are those in use, so that a freed struct is one
that is not; its fields are blank then. The lists are records of head, tail
and link functions; the member lists of all rooms share one record, `roster`,
because a member has one pair of room links. A search by id or name is a
quantifier over the structs in use; that a walk finds exactly those is an
invariant (`SessionListSound`, `RoomListSound`) and not assumed. The draw of a new
id is the exception: its search leaves the tail out, on the strength of the new member
being the tail by then, so that `FreshId` walks the list as the code does.

`SUCC(t)`/`FAIL(t)` are the numbering of `defs.h`; the reply to an unknown id
is `type + 2` as in the code, whatever the type. `LongName` stands for room
names that are too long, `OTHER_REQUEST` for the types that are in range but have no
handler; other lengths, the texts of replies, byte counts and
addresses are left out. A refused registration or creation leaks the struct
it has allocated; that memory is not modelled. `malloc` does not fail and
`getpeername` succeeds.

### ServerLoop and the code

One iteration of the `while` loop is a path `select`, `udp`, `tcp`, `scan` and
back; `OneDone` is the early `continue` when the last ready descriptor has been
dealt with. A slot of the table takes one step (`ScanPast`, `ControlMessage`), so
that clients act between any two system calls. The kernel hands out the lowest
descriptor that is free, which is why one closed earlier in an iteration comes
back in the next. `Polled` is `rset`: what `select` said at the start of the
iteration, used until its end. `AcceptTooMany` is the refused connection with all
that the code does after refusing it: the descriptor, closed, goes into the set and
`max_fd_idx` becomes the size of the table; the next `select` fails with
`EBADF` (`SelectFails`) and `main` exits; there is no `accept` in between that could
open the descriptor again. A failing `accept` may take the connection with it or leave
it waiting (`AcceptFails`), as it does when the process has no descriptor left. That a UDP
socket `select` calls ready has a datagram to read is taken for granted: a datagram
dropped for its checksum is outside the model.

`select` is Linux's, which leaves in `tv` the time that was not slept. The code
does not reset `tv` except after a sweep, and relies on it. Time passes only while
the server sleeps (`Tick`); the work of an iteration takes none.
Of the members one is followed: its client sends a heartbeat no later than
`HEARTBEAT` after the one before, in the units of `sweep_int`; the program has five
seconds against minutes. A read may return a heartbeat or anything else
(`data`): another request, a part of one, an end of file.

### ReceiverChannel and the code

The queue holds `QueueSize` messages of either type (the kernel counts bytes);
`msgsnd` without `IPC_NOWAIT` waits for room. `SendToReceiver` and `SendToClient` on a queue
that has been removed return at once, an error nobody looks at. `RemoveQueue` is another
client whose `ftok` gives the same key: `init_ipc_with_receiver` removes a queue it
finds. That the first receiver may then open the second client's queue is not
modelled: it finds none. A line is its number, so order and loss show; the texts are left out.

Start-up: `PollNothing` counts and sleeps, `GivenUp` is the `waitpid` after the last try.
`init_receiver` keeps the `-1` of `init_udp_socket` in an unsigned variable, so a
failure is reported twice (`SendError`, then `SendOk` with a port nobody has set). Whatever
`create_receiver_manager` returns, the client goes on to register. The thread that quits joins the
heartbeat thread, may print while its quit request fails over, and sends
`CHAT_QUIT`. A client that dies of the null dereference behind an unanswered request to the
location server (`ClientDies`) sends none and leaves its receiver running; `ReceiverEnds`
is about a client that ends by itself.

### ClientSender and the code

A thread has a stack of frames, one per nested `send_control_msg`. A frame
holds the request as encoded (kind, id, name, room), `re_register`, where it
is, its connection and its answer. `Lock`, `Connect`, `Write`, `Return` are the
straight path. After a failure `Refresh` reads the published address; with
`re_register` it calls a registration (`rereg`), then a switch (`rejoin`),
then retries from `connect`. `returned[t]` is a call whose answer its caller
has not used yet; this is what lies between `pthread_mutex_unlock` and
`strncpy(curr_room, ...)`.

`connect` fails when no process is at the address, and, if `ConnectMayFail`,
also otherwise. A process that dies after `connect` gives either an error or
an end of file; in the second case `send_tcp_request` returns a buffer that
was never written, so the answer is either unrecognisable (`EMPTY`) or one of
`Stale`, whatever a freed buffer may have held. A server never calls `srand`,
so its k-th registration draws the same id as any other server's: an id is the
number of its draw. Whether a switch succeeds depends on the rooms of the
server, which `ServerPool` does not keep: both answers are possible, also for
the empty name, which a room may have. `member_id` and `curr_room` begin as what `malloc`
left in them (`LeftoverId`, `LeftoverRoom`). A server that hangs without dying, and a print
that blocks with the mutex taken, are left out; the second is in `ReceiverChannel`. The servers' sweep of silent sessions is left
out here (it is in `ChatServer`): a session of the pool ends by a quit or by the
death of its server.

`HbGone` is the cancellation: the heartbeat thread ends at its next
cancellation point (connect, write, read, the request to the location server,
sleep), with the mutex in whatever state it is. The mutex itself is not one.

## 3. Runs

Passing runs:

| Run | Instance | Distinct states | Shows |
|---|---|---|---|
| `server_tables` | 4 members and rooms in all, of either 3 at most, 2 per room | 161 949 | the table invariants, the limits, the order of a broadcast; occupied rooms stay; a sweep looks at everyone once |
| `server_live` | 2 members, 2 rooms, 2 per room | 11 018 | loops end, silent sessions end, implementation of `ChatService` and of its fairness |
| `client_failover` | 3 servers, 2 failures, 1 other user, failing connects, stale buffers, outages of the location server | 320 192 | types, the mutex, the identity, one session; requests return, recovery, the session is heard of, also with nested failovers |
| `server_loop` | 4 descriptors, 3 slots, interval 3, heartbeat 2, 1 connection and 1 datagram waiting | 135 369 | table and set agree, no blocking read, requests served, sweeps recur, no living client swept |
| `receiver` | 3 tries, room for 3 messages, 6 lines, 2 datagrams | 24 134 | the port, the order of lines, and each wait with its exceptions |

Bounds. In `server_tables` the sets of structs, ids and names have four elements, and the
limits are three for members and for rooms and two for the members of a room: every limit
is below what there is, so that it is reached, refuses, and could be exceeded if a test
were missing (`WithinLimits`). Four structs in all (`InScope`) give three members and a
room, two and two, or one and three: lists with a first, a middle and a last, and one beyond the
limit; that longer lists bring nothing new is what section 4 proves. Structs, ids and names
that are not in use are alike, so a new one is the first of the unused ones
(`Canonical`); one that is in use is still allowed, for the code to find. In
`server_live` the limits are those of the sets; the limits are not its question, and the
refinement with more rooms is a theorem. In the client
`MaxFailures` counts servers that die and connections that fail; two make a failure
inside a failover possible. The addresses are used in order, since nothing tells one from
another. `ReuseAddress`, a server started where one has died, is
`client_same_address`'s; the proofs of the safety properties cover it. `MaxOthers` counts
registrations of other users, by the names in `OtherName` (numbers of the names the client
tries): its own name, and in `client_retry_id` also the next. `MaxName` 3 is more than one
other user and the client's own lost sessions can take, so it never stops a retry. `Capacity`
2 with one other user and a lost session makes a full server. In `server_loop` one descriptor
more than slots makes the table overflow, three slots leave one in the middle to close,
and an interval one longer than the heartbeat is the tightest
the assumption allows; `MaxBacklog` and `MaxDgrams` of one keep each socket ready or
not, which is all `select` sees, and they refill at any time. In `receiver` six lines
fill the queue of three and more; the proofs hold for any number.

Deadlock checking is off: a crashed server, an exited client, and
(`client_quit_hangs`) a hung one really stop. No symmetry is used.

Fairness. Server: `WF(ServerStep)`: a loop that has begun goes on, since the
process runs; requests, messages and sweeps are not promised. Where a
property needs sweeps to recur (`SilentSessionsEnd`) it says so itself. Client:
weak fairness of each thread's own steps and of the start of a server after
one has died (an operator does that), and strong fairness of `Lock`: a thread
that waits for the mutex gets it in the end because the other one sleeps five
seconds between calls. The fairness is not of the user, of crashes or of other
users. Select loop: `WF(ServerStep)`, the process runs; nothing of clients or of
time, so `SweepsRecur` says itself that time goes on passing in `select`. It is
what the assumption in `SilentSessionsEnd`, that sweeps recur, rests on. Receiver:
weak fairness of each thread and of the receiver; none of lines, datagrams, the
user or the faults.

Some liveness properties assume something of the world, each in a formula with a name.
`LocationAnswers`: the location server answers; `client_location_lost` shows what
happens when it does not. `RoomInTheEnd`: the published server does not stay full for ever, which
is what the comment at the retry hopes for (`client_to_server_sender.c` 101).
`FailureIsRecoveredElsewhere` is `FailureIsRecovered` where no server is started at the address of
one that has died; `client_same_address` shows what happens otherwise. `RequestServed` and
`SweepsRecur` are about a server that runs; `server_exits` is the run in which it does not.
`PrintReturns`, `LinesShown` and `ReceiverEnds` except a receiver that is no more (`Over`) and one
that itself waits for room (`Choked`: its socket failed, the client took the first report and
filled the queue before the second).

Violations (what the documentation or a comment says and the code does not do;
`PROJECT.json` has the quotations):

| Run | Property | Trace |
|---|---|---|
| `server_room_tail` | `CreateRoomReturns` | last room swept, tail NULL, next `create_room` crashes |
| `server_exits` | `NeverExits` | one connection too many, its closed descriptor in the set, `select` fails, the server exits |
| `client_quit_hangs` | `QuitReturns` | heartbeat thread cancelled with the mutex taken |
| `client_retry_id` | `OthersUntouched` | switch retried with the old id moves another user |
| `client_room_lost` | `RejoinsItsRoom` | every rejoin clears the room, the second failover has none |
| `client_same_address` | `FailureIsRecovered` | restart in place is never noticed |
| `client_location_lost` | `SurvivesOutage` | server dies, location server does not answer, null dereference |

The models hold more of the same kind that no run singles out:

* a failed `sendto` ends a broadcast and those behind are passed over (`DeliverFail`), where
  the design has it go "to all the members in the room" (`a3_doc.txt` 80-81, and the comment at
  `server_util.c` 525); `BroadcastFollowsRoll` is about those who are sent the message;
* the client that has given up waits in `waitpid` for a receiver that started well a moment later and
  waits for it (`WaitReturns`), where the comment expects "an exit code at least"
  (`receiver_mgr.c` 122); and it polls a removed queue for ever (`receiver_mgr.c` 113);
* a print into the full queue of a receiver that has died blocks, with the mutex taken if the heartbeat
  thread prints;
* a quit that fails over leaves the session it has just registered (the retry of a `quit` call).

## 4. Proofs

Everything here holds for every value of the constants that meets the named
assumptions: of `DList` and `ChatServer`, finite sets of structs, limits of at
least one and no larger than what there are structs and ids for, and `NULL` neither
a struct nor a room's name (`ServerAssumption`; the service uses it for "in no
room"); of `ServerLoop`,
finitely many descriptors, distinct sockets and a heartbeat shorter than the sweep's
interval (`LoopAssumption`); of `ClientSender` and `ServerPool`, at least one server with room for one
session, buffers (stale, or left over by `malloc`) that have the shape of what is read from them,
names of other users that are names, and `NoThread` and `NoRoom` neither thread
nor room (`ClientAssumption`, `PoolAssumption`); of
`ReceiverChannel`, at least one try and room for one message
(`ChannelAssumption`).

`DListProofs`. A list is sound (`Ordered`) if some enumeration `q` of its nodes
orders its links. `LinkTailSound` extends `q` by one; `UnlinkSound` moves
everything behind the node that leaves one place down. `WalkStaysOnList` and
`BackLinksStayOnList` bound where links lead, and the frame lemmas say that a
list does not depend on the links of other nodes, which is what lets the rooms
share one pair of link fields. The second half says the same of enumerations:
from the `q` of a list before a step it makes the `q` after it (`LinkTailOrders`,
`UnlinkOrders`). `ChainIs` is what a walk finds: the code follows links until `NULL`,
`Walk` is that as a recursive function, and a sequence that the links thread is
what `Chain` yields. No induction theorem is needed for it: if the walk and the
sequence differed anywhere, they would differ at a first place, and there the
definition of `Walk` says that they agree.

`ChatServerProofs`: `TypeCorrect`. `TypeOK` ties the type of `cursor` to `pc` and so
is inductive.

`SearchFinds` says that the walk of `FreshId` over a sound list whose tail is the new member draws an
id nobody has; with it the uniqueness of ids is a consequence of the list's soundness and not of the
way the search is written down.

Its second half proves `SessionInv`: `TypeOK`, the soundness of the session list, its
counter and limit, the uniqueness of ids and names, and that the sweep stands on a
member. The last is what makes it inductive: a sweep that stood on a freed
struct would unlink it again and count it down twice. The session table needs
nothing of the rooms, so this invariant comes first. `SessionCases` reduces the
steps to three: sessions kept, `RemoveMember`, `Register`.

`RoomProofs`: `RoomInv` adds the room list, the member lists, the counts, the flags
and the positions of the room sweep and of a broadcast. None of these is
inductive without the others: a room is freed on its count; the count is right
because the member that leaves or enters is on the list it is counted for; the
member's room pointer is good because no occupied room is freed. `RoomCases`
reduces the steps to five, and one lemma each (`KeptTables`, `RemovalTables`,
`SwitchTables`, `AddTables`, `SweepTables`) restores the tables. The tail of the room
list is allowed to be lost in the invariant, because the code loses it
(`server_room_tail`); `LinkRoomSound` is therefore about the branch of
`create_room` that has a tail. Every safety property of the server that a passing
run checks follows, `OccupiedRoomKept` as an action property.

`ServerLoopProofs`: `LoopInv` adds three things to `TypeOK` and `SelectSetSound`.
`RestSound` counts what is left of an iteration: `num_ready_fds` is exactly the number
of ready descriptors ahead of the loop. This is what stops the scan in bounds, because
`max_fd_idx` does not when the table has overflowed, and what makes every
read find data. `TmpSound` says that `tmp_fd_idx` is the highest slot in use below the
scan; without it the lowering of `max_fd_idx` could hide a
connection. `TimerSound` relates the timer to the silence: a session marked by a sweep
has been silent for as long as the timer has run since, so the second sweep comes
only after more than a heartbeat's time. `ExitCorrect` gives the exit shown by `server_exits` its
only cause: a connection that found the table full (`ExitsOnlyWhenFull`).

`ReceiverProofs`: `ChannelInv` is `StartSound` (a receiver that has not reported finds the
client waiting and the queue empty; the first report is true) and `LinesSound` (the
queue continues what has been printed, and nobody prints behind `CHAT_QUIT` since
the other thread has been joined).

`ClientProofs`: `ClientInv`. `LockDiscipline` speaks of all calls of a thread, so the
invariant says what stacks look like at any depth (`ThreadSound`): every call but the
innermost waits in `rereg` or `rejoin`, its callee is of the kind that goes with that, and a
registration never calls. Then all calls but possibly the innermost are
past their lock, and `Held`, the depth of the mutex, is a function of the length of the
stack. What each thread asks for (`Purpose`) fits the state of its caller.
Lemmas on sequences (`Replaced`, `Called`, ...) say what each operation does to a
stack of any depth.

`ClientSessionProofs`: `SessionInv`. Only the published server can be up (`PoolSound`) and
this user's sessions are at the server in use (`ServerInUse`); a connection is to the
server in use or to one that has lost them (`CallsCurrent`). The lemma `RegistersAlone`
is where the mutex comes in: a thread that registers or is about to has it, or is
the main thread before the heartbeat thread exists, so no two do.
`IdentitySound` says how the identity can be other than that of the session: a registration is
due, or its answer has not been used. `SessionsCounted` says that whoever is about to
register has no session but those left by failed connections; with it the
next registration makes one. Most steps disturb little of this, and a few lemmas take
the rest: steps that leave sessions and registrations as they are (`Quiet`), a
client that is leaving and goes by its id no more (`Leaving`), the count when sessions
only go (`Counted`), and a client without a session (`NoSession`).
The case `LockLost` is the heartbeat thread cancelled with the mutex taken
(`client_quit_hangs`): the identity may stay behind, and nobody gets past the mutex again to
use it.

`ServiceProofs`: `ServiceImplemented`, the refinement. The mapping of
`ChatServerRefinement` walks the links; `Seen` turns what it finds into tables without
walks, an equation for each variable of the service (`MemberIds`, `RoomNames`, the
sequence of each room's occupants), with the enumerations that `RoomInv` says there
are. It needs ids and names to be unique, since the service has them where
the server has structs. Then every action has a lemma that says which step of the service
it is (`RegisterStep`, `SwitchStep`, `SweepRoomStep`, ...); all rest on what becomes of an enumeration
when a member or a room leaves it or comes last, which is what the list lemmas
give. Steps within a handler that the service does not see are
stutters, and the crash in `create_room` is its `Die`.

The same module has two theorems on the sweep, which frees the struct it stands
on and goes on from a link read before. `SweepMarksCorrect`: behind the sweep every
member has its quiet flag up and every empty room its empty flag. `SweepOnceCorrect`: the
set ahead is everyone at the start, loses exactly the one under the cursor in each step and is empty at
the end. Neither needs more than `RoomInv` and the enumerations. With the
fairness of the process the second is the ranking by which a sweep ends (`LoopsEnd`).

Model-checked only: liveness under fairness, which is out of the prover's reach
(`LoopsEnd`, `SilentSessionsEnd` and the fairness in `ImplementsLiveService`; `RequestServed` and
`SweepsRecur`; `RequestsReturn`, `FailureIsRecoveredElsewhere` and `SessionHeard`; `PrintReturns`,
`LinesShown` and `ReceiverEnds`), and the properties of the runs that expect a violation, which do not
hold. Every other property of a passing run is a theorem.

## 5. What is left

The plan put the tables first, because every other part relies on them, then the
client's failover, then the select loop and the receiver, and the proofs of each
behind its model. All of this is done. A property is still missing for two things the
client model has: the note of the room after the mutex has been given up
(`UserAnswered`), after which the room noted and the room of the session do differ,
and the quit that fails over and leaves a session at the new server. No
comment, test or document says what should happen in either case.

Not modelled:

* names at exactly the length limit (`server_util.c` 188): a room name of 24
  characters is copied with its terminator into an array of 24, so that
  the terminator is the first byte of `next_room`. While the room is the last
  nothing shows. Once another room is linked behind it the bytes of the pointer are
  read as the end of the name, and it is found under its name no more. A
  model of this needs the layout of `struct room` in memory, and no property of the
  tables as data would hold of it or fail for another reason;
* likewise the user name that grows by `_` (`client_to_server_sender.c` 97) beyond
  the buffer it is in: names are numbers here;
* a request in two segments: `ServerLoop` has the short read, what the handler makes
  of the bytes behind it in its buffer depends on the request before;
* the sending of a chat message (`send_chat_msg_req`) and the UDP
  wrapper: a datagram without answer, no state;
* the location server beyond its answer or its absence, `client_util.c` (called by
  nothing), text formats, logging, option parsing, the creation of sockets, memory
  exhaustion: I/O, or without effect on the state that is modelled;
* `ServerPool` as an abstraction of `ChatService`: each is checked against the
  code on its own; the two differ in what they keep (a pool has no rooms and no
  sweep, the service no processes), so neither implements the other.
