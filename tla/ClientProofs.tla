---------------------------- MODULE ClientProofs ----------------------------
(***************************************************************************)
(* What holds of the client's two threads for any number of servers, rooms  *)
(* and failures: where their calls of send_control_msg can be, and who has  *)
(* the mutex.                                                               *)
(***************************************************************************)
EXTENDS ClientSender, SequenceTheorems, FiniteSetTheorems, TLAPS

\* A call in which another call has been made.
Waiting == {"rereg", "rejoin"}

\* The request of the call it has made.
Callee(f) == IF f.at = "rereg" THEN "register" ELSE "switch"

\* A registration never makes another call, and there is a connection to write to.
FrameSound(f) ==
  /\ f.re_register <=> f.kind # "register"
  /\ f.at \in Waiting => f.re_register
  /\ f.at = "write" => f.conn \in Server \X Nat

\* A stack s, and ret, the call that has just returned to its innermost call.
ThreadSound(s, ret) ==
  /\ \A k \in 1..Len(s) : FrameSound(s[k])
  /\ \A k \in 1..Len(s) - 1 : s[k].at \in Waiting /\ s[k + 1].kind = Callee(s[k])
  /\ s # <<>> => (s[Len(s)].at \in Waiting <=> ret # <<>>)
  /\ s # <<>> /\ ret # <<>> => ret[1].kind = Callee(s[Len(s)])

Idle(s, ret) == s = <<>> /\ ret = <<>>

\* What the thread asks for.
Purpose(s, ret) == IF s # <<>> THEN s[1].kind ELSE ret[1].kind

\* The thread asks for one of kinds.
Asks(s, ret, kinds) == ~Idle(s, ret) /\ Purpose(s, ret) \in kinds

CallsSound ==
  /\ \A t \in Thread : ThreadSound(stack[t], returned[t])
  /\ IF hb = "beating" THEN Asks(stack["hb"], returned["hb"], {"keep_alive"})
                       ELSE Idle(stack["hb"], returned["hb"])
  /\ main \in {"prompt", "joining", "exited"} => Idle(stack["main"], returned["main"])
  /\ main = "starting" =>
       /\ hb = "off"
       /\ ~Idle(stack["main"], returned["main"]) =>
            Asks(stack["main"], returned["main"], {"register"})
  /\ main = "requesting" => Asks(stack["main"], returned["main"], {"switch", "list"})
  /\ main = "quitting" => hb = "gone" /\ Asks(stack["main"], returned["main"], {"quit"})

\* How often a thread with the stack s has taken the mutex.
Held(s) == IF s = <<>> THEN 0 ELSE IF s[Len(s)].at = "lock" THEN Len(s) - 1 ELSE Len(s)

LockSound ==
  \A t \in Thread :
    (t = "hb" => hb # "gone") => Held(stack[t]) = IF lock.owner = t THEN lock.depth ELSE 0

ClientInv == TypeOK /\ CallsSound /\ LockSound
-----------------------------------------------------------------------------
(* What the operations on a stack do to it, for stacks of any depth. *)

\* stack[t] with another innermost call.
Replaced(s, f) == [s EXCEPT ![Len(s)] = f]

LEMMA ReplacedSeq ==
  ASSUME NEW s \in Seq(Frame), s # <<>>, NEW f \in Frame
  PROVE  /\ Replaced(s, f) \in Seq(Frame) /\ Replaced(s, f) # <<>>
         /\ Len(Replaced(s, f)) = Len(s) /\ Len(s) \in Nat /\ Len(s) # 0
         /\ Replaced(s, f)[Len(s)] = f
         /\ \A k \in 1..Len(s) - 1 : Replaced(s, f)[k] = s[k]
<1>1. Len(s) \in Nat /\ Len(s) # 0 BY EmptySeq, LenProperties
<1>2. Len(s) \in 1..Len(s) BY <1>1
<1>3. /\ Replaced(s, f) \in Seq(Frame) /\ Len(Replaced(s, f)) = Len(s)
      /\ \A j \in 1..Len(s) : Replaced(s, f)[j] = IF j = Len(s) THEN f ELSE s[j]
  BY <1>2, ExceptSeq DEF Replaced
<1>4. Replaced(s, f) # <<>> BY <1>1, <1>3, EmptySeq
<1>5. \A k \in 1..Len(s) - 1 : k \in 1..Len(s) /\ k # Len(s) BY <1>1
<1> QED BY <1>1, <1>2, <1>3, <1>4, <1>5

\* The innermost call goes on.
LEMMA GoneOn ==
  ASSUME NEW s \in Seq(Frame), s # <<>>, NEW f \in Frame,
         NEW ret, ThreadSound(s, ret),
         FrameSound(f), f.at \notin Waiting, f.kind = s[Len(s)].kind
  PROVE  /\ Replaced(s, f) \in Seq(Frame)
         /\ ThreadSound(Replaced(s, f), <<>>)
         /\ Held(Replaced(s, f)) = IF f.at = "lock" THEN Len(s) - 1 ELSE Len(s)
         /\ ~Idle(Replaced(s, f), <<>>) /\ Purpose(Replaced(s, f), <<>>) = Purpose(s, ret)
<1> DEFINE r == Replaced(s, f)
<1>1. /\ r \in Seq(Frame) /\ r # <<>> /\ Len(r) = Len(s) /\ Len(s) \in Nat /\ Len(s) # 0
      /\ r[Len(s)] = f /\ \A k \in 1..Len(s) - 1 : r[k] = s[k]
  BY ReplacedSeq
<1> HIDE DEF r
<1>2. ASSUME NEW k \in 1..Len(r) PROVE FrameSound(r[k])
  <2>1. k = Len(s) \/ k \in 1..Len(s) - 1 BY <1>1
  <2>2. k \in 1..Len(s) BY <1>1
  <2> QED BY <1>1, <2>1, <2>2 DEF ThreadSound
<1>3. ASSUME NEW k \in 1..Len(r) - 1
      PROVE  r[k].at \in Waiting /\ r[k + 1].kind = Callee(r[k])
  <2>1. k \in 1..Len(s) - 1 /\ r[k] = s[k] BY <1>1
  <2>2. r[k + 1].kind = s[k + 1].kind
    <3>1. k + 1 = Len(s) \/ k + 1 \in 1..Len(s) - 1 BY <1>1
    <3> QED BY <1>1, <3>1
  <2> QED BY <2>1, <2>2 DEF ThreadSound
<1>4. ThreadSound(r, <<>>) BY <1>1, <1>2, <1>3 DEF ThreadSound
<1>5. r[1].kind = s[1].kind
  <2>1. 1 = Len(s) \/ 1 \in 1..Len(s) - 1 BY <1>1
  <2> QED BY <1>1, <2>1
<1> QED BY <1>1, <1>4, <1>5 DEF r, Held, Idle, Purpose

\* The innermost call, which goes on as f, makes a call c.
LEMMA Called ==
  ASSUME NEW s \in Seq(Frame), s # <<>>, NEW f \in Frame, NEW c \in Frame,
         NEW ret, ThreadSound(s, ret), Held(s) = Len(s),
         FrameSound(f), f.at \in Waiting, f.kind = s[Len(s)].kind,
         FrameSound(c), c.at = "lock", c.kind = Callee(f)
  PROVE  LET r == Append(Replaced(s, f), c)
         IN  /\ r \in Seq(Frame) /\ ThreadSound(r, <<>>) /\ Held(r) = Held(s)
             /\ ~Idle(r, <<>>) /\ Purpose(r, <<>>) = Purpose(s, ret)
<1> DEFINE q == Replaced(s, f)
           r == Append(q, c)
<1>1. /\ q \in Seq(Frame) /\ q # <<>> /\ Len(q) = Len(s) /\ Len(s) \in Nat /\ Len(s) # 0
      /\ q[Len(s)] = f /\ \A k \in 1..Len(s) - 1 : q[k] = s[k]
  BY ReplacedSeq
<1> HIDE DEF q
<1>2. /\ r \in Seq(Frame) /\ r # <<>> /\ Len(r) = Len(s) + 1
      /\ r[Len(s) + 1] = c /\ \A k \in 1..Len(s) : r[k] = q[k]
  BY <1>1, AppendProperties
<1> HIDE DEF r
<1>3. ASSUME NEW k \in 1..Len(r) PROVE FrameSound(r[k])
  <2>1. k = Len(s) + 1 \/ k = Len(s) \/ k \in 1..Len(s) - 1 BY <1>1, <1>2
  <2>2. CASE k \in 1..Len(s) - 1
    <3>1. k \in 1..Len(s) BY <1>1, <2>2
    <3> QED BY <1>1, <1>2, <2>2, <3>1 DEF ThreadSound
  <2>3. CASE k = Len(s)
    <3>1. k \in 1..Len(s) BY <1>1, <2>3
    <3> QED BY <1>1, <1>2, <2>3, <3>1
  <2> QED BY <1>2, <2>1, <2>2, <2>3
<1>4. ASSUME NEW k \in 1..Len(r) - 1
      PROVE  r[k].at \in Waiting /\ r[k + 1].kind = Callee(r[k])
  <2>1. k \in 1..Len(s) /\ r[k] = q[k] BY <1>1, <1>2
  <2>2. CASE k = Len(s) BY <1>1, <1>2, <2>1, <2>2
  <2>3. CASE k # Len(s)
    <3>1. k \in 1..Len(s) - 1 /\ k + 1 \in 1..Len(s) BY <1>1, <2>1, <2>3
    <3>2. s[k].at \in Waiting /\ s[k + 1].kind = Callee(s[k]) BY <3>1 DEF ThreadSound
    <3>3. r[k] = s[k] /\ r[k + 1] = q[k + 1] BY <1>1, <1>2, <2>1, <3>1
    <3>4. q[k + 1].kind = s[k + 1].kind
      <4>1. k + 1 = Len(s) \/ k + 1 \in 1..Len(s) - 1 BY <1>1, <3>1
      <4> QED BY <1>1, <4>1
    <3> QED BY <3>2, <3>3, <3>4
  <2> QED BY <2>2, <2>3
<1>5. c.at \notin Waiting BY DEF Waiting
<1>6. ThreadSound(r, <<>>) BY <1>1, <1>2, <1>3, <1>4, <1>5 DEF ThreadSound
<1>7. r[1].kind = s[1].kind
  <2>1. 1 \in 1..Len(s) /\ (1 = Len(s) \/ 1 \in 1..Len(s) - 1) BY <1>1
  <2> QED BY <1>1, <1>2, <2>1
<1>8. Held(r) = Held(s) BY <1>1, <1>2 DEF Held
<1>9. ~Idle(r, <<>>) /\ Purpose(r, <<>>) = Purpose(s, ret)
  BY <1>2, <1>7 DEF Idle, Purpose
<1> QED BY <1>2, <1>6, <1>8, <1>9 DEF r, q

LEMMA OneLess ==
  ASSUME NEW n \in Nat, n # 0
  PROVE  /\ n - 1 \in Nat /\ n - 1 + 1 = n
         /\ \A x : x = (IF 1 <= n - 1 THEN n - 1 - 1 + 1 ELSE 0) => x = n - 1
         /\ n # 1 => n - 1 \in 1..n - 1 /\ 1 \in 1..n - 1
         /\ \A k \in 1..n - 1 : k \in 1..n /\ k \in 1..(n - 1) - 1 + 1 /\ 1 + k - 1 = k
OBVIOUS

\* The innermost call returns a.
LEMMA Popped ==
  ASSUME NEW s \in Seq(Frame), s # <<>>, NEW ret, ThreadSound(s, ret),
         s[Len(s)].at = "read", NEW a \in Answered, a.kind = s[Len(s)].kind
  PROVE  LET r == SubSeq(s, 1, Len(s) - 1)
         IN  /\ r \in Seq(Frame) /\ ThreadSound(r, <<a>>)
             /\ Held(s) = Len(s) /\ Held(r) = Len(s) - 1 /\ Len(s) \in Nat /\ Len(s) # 0
             /\ ~Idle(r, <<a>>) /\ Purpose(r, <<a>>) = Purpose(s, ret)
<1> DEFINE r == SubSeq(s, 1, Len(s) - 1)
<1>1. Len(s) \in Nat /\ Len(s) # 0 BY EmptySeq, LenProperties
<1>2. \A k \in 1..Len(s) - 1 : s[k] \in Frame BY <1>1, ElementOfSeq
<1>3. r \in Seq(Frame) /\ Len(r) = Len(s) - 1 /\ \A k \in 1..Len(s) - 1 : r[k] = s[k]
  <2>1. Len(s) - 1 \in Int /\ 1 \in Int BY <1>1
  <2>2. /\ SubSeq(s, 1, Len(s) - 1) \in Seq(Frame)
        /\ Len(SubSeq(s, 1, Len(s) - 1)) = IF 1 <= Len(s) - 1 THEN Len(s) - 1 - 1 + 1 ELSE 0
        /\ \A k \in 1..(Len(s) - 1) - 1 + 1 : SubSeq(s, 1, Len(s) - 1)[k] = s[1 + k - 1]
    BY <1>2, <2>1, SubSeqProperties
  <2>3. ASSUME NEW k \in 1..Len(s) - 1 PROVE r[k] = s[k]
    <3>1. k \in 1..(Len(s) - 1) - 1 + 1 /\ 1 + k - 1 = k BY <1>1
    <3> QED BY <2>2, <3>1
  <2>4. Len(r) = Len(s) - 1
    <3>1. Len(r) = IF 1 <= Len(s) - 1 THEN Len(s) - 1 - 1 + 1 ELSE 0 BY <2>2, Zenon
    <3> QED BY <1>1, <3>1, OneLess, Zenon
  <2> QED BY <2>2, <2>3, <2>4
<1> HIDE DEF r
<1>4. r = <<>> <=> Len(s) = 1 BY <1>1, <1>3, EmptySeq
<1>5. ASSUME r # <<>> PROVE r[Len(r)].at \in Waiting /\ a.kind = Callee(r[Len(r)])
  <2>0. Len(s) # 1 BY <1>4, <1>5, Zenon
  <2>1. Len(s) - 1 \in 1..Len(s) - 1 BY <1>1, <2>0, OneLess, Zenon
  <2>2. Len(s) - 1 + 1 = Len(s) BY <1>1
  <2>3. s[Len(s) - 1].at \in Waiting /\ s[Len(s)].kind = Callee(s[Len(s) - 1])
    BY <2>1, <2>2 DEF ThreadSound
  <2> QED BY <1>3, <2>1, <2>3
<1>6. <<a>> # <<>> /\ <<a>>[1] = a OBVIOUS
<1>7. ThreadSound(r, <<a>>)
  <2>1. \A k \in 1..Len(r) : FrameSound(r[k])
    <3>1. \A k \in 1..Len(s) - 1 : k \in 1..Len(s) BY <1>1
    <3> QED BY <1>3, <3>1 DEF ThreadSound
  <2>2. \A k \in 1..Len(r) - 1 : r[k].at \in Waiting /\ r[k + 1].kind = Callee(r[k])
    <3> SUFFICES ASSUME NEW k \in 1..Len(r) - 1
                 PROVE  r[k].at \in Waiting /\ r[k + 1].kind = Callee(r[k])
      OBVIOUS
    <3>1. k \in 1..Len(s) - 1 /\ k + 1 \in 1..Len(s) - 1 BY <1>1, <1>3
    <3> QED BY <1>3, <3>1 DEF ThreadSound
  <2> QED BY <1>5, <1>6, <2>1, <2>2 DEF ThreadSound
<1>8. Held(s) = Len(s) BY DEF Held
<1>9. Held(r) = Len(s) - 1
  <2>1. CASE r = <<>> BY <1>1, <1>4, <2>1 DEF Held
  <2>2. CASE r # <<>> BY <1>3, <1>5, <2>2 DEF Held, Waiting
  <2> QED BY <2>1, <2>2
<1>10. Purpose(r, <<a>>) = Purpose(s, ret)
  <2>1. CASE r = <<>> BY <1>4, <1>6, <2>1 DEF Purpose
  <2>2. CASE r # <<>>
    <3>0. Len(s) # 1 BY <1>4, <2>2, Zenon
    <3>1. 1 \in 1..Len(s) - 1 BY <1>1, <3>0, OneLess, Zenon
    <3> QED BY <1>3, <2>2, <3>1 DEF Purpose
  <2> QED BY <2>1, <2>2
<1> QED BY <1>1, <1>3, <1>6, <1>7, <1>8, <1>9, <1>10 DEF r, Idle

-----------------------------------------------------------------------------
(* The pool of servers keeps its types. *)

LEMMA ServerFunctions ==
  ASSUME NEW x \in Process
  PROVE  /\ \A name \in Name, owner \in Owner : AfterRegister(x, name, owner) \in Process
         /\ \A name \in Name : RegisterReply(x, name) \in Reply
         /\ \A id : AfterQuit(x, id) \in Process
         /\ \A id : \A room \in Room \cup {NoRoom} : AfterSwitch(x, id, room) \in Process
<1>1. x.draws + 1 \in Nat BY DEF Process
<1>2. ASSUME NEW name \in Name, NEW owner \in Owner
      PROVE  AfterRegister(x, name, owner) \in Process
  <2>1. [id |-> x.draws + 1, name |-> name, room |-> NoRoom, owner |-> owner] \in Session
    BY <1>1 DEF Session
  <2> QED BY <1>1, <2>1 DEF AfterRegister, Process
<1>3. ASSUME NEW name \in Name PROVE RegisterReply(x, name) \in Reply
  BY <1>1 DEF RegisterReply, Reply
<1>4. ASSUME NEW id PROVE AfterQuit(x, id) \in Process
  BY DEF AfterQuit, SessionOf, Process
<1>5. ASSUME NEW id, NEW room \in Room \cup {NoRoom}
      PROVE  AfterSwitch(x, id, room) \in Process
  <2>1. \A e \in Session : [e EXCEPT !.room = room] \in Session BY DEF Session
  <2>2. x.sessions \subseteq Session BY DEF Process
  <2>3. {IF e.id = id THEN [e EXCEPT !.room = room] ELSE e : e \in x.sessions} \subseteq Session
    BY <2>1, <2>2
  <2> QED BY <2>3 DEF AfterSwitch, Process
<1> QED BY <1>2, <1>3, <1>4, <1>5

\* One server changes.
LEMMA ServerTyped ==
  ASSUME PoolTypeOK, NEW s \in Server, NEW x \in Process,
         server' = [server EXCEPT ![s] = x], UNCHANGED <<published, crashes, faults, others>>
  PROVE  PoolTypeOK'
BY DEF PoolTypeOK

LEMMA FaultTyped == ASSUME PoolTypeOK, ConnectFault PROVE PoolTypeOK'
BY PoolAssumption DEF PoolTypeOK, ConnectFault

LEMMA CrashTyped == ASSUME PoolTypeOK, NEW s \in Server, Crash(s) PROVE PoolTypeOK'
<1>1. [server[s] EXCEPT !.up = FALSE, !.sessions = {}] \in Process
  BY DEF PoolTypeOK, Process
<1>2. server' = [server EXCEPT ![s] = [server[s] EXCEPT !.up = FALSE, !.sessions = {}]]
  BY DEF Crash, PoolTypeOK
<1>3. server' \in [Server -> Process] BY <1>1, <1>2 DEF PoolTypeOK
<1> QED BY <1>3, PoolAssumption DEF PoolTypeOK, Crash

LEMMA RestartTyped == ASSUME PoolTypeOK, NEW s \in Server, Restart(s) PROVE PoolTypeOK'
<1>1. [up |-> TRUE, run |-> server[s].run + 1, draws |-> 0, sessions |-> {}] \in Process
  BY DEF PoolTypeOK, Process
<1>2. server' \in [Server -> Process] BY <1>1 DEF PoolTypeOK, Restart
<1> QED BY <1>2 DEF PoolTypeOK, Restart

LEMMA OthersTyped ==
  ASSUME PoolTypeOK, NEW s \in Server,
         OtherQuits(s) \/ \E name \in OtherName : OtherRegisters(s, name)
  PROVE  PoolTypeOK'
<1>1. server[s] \in Process BY DEF PoolTypeOK
<1>2. CASE OtherQuits(s)
  <2>1. PICK e \in server[s].sessions : server' = [server EXCEPT ![s] = AfterQuit(@, e.id)]
    BY <1>2 DEF OtherQuits
  <2>2. server' = [server EXCEPT ![s] = AfterQuit(server[s], e.id)] BY <2>1
  <2>3. AfterQuit(server[s], e.id) \in Process BY <1>1, ServerFunctions
  <2> QED BY <1>2, <2>2, <2>3, ServerTyped DEF OtherQuits
<1>3. ASSUME NEW name \in OtherName, OtherRegisters(s, name) PROVE PoolTypeOK'
  <2>1. AfterRegister(server[s], name, "other") \in Process
    BY <1>1, PoolAssumption, ServerFunctions DEF Name, Owner
  <2>2. server' = [server EXCEPT ![s] = AfterRegister(server[s], name, "other")]
    BY <1>3 DEF OtherRegisters
  <2>3. server' \in [Server -> Process] BY <2>1, <2>2 DEF PoolTypeOK
  <2>4. others' \in 0..MaxOthers /\ UNCHANGED <<published, crashes, faults>>
    BY <1>3, PoolAssumption DEF OtherRegisters, PoolTypeOK
  <2> QED BY <2>3, <2>4 DEF PoolTypeOK
<1> QED BY <1>2, <1>3

-----------------------------------------------------------------------------
(* A thread moves inside its calls. *)

\* The thread t goes from the stack it has to s, and from returned[t] to ret.
Moves(t, s, ret) ==
  /\ stack' = [stack EXCEPT ![t] = s] /\ returned' = [returned EXCEPT ![t] = ret]
  /\ UNCHANGED <<hb, cancelled>>

\* It stays in the same request.
SameRequest(t, s, ret) ==
  /\ s \in Seq(Frame) /\ ret \in Seq(Answered)
  /\ ThreadSound(s, ret) /\ ~Idle(s, ret)
  /\ Purpose(s, ret) = Purpose(stack[t], returned[t])

LEMMA CallsMove ==
  ASSUME ClientInv, NEW t \in Thread, NEW s, NEW ret, Moves(t, s, ret), main' = main,
         ~Idle(stack[t], returned[t]), SameRequest(t, s, ret)
  PROVE  /\ stack' \in [Thread -> Seq(Frame)] /\ returned' \in [Thread -> Seq(Answered)]
         /\ CallsSound'
<1>1. stack \in [Thread -> Seq(Frame)] /\ returned \in [Thread -> Seq(Answered)]
  BY DEF ClientInv, TypeOK
<1>2. /\ stack'[t] = s /\ returned'[t] = ret
      /\ \A u \in Thread : u # t => stack'[u] = stack[u] /\ returned'[u] = returned[u]
  BY <1>1 DEF Moves
<1>3. \A u \in Thread : ThreadSound(stack'[u], returned'[u])
  BY <1>2 DEF ClientInv, CallsSound, SameRequest
<1>4. /\ \A u \in Thread : Idle(stack'[u], returned'[u]) <=> Idle(stack[u], returned[u])
      /\ \A u \in Thread : Purpose(stack'[u], returned'[u]) = Purpose(stack[u], returned[u])
  BY <1>2 DEF SameRequest
<1>5. \A u \in Thread : \A kinds :
        Asks(stack'[u], returned'[u], kinds) <=> Asks(stack[u], returned[u], kinds)
  BY <1>4 DEF Asks
<1>6. "main" \in Thread /\ "hb" \in Thread BY DEF Thread
<1>7. main' = main /\ hb' = hb BY DEF Moves
<1>8. CallsSound
  BY DEF ClientInv
<1> HIDE DEF Thread
<1>9. CallsSound' BY <1>3, <1>4, <1>5, <1>6, <1>7, <1>8 DEF CallsSound
<1>10. stack' \in [Thread -> Seq(Frame)] /\ returned' \in [Thread -> Seq(Answered)]
  BY <1>1 DEF Moves, SameRequest
<1> QED BY <1>9, <1>10

LEMMA LockKept ==
  ASSUME ClientInv, NEW t \in Thread, NEW s, NEW ret, Moves(t, s, ret), lock' = lock,
         Held(s) = Held(stack[t])
  PROVE  LockSound'
<1>1. \A u \in Thread : Held(stack'[u]) = Held(stack[u])
  BY DEF ClientInv, TypeOK, Moves
<1> QED BY <1>1 DEF ClientInv, LockSound, Moves

\* Where a thread stands that is not waiting for an answer of its own call.
LEMMA AtTop ==
  ASSUME ClientInv, NEW t \in Thread, NEW place, At(t, place)
  PROVE  /\ stack[t] \in Seq(Frame) /\ stack[t] # <<>> /\ returned[t] = <<>>
         /\ Top(t) = stack[t][Len(stack[t])] /\ Top(t) \in Frame /\ Top(t).at = place
         /\ FrameSound(Top(t)) /\ ThreadSound(stack[t], returned[t])
         /\ ~Idle(stack[t], returned[t])
         /\ Len(stack[t]) \in Nat /\ Len(stack[t]) # 0
         /\ returned = [returned EXCEPT ![t] = <<>>]
         /\ t = "hb" => hb = "beating"
         /\ place # "lock" =>
              /\ Held(stack[t]) = Len(stack[t])
              /\ lock.owner = t /\ lock.depth = Len(stack[t])
<1>1. /\ stack[t] \in Seq(Frame) /\ stack[t] # <<>> /\ returned[t] = <<>>
      /\ Top(t) = stack[t][Len(stack[t])] /\ Top(t).at = place
      /\ returned = [returned EXCEPT ![t] = <<>>]
  BY DEF ClientInv, TypeOK, At, Top
<1>2. Len(stack[t]) \in Nat /\ Len(stack[t]) # 0 BY <1>1, EmptySeq, LenProperties
<1>3. Len(stack[t]) \in 1..Len(stack[t]) BY <1>2
<1>4. Top(t) \in Frame BY <1>1, <1>3, ElementOfSeq
<1>5. ThreadSound(stack[t], returned[t]) BY DEF ClientInv, CallsSound
<1>6. FrameSound(Top(t)) BY <1>1, <1>3, <1>5 DEF ThreadSound
<1>7. t = "hb" => hb = "beating" BY <1>1 DEF ClientInv, CallsSound, Idle
<1>8. ASSUME place # "lock"
      PROVE  /\ Held(stack[t]) = Len(stack[t])
             /\ lock.owner = t /\ lock.depth = Len(stack[t])
  <2>1. Held(stack[t]) = Len(stack[t]) BY <1>1, <1>8 DEF Held
  <2>2. Held(stack[t]) = IF lock.owner = t THEN lock.depth ELSE 0
    BY <1>7 DEF ClientInv, LockSound
  <2> QED BY <1>2, <2>1, <2>2
<1> QED BY <1>1, <1>2, <1>4, <1>5, <1>6, <1>7, <1>8 DEF Idle

\* Where a thread stands whose innermost call is about to use an answer.
LEMMA BackTop ==
  ASSUME ClientInv, NEW t \in Thread, NEW place \in Waiting, BackAt(t, place)
  PROVE  /\ stack[t] \in Seq(Frame) /\ stack[t] # <<>> /\ returned[t] # <<>>
         /\ Top(t) = stack[t][Len(stack[t])] /\ Top(t) \in Frame /\ Top(t).at = place
         /\ FrameSound(Top(t)) /\ ThreadSound(stack[t], returned[t])
         /\ ~Idle(stack[t], returned[t])
         /\ Len(stack[t]) \in Nat /\ Len(stack[t]) # 0
         /\ Result(t) \in Answered /\ Result(t).kind = Callee(Top(t))
         /\ t = "hb" => hb = "beating"
         /\ Held(stack[t]) = Len(stack[t])
         /\ lock.owner = t /\ lock.depth = Len(stack[t])
<1>1. /\ stack[t] \in Seq(Frame) /\ stack[t] # <<>> /\ returned[t] # <<>>
      /\ Top(t) = stack[t][Len(stack[t])] /\ Top(t).at = place
      /\ returned[t] \in Seq(Answered)
  BY DEF ClientInv, TypeOK, BackAt, Top
<1>2. Len(stack[t]) \in Nat /\ Len(stack[t]) # 0 BY <1>1, EmptySeq, LenProperties
<1>3. Len(stack[t]) \in 1..Len(stack[t]) BY <1>2
<1>4. Top(t) \in Frame BY <1>1, <1>3, ElementOfSeq
<1>5. ThreadSound(stack[t], returned[t]) BY DEF ClientInv, CallsSound
<1>6. FrameSound(Top(t)) BY <1>1, <1>3, <1>5 DEF ThreadSound
<1>7. t = "hb" => hb = "beating" BY <1>1 DEF ClientInv, CallsSound, Idle
<1>8. Result(t) \in Answered
  <2>1. Len(returned[t]) \in Nat /\ Len(returned[t]) # 0 BY <1>1, EmptySeq, LenProperties
  <2>2. 1 \in 1..Len(returned[t]) BY <2>1
  <2> QED BY <1>1, <2>2, ElementOfSeq DEF Result
<1>9. Result(t).kind = Callee(Top(t)) BY <1>1, <1>5 DEF ThreadSound, Result
<1>10. Held(stack[t]) = Len(stack[t]) BY <1>1 DEF Held, Waiting
<1>11. Held(stack[t]) = IF lock.owner = t THEN lock.depth ELSE 0
  BY <1>7 DEF ClientInv, LockSound
<1>12. lock.owner = t /\ lock.depth = Len(stack[t]) BY <1>2, <1>10, <1>11
<1> QED BY <1>1, <1>2, <1>4, <1>5, <1>6, <1>7, <1>8, <1>9, <1>10, <1>12 DEF Idle

\* A frame at another place, or with another connection or answer.
Place == {"lock", "connect", "write", "read", "refresh", "rereg", "rejoin"}

LEMMA FrameAt ==
  ASSUME NEW f \in Frame, NEW place \in Place
  PROVE  LET g == [f EXCEPT !.at = place]
         IN  g \in Frame /\ g.at = place /\ g.kind = f.kind /\ g.re_register = f.re_register
             /\ g.name = f.name /\ g.conn = f.conn /\ g.reply = f.reply
BY DEF Frame, Place

LEMMA CallTyped ==
  ASSUME NEW id \in Nat, NEW name \in Nat, NEW room \in Room \cup {NoRoom}, NEW kind \in Kind
  PROVE  /\ Call(kind, id, room, kind # "register") \in Frame
         /\ FrameSound(Call(kind, id, room, kind # "register"))
         /\ Call(kind, id, room, kind # "register").at = "lock"
         /\ Call(kind, id, room, kind # "register").kind = kind
         /\ [Call(kind, id, room, kind # "register") EXCEPT !.name = name] \in Frame
BY DEF Call, Frame, FrameSound, Waiting, NoReply, Reply, Name

LEMMA RejoinCallTyped ==
  ASSUME NEW id \in Nat, NEW room \in Room \cup {NoRoom}
  PROVE  LET c == [Call("switch", 0, room, TRUE) EXCEPT !.id = id]
         IN  c \in Frame /\ FrameSound(c) /\ c.at = "lock" /\ c.kind = "switch"
BY DEF Call, Frame, FrameSound, Waiting, NoReply, Reply, Name, Kind

LEMMA RegisterCallTyped ==
  ASSUME NEW name \in Nat
  PROVE  LET c == [Call("register", 0, NoRoom, FALSE) EXCEPT !.name = name]
         IN  c \in Frame /\ FrameSound(c) /\ c.at = "lock" /\ c.kind = "register"
BY DEF Call, Frame, FrameSound, Waiting, NoReply, Reply, Name, Kind

-----------------------------------------------------------------------------
(* The steps inside send_control_msg. *)

StacksTyped == stack \in [Thread -> Seq(Frame)] /\ returned \in [Thread -> Seq(Answered)]

LEMMA TopReplaced ==
  ASSUME ClientInv, NEW t \in Thread, NEW f
  PROVE  WithTop(t, f) = [stack EXCEPT ![t] = Replaced(stack[t], f)]
BY DEF ClientInv, TypeOK, WithTop, Replaced

\* The innermost call goes on, with the mutex.
LEMMA CallGoesOn ==
  ASSUME ClientInv, NEW t \in Thread, NEW place, At(t, place), place # "lock",
         NEW f \in Frame, FrameSound(f), f.at \notin Waiting, f.at # "lock",
         f.kind = Top(t).kind,
         stack' = WithTop(t, f), UNCHANGED <<returned, lock, main, hb, cancelled>>
  PROVE  StacksTyped' /\ CallsSound' /\ LockSound'
<1> DEFINE s == Replaced(stack[t], f)
<1>1. s \in Seq(Frame) /\ ThreadSound(s, <<>>) /\ Held(s) = Len(stack[t])
      /\ ~Idle(s, <<>>) /\ Purpose(s, <<>>) = Purpose(stack[t], returned[t])
  BY AtTop, GoneOn
<1>2. stack' = [stack EXCEPT ![t] = s] BY TopReplaced
<1>3. <<>> \in Seq(Answered) BY EmptySeq
<1> HIDE DEF s
<1>4. Moves(t, s, <<>>) BY <1>2, AtTop DEF Moves
<1>5. SameRequest(t, s, <<>>) BY <1>1, <1>3 DEF SameRequest
<1>6. Held(s) = Held(stack[t]) BY <1>1, AtTop
<1>7. ~Idle(stack[t], returned[t]) BY AtTop
<1>8. StacksTyped' /\ CallsSound' BY <1>4, <1>5, <1>7, CallsMove DEF StacksTyped
<1>9. LockSound' BY <1>4, <1>6, LockKept
<1> QED BY <1>8, <1>9

\* The innermost call makes a call.
LEMMA CallIsMade ==
  ASSUME ClientInv, NEW t \in Thread,
         At(t, "refresh") \/ \E place \in Waiting : BackAt(t, place),
         NEW f \in Frame, FrameSound(f), f.at \in Waiting, f.kind = Top(t).kind,
         NEW c \in Frame, FrameSound(c), c.at = "lock", c.kind = Callee(f),
         stack' = [stack EXCEPT ![t] = Append(Replaced(stack[t], f), c)],
         returned' = [returned EXCEPT ![t] = <<>>],
         UNCHANGED <<lock, main, hb, cancelled>>
  PROVE  StacksTyped' /\ CallsSound' /\ LockSound'
<1> DEFINE s == Append(Replaced(stack[t], f), c)
<1>0. /\ stack[t] \in Seq(Frame) /\ stack[t] # <<>> /\ Held(stack[t]) = Len(stack[t])
      /\ ThreadSound(stack[t], returned[t]) /\ Top(t) = stack[t][Len(stack[t])]
      /\ ~Idle(stack[t], returned[t])
  <2>1. CASE At(t, "refresh") BY <2>1, AtTop
  <2>2. CASE \E place \in Waiting : BackAt(t, place) BY <2>2, BackTop
  <2> QED BY <2>1, <2>2
<1>1. s \in Seq(Frame) /\ ThreadSound(s, <<>>) /\ Held(s) = Held(stack[t])
      /\ ~Idle(s, <<>>) /\ Purpose(s, <<>>) = Purpose(stack[t], returned[t])
  BY <1>0, Called, SMTT(30)
<1>2. stack' = [stack EXCEPT ![t] = s] OBVIOUS
<1>3. <<>> \in Seq(Answered) BY EmptySeq
<1> HIDE DEF s
<1>4. Moves(t, s, <<>>) BY <1>2 DEF Moves
<1>5. SameRequest(t, s, <<>>) BY <1>1, <1>3 DEF SameRequest
<1>6. StacksTyped' /\ CallsSound' BY <1>0, <1>4, <1>5, CallsMove DEF StacksTyped
<1>7. LockSound' BY <1>1, <1>4, LockKept
<1> QED BY <1>6, <1>7

LEMMA LockStep ==
  ASSUME ClientInv, NEW t \in Thread, Lock(t)
  PROVE  StacksTyped' /\ CallsSound' /\ LockSound' /\ lock' \in [owner : Thread, depth : Nat \ {0}]
<1> DEFINE f == [Top(t) EXCEPT !.at = "connect"]
           s == Replaced(stack[t], f)
<1>1. At(t, "lock") /\ Free(t) /\ lock' = [owner |-> t, depth |-> lock.depth + 1]
      /\ UNCHANGED <<returned, main, hb, cancelled>>
  BY DEF Lock
<1>2. /\ stack[t] \in Seq(Frame) /\ stack[t] # <<>> /\ returned[t] = <<>>
      /\ Top(t) \in Frame /\ Top(t).at = "lock" /\ Top(t) = stack[t][Len(stack[t])]
      /\ FrameSound(Top(t)) /\ ThreadSound(stack[t], returned[t])
      /\ Len(stack[t]) \in Nat /\ Len(stack[t]) # 0
      /\ t = "hb" => hb = "beating"
      /\ returned = [returned EXCEPT ![t] = <<>>] /\ ~Idle(stack[t], returned[t])
  BY <1>1, AtTop
<1>3. f \in Frame /\ f.at = "connect" /\ f.kind = Top(t).kind /\ f.re_register = Top(t).re_register
  BY <1>2, FrameAt DEF Place
<1>4. FrameSound(f) BY <1>2, <1>3 DEF FrameSound, Waiting
<1>5. stack' = [stack EXCEPT ![t] = s] BY TopReplaced DEF Lock, Go
<1> HIDE DEF f
<1>6. f.at \notin Waiting BY <1>3 DEF Waiting
<1>7. s \in Seq(Frame) /\ ThreadSound(s, <<>>) /\ Held(s) = Len(stack[t])
      /\ ~Idle(s, <<>>) /\ Purpose(s, <<>>) = Purpose(stack[t], returned[t])
  BY <1>2, <1>3, <1>4, <1>6, GoneOn
<1> HIDE DEF s
<1>8. Moves(t, s, <<>>) BY <1>1, <1>2, <1>5 DEF Moves
<1>9. SameRequest(t, s, <<>>) BY <1>7, EmptySeq DEF SameRequest
<1>10. StacksTyped' /\ CallsSound' BY <1>1, <1>2, <1>8, <1>9, CallsMove DEF StacksTyped
<1>11. Held(stack[t]) = Len(stack[t]) - 1 BY <1>2 DEF Held
<1>12. lock.depth \in Nat /\ lock.owner \in Thread \cup {NoThread}
       /\ (lock.owner = NoThread <=> lock.depth = 0)
  BY DEF ClientInv, TypeOK
<1>13. Held(stack[t]) = lock.depth
  <2>1. Held(stack[t]) = IF lock.owner = t THEN lock.depth ELSE 0
    BY <1>2 DEF ClientInv, LockSound
  <2>2. lock.owner = t \/ lock.depth = 0 BY <1>1, <1>12 DEF Free
  <2> QED BY <2>1, <2>2
<1>14. lock'.owner = t /\ lock'.depth = lock.depth + 1 BY <1>1
<1>15. Held(stack'[t]) = lock'.depth
  <2>1. stack'[t] = s BY <1>5 DEF ClientInv, TypeOK
  <2> QED BY <1>2, <1>7, <1>11, <1>13, <1>14, <2>1
<1>16. \A u \in Thread \ {t} : (u = "hb" => hb # "gone") => Held(stack'[u]) = 0
  <2> SUFFICES ASSUME NEW u \in Thread \ {t}, u = "hb" => hb # "gone" PROVE Held(stack'[u]) = 0
    OBVIOUS
  <2>1. stack'[u] = stack[u] BY <1>5 DEF ClientInv, TypeOK
  <2>2. Held(stack[u]) = IF lock.owner = u THEN lock.depth ELSE 0 BY DEF ClientInv, LockSound
  <2>3. lock.owner # u BY <1>1, ClientAssumption DEF Free, Thread
  <2> QED BY <2>1, <2>2, <2>3
<1>17. LockSound' BY <1>1, <1>14, <1>15, <1>16 DEF LockSound
<1>18. lock' \in [owner : Thread, depth : Nat \ {0}] BY <1>1, <1>12
<1> QED BY <1>10, <1>17, <1>18

LEMMA ByLock == ASSUME ClientInv, NEW t \in Thread, Lock(t) PROVE ClientInv'
<1>1. StacksTyped' /\ CallsSound' /\ LockSound' /\ lock' \in [owner : Thread, depth : Nat \ {0}]
  BY LockStep
<1>2. NoThread \notin Thread BY ClientAssumption DEF Thread
<1>3. UNCHANGED <<poolVars, main, hb, cancelled, chatserver, member_name, member_id, curr_room, lost>>
  BY DEF Lock
<1>4. PoolTypeOK' BY <1>3 DEF poolVars, PoolTypeOK, ClientInv, TypeOK
<1> QED BY <1>1, <1>2, <1>3, <1>4 DEF ClientInv, TypeOK, StacksTyped

LEMMA ByConnect == ASSUME ClientInv, NEW t \in Thread, Connect(t) PROVE ClientInv'
<1>1. At(t, "connect") /\ UNCHANGED <<quiet, chatserver>> BY DEF Connect
<1>2. Top(t) \in Frame /\ FrameSound(Top(t)) BY <1>1, AtTop
<1>3. chatserver \in Server /\ server[chatserver].run \in Nat
  BY DEF ClientInv, TypeOK, PoolTypeOK, Process
<1>4. \E f \in Frame : /\ FrameSound(f) /\ f.at \notin Waiting /\ f.at # "lock"
                       /\ f.kind = Top(t).kind /\ stack' = WithTop(t, f)
  <2>1. CASE stack' = WithTop(t, [Top(t) EXCEPT !.at = "write",
                                    !.conn = <<chatserver, server[chatserver].run>>])
    <3> DEFINE c == <<chatserver, server[chatserver].run>>
               f == [Top(t) EXCEPT !.at = "write", !.conn = c]
    <3>1. c \in Server \X Nat /\ f = [Top(t) EXCEPT !.at = "write", !.conn = c] BY <1>3
    <3>4. stack' = WithTop(t, f) BY <2>1
    <3> HIDE DEF c, f
    <3>2. f \in Frame /\ f.at = "write" /\ f.kind = Top(t).kind
          /\ f.re_register = Top(t).re_register /\ f.conn = c
      BY <1>2, <3>1 DEF Frame
    <3>3. FrameSound(f) BY <1>2, <3>1, <3>2 DEF FrameSound, Waiting
    <3> QED BY <3>2, <3>3, <3>4 DEF Waiting
  <2>2. CASE Go(t, "refresh")
    <3> DEFINE f == [Top(t) EXCEPT !.at = "refresh"]
    <3>1. f \in Frame /\ f.at = "refresh" /\ f.kind = Top(t).kind
          /\ f.re_register = Top(t).re_register
      BY <1>2, FrameAt DEF Place
    <3>2. FrameSound(f) BY <1>2, <3>1 DEF FrameSound, Waiting
    <3>3. stack' = WithTop(t, f) BY <2>2 DEF Go
    <3> QED BY <3>1, <3>2, <3>3 DEF Waiting
  <2> QED BY <2>1, <2>2 DEF Connect
<1>5. StacksTyped' /\ CallsSound' /\ LockSound'
  BY <1>1, <1>4, CallGoesOn DEF quiet
<1>6. PoolTypeOK'
  <2>1. CASE UNCHANGED poolVars BY <2>1 DEF poolVars, PoolTypeOK, ClientInv, TypeOK
  <2>2. CASE ConnectFault BY <2>2, FaultTyped DEF ClientInv, TypeOK
  <2> QED BY <2>1, <2>2 DEF Connect
<1> QED BY <1>1, <1>5, <1>6 DEF ClientInv, TypeOK, StacksTyped, quiet

\* What the server answers to the call at the top, and what it becomes.
LEMMA ByWrite == ASSUME ClientInv, NEW t \in Thread, Write(t) PROVE ClientInv'
<1> DEFINE f == Top(t)
           s == f.conn[1]
           x == server[s]
<1>1. At(t, "write") /\ UNCHANGED <<published, crashes, faults, others, quiet, chatserver>>
  BY DEF Write
<1>2. Top(t) \in Frame /\ FrameSound(Top(t)) /\ Top(t).at = "write" BY <1>1, AtTop
<1>3. s \in Server BY <1>2 DEF FrameSound
<1>4. x \in Process BY <1>3 DEF ClientInv, TypeOK, PoolTypeOK
<1>5. f.id \in Nat /\ f.name \in Name /\ f.room \in Room \cup {NoRoom} BY <1>2 DEF Frame
<1>6. \E reply \in Reply, y \in Process :
         /\ stack' = WithTop(t, [f EXCEPT !.at = "read", !.reply = reply])
         /\ server' = [server EXCEPT ![s] = y]
  <2>1. CASE f.kind = "register"
    <3>1. RegisterReply(x, f.name) \in Reply /\ AfterRegister(x, f.name, "me") \in Process
      BY <1>4, <1>5, ServerFunctions DEF Owner
    <3> QED BY <2>1, <3>1 DEF Write
  <2>2. CASE f.kind # "register"
    <3>1. PICK type \in {"SUCC", "FAIL", "EMPTY"} :
            /\ stack' = WithTop(t, [f EXCEPT !.at = "read", !.reply = [type |-> type, id |-> f.id]])
            /\ server' = [server EXCEPT ![s] =
                 CASE f.kind = "quit"                    -> AfterQuit(x, f.id)
                   [] f.kind = "switch" /\ type = "SUCC" -> AfterSwitch(x, f.id, f.room)
                   [] OTHER                              -> x]
      BY <2>2 DEF Write
    <3>2. [type |-> type, id |-> f.id] \in Reply BY <1>5 DEF Reply
    <3>3. AfterQuit(x, f.id) \in Process /\ AfterSwitch(x, f.id, f.room) \in Process
      BY <1>4, <1>5, ServerFunctions
    <3>4. (CASE f.kind = "quit"                    -> AfterQuit(x, f.id)
             [] f.kind = "switch" /\ type = "SUCC" -> AfterSwitch(x, f.id, f.room)
             [] OTHER                              -> x) \in Process
      <4>1. CASE f.kind = "quit" BY <3>3, <4>1
      <4>2. CASE f.kind = "switch" /\ type = "SUCC" BY <3>3, <4>2
      <4>3. CASE f.kind # "quit" /\ ~(f.kind = "switch" /\ type = "SUCC") BY <1>4, <4>3
      <4> QED BY <4>1, <4>2, <4>3
    <3> QED BY <3>1, <3>2, <3>4
  <2> QED BY <2>1, <2>2
<1>7. PICK reply \in Reply, y \in Process :
         /\ stack' = WithTop(t, [f EXCEPT !.at = "read", !.reply = reply])
         /\ server' = [server EXCEPT ![s] = y]
  BY <1>6
<1> DEFINE g == [f EXCEPT !.at = "read", !.reply = reply]
<1>12. g = [Top(t) EXCEPT !.at = "read", !.reply = reply] OBVIOUS
<1> HIDE DEF g
<1>8. g \in Frame /\ g.at = "read" /\ g.kind = f.kind /\ g.re_register = f.re_register
  BY <1>2, <1>12 DEF Frame
<1>9. FrameSound(g) /\ g.at \notin Waiting BY <1>2, <1>8 DEF FrameSound, Waiting
<1>10. StacksTyped' /\ CallsSound' /\ LockSound'
  <2>1. stack' = WithTop(t, g) BY <1>7, <1>12
  <2> QED BY <1>1, <1>8, <1>9, <2>1, CallGoesOn DEF quiet
<1>11. PoolTypeOK' BY <1>1, <1>3, <1>7, ServerTyped DEF ClientInv, TypeOK
<1> QED BY <1>1, <1>10, <1>11 DEF ClientInv, TypeOK, StacksTyped, quiet

LEMMA ByWriteToTheDead == ASSUME ClientInv, NEW t \in Thread, WriteToTheDead(t) PROVE ClientInv'
<1>1. At(t, "write") /\ UNCHANGED <<poolVars, quiet, chatserver>> BY DEF WriteToTheDead
<1>2. Top(t) \in Frame /\ FrameSound(Top(t)) BY <1>1, AtTop
<1>3. \E f \in Frame : /\ FrameSound(f) /\ f.at \notin Waiting /\ f.at # "lock"
                       /\ f.kind = Top(t).kind /\ stack' = WithTop(t, f)
  <2>1. CASE stack' = WithTop(t, [Top(t) EXCEPT !.at = "refresh", !.conn = <<>>])
    <3> DEFINE f == [Top(t) EXCEPT !.at = "refresh", !.conn = <<>>]
    <3>4. f = [Top(t) EXCEPT !.at = "refresh", !.conn = <<>>] OBVIOUS
    <3> HIDE DEF f
    <3>1. f \in Frame /\ f.at = "refresh" /\ f.kind = Top(t).kind
          /\ f.re_register = Top(t).re_register
      BY <1>2, <3>4 DEF Frame
    <3>2. FrameSound(f) BY <1>2, <3>1 DEF FrameSound, Waiting
    <3> QED BY <2>1, <3>1, <3>2, <3>4 DEF Waiting
  <2>2. ASSUME NEW reply \in Unwritten(Top(t)),
               stack' = WithTop(t, [Top(t) EXCEPT !.at = "read", !.reply = reply])
        PROVE  \E f \in Frame : /\ FrameSound(f) /\ f.at \notin Waiting /\ f.at # "lock"
                                /\ f.kind = Top(t).kind /\ stack' = WithTop(t, f)
    <3> DEFINE f == [Top(t) EXCEPT !.at = "read", !.reply = reply]
    <3>1. reply \in Reply BY ClientAssumption DEF Unwritten, NoReply, Reply
    <3>4. f = [Top(t) EXCEPT !.at = "read", !.reply = reply] OBVIOUS
    <3> HIDE DEF f
    <3>2. f \in Frame /\ f.at = "read" /\ f.kind = Top(t).kind
          /\ f.re_register = Top(t).re_register
      BY <1>2, <3>1, <3>4 DEF Frame
    <3>3. FrameSound(f) BY <1>2, <3>2 DEF FrameSound, Waiting
    <3> QED BY <2>2, <3>2, <3>3, <3>4 DEF Waiting
  <2> QED BY <2>1, <2>2 DEF WriteToTheDead
<1>4. StacksTyped' /\ CallsSound' /\ LockSound' BY <1>1, <1>3, CallGoesOn DEF quiet
<1>5. PoolTypeOK' BY <1>1 DEF poolVars, PoolTypeOK, ClientInv, TypeOK
<1> QED BY <1>1, <1>4, <1>5 DEF ClientInv, TypeOK, StacksTyped, quiet

\* One unlock for one call: what the thread holds is what is left.
LEMMA ByReturn == ASSUME ClientInv, NEW t \in Thread, Return(t) PROVE ClientInv'
<1> DEFINE s == SubSeq(stack[t], 1, Len(stack[t]) - 1)
           a == [kind |-> Top(t).kind, room |-> Top(t).room, reply |-> Top(t).reply]
<1>1. /\ At(t, "read") /\ lock' = Unlocked
      /\ UNCHANGED <<poolVars, main, hb, cancelled, chatserver, member_name, member_id, curr_room, lost>>
  BY DEF Return
<1>2. /\ stack[t] \in Seq(Frame) /\ stack[t] # <<>> /\ Top(t) = stack[t][Len(stack[t])]
      /\ Top(t) \in Frame /\ Top(t).at = "read" /\ ThreadSound(stack[t], returned[t])
      /\ ~Idle(stack[t], returned[t])
      /\ t = "hb" => hb = "beating"
      /\ Held(stack[t]) = Len(stack[t]) /\ lock.owner = t /\ lock.depth = Len(stack[t])
  BY <1>1, AtTop
<1>3. a \in Answered /\ a.kind = Top(t).kind BY <1>2 DEF Frame, Answered
<1>4. /\ stack' = [stack EXCEPT ![t] = s] /\ returned' = [returned EXCEPT ![t] = <<a>>]
  BY DEF Return, ClientInv, TypeOK
<1> HIDE DEF a
<1>5. /\ s \in Seq(Frame) /\ ThreadSound(s, <<a>>)
      /\ Held(s) = Len(stack[t]) - 1 /\ Len(stack[t]) \in Nat /\ Len(stack[t]) # 0
      /\ ~Idle(s, <<a>>) /\ Purpose(s, <<a>>) = Purpose(stack[t], returned[t])
  BY <1>2, <1>3, Popped
<1> HIDE DEF s
<1>6. Moves(t, s, <<a>>) BY <1>1, <1>4 DEF Moves
<1>7. <<a>> \in Seq(Answered) BY <1>3
<1>8. SameRequest(t, s, <<a>>) BY <1>5, <1>7 DEF SameRequest
<1>9. StacksTyped' /\ CallsSound' BY <1>1, <1>2, <1>6, <1>8, CallsMove DEF StacksTyped
<1>10. lock' = [owner |-> IF lock.depth = 1 THEN NoThread ELSE t, depth |-> lock.depth - 1]
  BY <1>1, <1>2 DEF Unlocked
<1>11. lock.depth \in Nat /\ lock.depth # 0 BY <1>2, <1>5
<1>12. Held(stack'[t]) = IF lock'.owner = t THEN lock'.depth ELSE 0
  <2>1. stack'[t] = s BY <1>4 DEF ClientInv, TypeOK
  <2>2. Held(s) = lock.depth - 1 BY <1>2, <1>5
  <2>3. NoThread # t BY ClientAssumption DEF Thread
  <2> QED BY <1>10, <1>11, <2>1, <2>2, <2>3
<1>13. \A u \in Thread \ {t} : (u = "hb" => hb # "gone") => Held(stack'[u]) = 0
  <2> SUFFICES ASSUME NEW u \in Thread \ {t}, u = "hb" => hb # "gone" PROVE Held(stack'[u]) = 0
    OBVIOUS
  <2>1. stack'[u] = stack[u] BY <1>4 DEF ClientInv, TypeOK
  <2>2. Held(stack[u]) = IF lock.owner = u THEN lock.depth ELSE 0 BY DEF ClientInv, LockSound
  <2> QED BY <1>2, <2>1, <2>2
<1>14. lock'.owner \in {NoThread, t} BY <1>10
<1>15. LockSound'
  <2> SUFFICES ASSUME NEW u \in Thread, u = "hb" => hb # "gone"
               PROVE  Held(stack'[u]) = IF lock'.owner = u THEN lock'.depth ELSE 0
    BY <1>1 DEF LockSound
  <2>1. CASE u = t BY <1>12, <2>1
  <2>2. CASE u # t
    <3>1. lock'.owner # u BY <1>14, <2>2, ClientAssumption DEF Thread
    <3> QED BY <1>13, <2>2, <3>1
  <2> QED BY <2>1, <2>2
<1>16. /\ lock' \in [owner : Thread \cup {NoThread}, depth : Nat]
       /\ (lock'.owner = NoThread) <=> (lock'.depth = 0)
  <2>1. lock.depth - 1 \in Nat /\ (lock.depth - 1 = 0 <=> lock.depth = 1) BY <1>11
  <2>2. NoThread # t BY ClientAssumption DEF Thread
  <2> QED BY <1>10, <2>1, <2>2
<1>17. PoolTypeOK' BY <1>1 DEF poolVars, PoolTypeOK, ClientInv, TypeOK
<1> QED BY <1>1, <1>9, <1>15, <1>16, <1>17 DEF ClientInv, TypeOK, StacksTyped

LEMMA ByRefresh == ASSUME ClientInv, NEW t \in Thread, Refresh(t) PROVE ClientInv'
<1>1. At(t, "refresh") /\ chatserver' = published /\ UNCHANGED <<poolVars, quiet>> BY DEF Refresh
<1>2. /\ Top(t) \in Frame /\ FrameSound(Top(t)) /\ stack[t] # <<>>
      /\ returned = [returned EXCEPT ![t] = <<>>]
  BY <1>1, AtTop
<1>3. StacksTyped' /\ CallsSound' /\ LockSound'
  <2>1. CASE Top(t).re_register
    <3> DEFINE f == [Top(t) EXCEPT !.at = "rereg"]
               c == RegisterCall
    <3>1. f \in Frame /\ f.at = "rereg" /\ f.kind = Top(t).kind
          /\ f.re_register = Top(t).re_register
      BY <1>2, FrameAt DEF Place
    <3>2. member_name \in Nat BY ClientAssumption DEF ClientInv, TypeOK
    <3>3. c \in Frame /\ FrameSound(c) /\ c.at = "lock" /\ c.kind = "register"
      BY <3>2, RegisterCallTyped DEF RegisterCall
    <3>4. stack' = [stack EXCEPT ![t] = Append(Replaced(stack[t], f), c)]
      <4>1. WithTop(t, f)[t] = Replaced(stack[t], f)
        BY TopReplaced DEF ClientInv, TypeOK
      <4> QED BY <2>1, <4>1 DEF Refresh
    <3> HIDE DEF f, c
    <3>5. FrameSound(f) /\ f.at \in Waiting BY <1>2, <2>1, <3>1 DEF FrameSound, Waiting
    <3>6. c.kind = Callee(f) BY <3>1, <3>3 DEF Callee
    <3> QED BY <1>1, <1>2, <3>1, <3>3, <3>4, <3>5, <3>6, CallIsMade DEF quiet
  <2>2. CASE ~Top(t).re_register
    <3> DEFINE f == [Top(t) EXCEPT !.at = "connect"]
    <3>1. f \in Frame /\ f.at = "connect" /\ f.kind = Top(t).kind
          /\ f.re_register = Top(t).re_register
      BY <1>2, FrameAt DEF Place
    <3>2. stack' = WithTop(t, f) BY <2>2 DEF Refresh, Go
    <3> HIDE DEF f
    <3>3. FrameSound(f) /\ f.at \notin Waiting BY <1>2, <3>1 DEF FrameSound, Waiting
    <3> QED BY <1>1, <3>1, <3>2, <3>3, CallGoesOn DEF quiet
  <2> QED BY <2>1, <2>2
<1>4. PoolTypeOK' BY <1>1 DEF poolVars, PoolTypeOK, ClientInv, TypeOK
<1>5. chatserver' \in Server BY <1>1 DEF ClientInv, TypeOK, PoolTypeOK
<1> QED BY <1>1, <1>3, <1>4, <1>5 DEF ClientInv, TypeOK, StacksTyped, quiet

\* The thread asks for a registration again.
LEMMA ByReRegisterAgain == ASSUME ClientInv, NEW t \in Thread, ReRegisterAgain(t) PROVE ClientInv'
<1> DEFINE f == Top(t)
           c == [RegisterCall EXCEPT !.name = member_name']
<1>1. /\ BackAt(t, "rereg") /\ returned' = [returned EXCEPT ![t] = <<>>]
      /\ UNCHANGED <<poolVars, lock, main, hb, cancelled, chatserver, member_id, curr_room, lost>>
  BY DEF ReRegisterAgain
<1>2. /\ f \in Frame /\ FrameSound(f) /\ f.at = "rereg" /\ stack[t] # <<>>
      /\ stack[t] \in Seq(Frame) /\ f = stack[t][Len(stack[t])]
  BY <1>1, BackTop DEF Waiting
<1>3. member_name' \in 0..MaxName
  <2>1. member_name \in 0..MaxName /\ MaxName \in Nat
    BY ClientAssumption DEF ClientInv, TypeOK
  <2>2. CASE member_name < MaxName /\ member_name' = NextName BY <2>1, <2>2 DEF NextName
  <2>3. CASE UNCHANGED member_name BY <2>1, <2>3
  <2> QED BY <2>2, <2>3 DEF ReRegisterAgain
<1>4. c \in Frame /\ FrameSound(c) /\ c.at = "lock" /\ c.kind = "register"
  <2>1. c = [Call("register", 0, NoRoom, FALSE) EXCEPT !.name = member_name']
    BY DEF RegisterCall, Call
  <2>2. member_name' \in Nat BY <1>3, ClientAssumption
  <2> HIDE DEF c
  <2> QED BY <2>1, <2>2, RegisterCallTyped
<1>5. stack' = [stack EXCEPT ![t] = Append(Replaced(stack[t], f), c)]
  <2>1. Len(stack[t]) \in DOMAIN stack[t] BY <1>1, BackTop, LenProperties DEF Waiting
  <2>2. Replaced(stack[t], f) = stack[t]
    BY <1>2, <2>1, LenProperties DEF Replaced
  <2>3. stack' = [stack EXCEPT ![t] = Append(stack[t], c)]
    BY DEF ReRegisterAgain, ClientInv, TypeOK
  <2> QED BY <2>2, <2>3
<1> HIDE DEF f, c
<1>6. StacksTyped' /\ CallsSound' /\ LockSound'
  <2>1. f.at \in Waiting /\ c.kind = Callee(f) BY <1>2, <1>4 DEF Waiting, Callee
  <2>2. \E place \in Waiting : BackAt(t, place) BY <1>1 DEF Waiting
  <2>3. f.kind = Top(t).kind BY DEF f
  <2> QED BY <1>1, <1>2, <1>4, <1>5, <2>1, <2>2, <2>3, CallIsMade
<1>7. PoolTypeOK' BY <1>1 DEF poolVars, PoolTypeOK, ClientInv, TypeOK
<1> QED BY <1>1, <1>3, <1>6, <1>7 DEF ClientInv, TypeOK, StacksTyped

LEMMA ByReRegistered == ASSUME ClientInv, NEW t \in Thread, ReRegistered(t) PROVE ClientInv'
<1> DEFINE f == [Top(t) EXCEPT !.at = "rejoin"]
           c == [Call("switch", 0, curr_room, TRUE) EXCEPT !.id = member_id']
<1>1. /\ BackAt(t, "rereg") /\ returned' = [returned EXCEPT ![t] = <<>>]
      /\ member_id' = IdAfterRegister(Result(t))
      /\ UNCHANGED <<poolVars, lock, main, hb, cancelled, chatserver, member_name, curr_room, lost>>
  BY DEF ReRegistered
<1>2. /\ Top(t) \in Frame /\ FrameSound(Top(t)) /\ Top(t).at = "rereg" /\ stack[t] # <<>>
      /\ Result(t) \in Answered
  BY <1>1, BackTop DEF Waiting
<1>3. member_id' \in Nat
  BY <1>1, <1>2 DEF IdAfterRegister, Answered, Reply, ClientInv, TypeOK
<1>4. f \in Frame /\ f.at = "rejoin" /\ f.kind = Top(t).kind /\ f.re_register = Top(t).re_register
  BY <1>2, FrameAt DEF Place
<1>5. c \in Frame /\ FrameSound(c) /\ c.at = "lock" /\ c.kind = "switch"
  <2>1. curr_room \in Room \cup {NoRoom} BY DEF ClientInv, TypeOK
  <2> QED BY <1>3, <2>1, RejoinCallTyped
<1>6. stack' = [stack EXCEPT ![t] = Append(Replaced(stack[t], f), c)]
  <2>1. WithTop(t, f)[t] = Replaced(stack[t], f) BY TopReplaced DEF ClientInv, TypeOK
  <2> QED BY <2>1 DEF ReRegistered
<1> HIDE DEF f, c
<1>7. StacksTyped' /\ CallsSound' /\ LockSound'
  <2>1. FrameSound(f) /\ f.at \in Waiting /\ c.kind = Callee(f)
    BY <1>2, <1>4, <1>5 DEF FrameSound, Waiting, Callee
  <2>2. \E place \in Waiting : BackAt(t, place) BY <1>1 DEF Waiting
  <2> QED BY <1>1, <1>4, <1>5, <1>6, <2>1, <2>2, CallIsMade
<1>8. PoolTypeOK' BY <1>1 DEF poolVars, PoolTypeOK, ClientInv, TypeOK
<1> QED BY <1>1, <1>3, <1>7, <1>8 DEF ClientInv, TypeOK, StacksTyped

LEMMA ByRejoined == ASSUME ClientInv, NEW t \in Thread, Rejoined(t) PROVE ClientInv'
<1> DEFINE f == [Top(t) EXCEPT !.at = "connect"]
           s == Replaced(stack[t], f)
<1>1. /\ BackAt(t, "rejoin") /\ returned' = [returned EXCEPT ![t] = <<>>] /\ curr_room' = NoRoom
      /\ UNCHANGED <<poolVars, lock, main, hb, cancelled, chatserver, member_name, member_id, lost>>
  BY DEF Rejoined
<1>2. /\ Top(t) \in Frame /\ FrameSound(Top(t)) /\ stack[t] # <<>> /\ stack[t] \in Seq(Frame)
      /\ Top(t) = stack[t][Len(stack[t])] /\ ThreadSound(stack[t], returned[t])
      /\ Held(stack[t]) = Len(stack[t]) /\ ~Idle(stack[t], returned[t])
  BY <1>1, BackTop DEF Waiting
<1>3. f \in Frame /\ f.at = "connect" /\ f.kind = Top(t).kind /\ f.re_register = Top(t).re_register
  BY <1>2, FrameAt DEF Place
<1>4. stack' = [stack EXCEPT ![t] = s] BY TopReplaced DEF Rejoined, Go
<1> HIDE DEF f
<1>5. FrameSound(f) /\ f.at \notin Waiting BY <1>2, <1>3 DEF FrameSound, Waiting
<1>6. s \in Seq(Frame) /\ ThreadSound(s, <<>>) /\ Held(s) = Len(stack[t])
      /\ ~Idle(s, <<>>) /\ Purpose(s, <<>>) = Purpose(stack[t], returned[t])
  BY <1>2, <1>3, <1>5, GoneOn
<1> HIDE DEF s
<1>7. Moves(t, s, <<>>) BY <1>1, <1>4 DEF Moves
<1>8. SameRequest(t, s, <<>>) BY <1>6, EmptySeq DEF SameRequest
<1>9. StacksTyped' /\ CallsSound' BY <1>1, <1>2, <1>7, <1>8, CallsMove DEF StacksTyped
<1>10. LockSound' BY <1>1, <1>2, <1>6, <1>7, LockKept
<1>11. PoolTypeOK' BY <1>1 DEF poolVars, PoolTypeOK, ClientInv, TypeOK
<1> QED BY <1>1, <1>9, <1>10, <1>11 DEF ClientInv, TypeOK, StacksTyped

LEMMA ByRefreshCrash == ASSUME ClientInv, NEW t \in Thread, RefreshCrash(t) PROVE ClientInv'
<1>1. /\ main' = "dead"
      /\ UNCHANGED <<poolVars, stack, returned, lock, hb, cancelled, chatserver,
                     member_name, member_id, curr_room, lost>>
  BY DEF RefreshCrash
<1>2. PoolTypeOK' BY <1>1 DEF poolVars, PoolTypeOK, ClientInv, TypeOK
<1>3. TypeOK' BY <1>1, <1>2 DEF ClientInv, TypeOK, MainPC
<1>4. CallsSound' BY <1>1 DEF ClientInv, CallsSound
<1>5. LockSound' BY <1>1 DEF ClientInv, LockSound
<1> QED BY <1>3, <1>4, <1>5 DEF ClientInv

-----------------------------------------------------------------------------
(* The steps of the threads outside send_control_msg. *)

LEMMA FreshCall ==
  ASSUME NEW c \in Frame, FrameSound(c), c.at = "lock"
  PROVE  /\ <<c>> \in Seq(Frame) /\ ThreadSound(<<c>>, <<>>) /\ Held(<<c>>) = 0
         /\ ~Idle(<<c>>, <<>>) /\ Purpose(<<c>>, <<>>) = c.kind
<1>1. <<c>> \in Seq(Frame) /\ Len(<<c>>) = 1 /\ <<c>>[1] = c /\ <<c>> # <<>> OBVIOUS
<1>2. c.at \notin Waiting BY DEF Waiting
<1> QED BY <1>1, <1>2 DEF ThreadSound, Held, Idle, Purpose

LEMMA Nothing ==
  /\ ThreadSound(<<>>, <<>>) /\ Held(<<>>) = 0 /\ Idle(<<>>, <<>>)
  /\ <<>> \in Seq(Frame) /\ <<>> \in Seq(Answered)
<1>1. Len(<<>>) = 0 /\ <<>> \in Seq(Frame) /\ <<>> \in Seq(Answered) BY EmptySeq
<1> QED BY <1>1 DEF ThreadSound, Held, Idle

\* A thread that is idle, or whose call has returned, takes s and ret.
LEMMA ThreadTakes ==
  ASSUME ClientInv, NEW t \in Thread, stack[t] = <<>>,
         NEW s \in Seq(Frame), NEW ret \in Seq(Answered), ThreadSound(s, ret), Held(s) = 0,
         stack' = [stack EXCEPT ![t] = s], returned' = [returned EXCEPT ![t] = ret],
         lock' = lock, hb = "gone" => hb' = "gone"
  PROVE  /\ StacksTyped' /\ \A u \in Thread : ThreadSound(stack'[u], returned'[u])
         /\ stack'[t] = s /\ returned'[t] = ret
         /\ \A u \in Thread \ {t} : stack'[u] = stack[u] /\ returned'[u] = returned[u]
         /\ LockSound'
<1>1. StacksTyped BY DEF StacksTyped, ClientInv, TypeOK
<1>2. StacksTyped' BY <1>1 DEF StacksTyped
<1>3. /\ stack'[t] = s /\ returned'[t] = ret
      /\ \A u \in Thread \ {t} : stack'[u] = stack[u] /\ returned'[u] = returned[u]
  BY <1>1 DEF StacksTyped
<1>4. \A u \in Thread : ThreadSound(stack'[u], returned'[u])
  BY <1>3 DEF ClientInv, CallsSound
<1>5. \A u \in Thread : Held(stack'[u]) = Held(stack[u]) BY <1>3, Nothing
<1>6. LockSound' BY <1>5 DEF ClientInv, LockSound
<1> QED BY <1>2, <1>3, <1>4, <1>6

LEMMA ByStartUp == ASSUME ClientInv, StartUp PROVE ClientInv'
<1> DEFINE c == RegisterCall
<1>1. /\ main = "starting" /\ stack["main"] = <<>> /\ returned["main"] = <<>>
      /\ stack' = [stack EXCEPT !["main"] = <<c>>]
      /\ UNCHANGED <<poolVars, quiet, chatserver>>
  BY DEF StartUp
<1>2. c \in Frame /\ FrameSound(c) /\ c.at = "lock" /\ c.kind = "register"
  <2>1. member_name \in Nat BY ClientAssumption DEF ClientInv, TypeOK
  <2> QED BY <2>1, RegisterCallTyped DEF RegisterCall
<1> HIDE DEF c
<1>3. "main" \in Thread BY DEF Thread
<1>4. returned' = [returned EXCEPT !["main"] = <<>>] BY <1>1 DEF quiet, ClientInv, TypeOK
<1>5. /\ <<c>> \in Seq(Frame) /\ ThreadSound(<<c>>, <<>>) /\ Held(<<c>>) = 0
      /\ Asks(<<c>>, <<>>, {"register"})
  BY <1>2, FreshCall DEF Asks
<1>6. /\ StacksTyped' /\ \A u \in Thread : ThreadSound(stack'[u], returned'[u])
      /\ stack'["main"] = <<c>> /\ returned'["main"] = <<>>
      /\ stack'["hb"] = stack["hb"] /\ returned'["hb"] = returned["hb"] /\ LockSound'
  BY <1>1, <1>3, <1>4, <1>5, ThreadTakes, Nothing DEF quiet, Thread
<1>7. CallsSound' BY <1>1, <1>5, <1>6 DEF ClientInv, CallsSound, quiet
<1>8. PoolTypeOK' BY <1>1 DEF poolVars, PoolTypeOK, ClientInv, TypeOK
<1> QED BY <1>1, <1>6, <1>7, <1>8 DEF ClientInv, TypeOK, StacksTyped, quiet

\* The user's thread uses the answer to its own request.
LEMMA ByMainAnswered ==
  ASSUME ClientInv, Started \/ UserAnswered \/ QuitDone
  PROVE  ClientInv'
<1>1. /\ stack["main"] = <<>> /\ returned["main"] # <<>>
      /\ returned' = [returned EXCEPT !["main"] = <<>>]
      /\ UNCHANGED <<poolVars, stack, lock, cancelled, chatserver, member_name, lost>>
  BY DEF Started, UserAnswered, QuitDone, BackInThread
<1>2. "main" \in Thread BY DEF Thread
<1>3. Result("main") \in Answered
  <2>1. returned["main"] \in Seq(Answered) BY <1>2 DEF ClientInv, TypeOK
  <2>2. Len(returned["main"]) \in Nat /\ Len(returned["main"]) # 0
    BY <1>1, <2>1, EmptySeq, LenProperties
  <2>3. 1 \in 1..Len(returned["main"]) BY <2>2
  <2> QED BY <2>1, <2>3, ElementOfSeq DEF Result
<1>4. \/ main = "starting" /\ main' \in {"exited", "prompt"} /\ hb' \in {hb, "sleeping"}
         /\ member_id' \in Nat /\ curr_room' = curr_room
      \/ main \in {"requesting", "quitting"} /\ main' \in {"prompt", "exited"} /\ hb' = hb
         /\ member_id' = member_id /\ curr_room' \in Room \cup {NoRoom}
  BY <1>3 DEF Started, UserAnswered, QuitDone, IdAfterRegister, Answered, Reply, ClientInv, TypeOK
<1>5. hb = "gone" => hb' = "gone" BY <1>4 DEF ClientInv, CallsSound
<1>6. stack' = [stack EXCEPT !["main"] = <<>>] BY <1>1 DEF ClientInv, TypeOK
<1>7. /\ StacksTyped' /\ \A u \in Thread : ThreadSound(stack'[u], returned'[u])
      /\ stack'["main"] = <<>> /\ returned'["main"] = <<>>
      /\ stack'["hb"] = stack["hb"] /\ returned'["hb"] = returned["hb"] /\ LockSound'
  BY <1>1, <1>2, <1>5, <1>6, ThreadTakes, Nothing DEF Thread
<1>8. CallsSound' BY <1>4, <1>7, Nothing DEF ClientInv, CallsSound
<1>9. PoolTypeOK' BY <1>1 DEF poolVars, PoolTypeOK, ClientInv, TypeOK
<1>10. main' \in MainPC /\ hb' \in HbPC /\ member_id' \in Nat /\ curr_room' \in Room \cup {NoRoom}
  BY <1>4 DEF ClientInv, TypeOK, MainPC, HbPC
<1> QED BY <1>1, <1>7, <1>8, <1>9, <1>10 DEF ClientInv, TypeOK, StacksTyped

\* The user's thread makes a request.
LEMMA ByMainRequests ==
  ASSUME ClientInv,
         QuitJoined \/ \E kind \in {"switch", "list"}, r \in Room \cup {NoRoom} : UserRequest(kind, r)
  PROVE  ClientInv'
<1>1. PICK kind \in {"switch", "list", "quit"}, r \in Room \cup {NoRoom} :
        /\ stack' = [stack EXCEPT !["main"] = <<Call(kind, member_id, r, TRUE)>>]
        /\ main \in {"prompt", "joining"}
        /\ \/ kind \in {"switch", "list"} /\ main' = "requesting"
           \/ kind = "quit" /\ main' = "quitting" /\ hb = "gone"
        /\ UNCHANGED <<poolVars, returned, lock, hb, cancelled, chatserver,
                       member_name, member_id, curr_room, lost>>
  BY DEF QuitJoined, UserRequest
<1> DEFINE c == Call(kind, member_id, r, TRUE)
<1>2. c \in Frame /\ FrameSound(c) /\ c.at = "lock" /\ c.kind = kind
  <2>1. member_id \in Nat /\ kind \in Kind /\ kind # "register" BY DEF ClientInv, TypeOK, Kind
  <2> QED BY <2>1 DEF Call, Frame, FrameSound, Waiting, NoReply, Reply, Name
<1> HIDE DEF c
<1>3. "main" \in Thread BY DEF Thread
<1>4. stack["main"] = <<>> /\ returned["main"] = <<>>
  BY <1>1 DEF ClientInv, CallsSound, Idle
<1>5. returned' = [returned EXCEPT !["main"] = <<>>] BY <1>1, <1>4 DEF ClientInv, TypeOK
<1>6. /\ <<c>> \in Seq(Frame) /\ ThreadSound(<<c>>, <<>>) /\ Held(<<c>>) = 0
      /\ ~Idle(<<c>>, <<>>) /\ Purpose(<<c>>, <<>>) = kind
  BY <1>2, FreshCall
<1>7. /\ StacksTyped' /\ \A u \in Thread : ThreadSound(stack'[u], returned'[u])
      /\ stack'["main"] = <<c>> /\ returned'["main"] = <<>>
      /\ stack'["hb"] = stack["hb"] /\ returned'["hb"] = returned["hb"] /\ LockSound'
  <2>1. stack' = [stack EXCEPT !["main"] = <<c>>] BY <1>1 DEF c
  <2> QED BY <1>1, <1>3, <1>4, <1>5, <1>6, <2>1, ThreadTakes, Nothing DEF Thread
<1>8. CallsSound' BY <1>1, <1>6, <1>7 DEF ClientInv, CallsSound, Asks
<1>9. PoolTypeOK' BY <1>1 DEF poolVars, PoolTypeOK, ClientInv, TypeOK
<1>10. main' \in MainPC BY <1>1 DEF MainPC
<1> QED BY <1>1, <1>7, <1>8, <1>9, <1>10 DEF ClientInv, TypeOK, StacksTyped

LEMMA ByQuitCancel == ASSUME ClientInv, QuitCancel PROVE ClientInv'
<1>1. /\ main = "prompt" /\ main' = "joining" /\ cancelled' = TRUE
      /\ UNCHANGED <<poolVars, stack, returned, lock, hb, chatserver,
                     member_name, member_id, curr_room, lost>>
  BY DEF QuitCancel
<1>2. PoolTypeOK' BY <1>1 DEF poolVars, PoolTypeOK, ClientInv, TypeOK
<1>3. TypeOK' BY <1>1, <1>2 DEF ClientInv, TypeOK, MainPC
<1>4. CallsSound' BY <1>1 DEF ClientInv, CallsSound
<1>5. LockSound' BY <1>1 DEF ClientInv, LockSound
<1> QED BY <1>3, <1>4, <1>5 DEF ClientInv

\* The heartbeat thread begins or ends a heartbeat.
LEMMA ByBeat == ASSUME ClientInv, Beat \/ Beaten PROVE ClientInv'
<1>0. /\ UNCHANGED <<poolVars, lock, main, cancelled, chatserver,
                     member_name, member_id, curr_room, lost>>
      /\ hb \in {"sleeping", "beating"} /\ main \notin {"starting", "quitting"}
  BY DEF Beat, Beaten, ClientInv, CallsSound
<1>1. "hb" \in Thread BY DEF Thread
<1> DEFINE c == HeartbeatCall
<1>2. c \in Frame /\ FrameSound(c) /\ c.at = "lock" /\ c.kind = "keep_alive"
  <2>1. member_id \in Nat BY DEF ClientInv, TypeOK
  <2> QED BY <2>1 DEF HeartbeatCall, Call, Frame, FrameSound, Waiting, NoReply, Reply, Name, Kind
<1> HIDE DEF c
<1>3. \E s \in {<<>>, <<c>>} :
        /\ stack["hb"] = <<>>
        /\ stack' = [stack EXCEPT !["hb"] = s] /\ returned' = [returned EXCEPT !["hb"] = <<>>]
        /\ hb' = IF s = <<>> THEN "sleeping" ELSE "beating"
  <2>1. CASE Beat
    <3>1. stack["hb"] = <<>> /\ returned["hb"] = <<>> /\ hb' = "beating"
      BY <2>1 DEF Beat, ClientInv, CallsSound, Idle
    <3>2. stack' = [stack EXCEPT !["hb"] = <<c>>] /\ returned' = [returned EXCEPT !["hb"] = <<>>]
      BY <2>1, <3>1 DEF Beat, ClientInv, TypeOK, c
    <3> QED BY <3>1, <3>2
  <2>2. CASE Beaten BY <2>2 DEF Beaten, BackInThread, ClientInv, TypeOK
  <2> QED BY <2>1, <2>2
<1>4. PICK s \in {<<>>, <<c>>} :
        /\ stack["hb"] = <<>>
        /\ stack' = [stack EXCEPT !["hb"] = s] /\ returned' = [returned EXCEPT !["hb"] = <<>>]
        /\ hb' = IF s = <<>> THEN "sleeping" ELSE "beating"
  BY <1>3
<1>5. /\ s \in Seq(Frame) /\ ThreadSound(s, <<>>) /\ Held(s) = 0
      /\ IF s = <<>> THEN Idle(s, <<>>) ELSE Asks(s, <<>>, {"keep_alive"})
  <2>1. /\ <<c>> \in Seq(Frame) /\ ThreadSound(<<c>>, <<>>) /\ Held(<<c>>) = 0
        /\ Asks(<<c>>, <<>>, {"keep_alive"}) /\ <<c>> # <<>>
    BY <1>2, FreshCall DEF Asks
  <2>2. CASE s = <<>> BY <2>2, Nothing
  <2>3. CASE s = <<c>> BY <2>1, <2>3
  <2> QED BY <2>2, <2>3
<1>6. /\ StacksTyped' /\ \A u \in Thread : ThreadSound(stack'[u], returned'[u])
      /\ stack'["hb"] = s /\ returned'["hb"] = <<>>
      /\ stack'["main"] = stack["main"] /\ returned'["main"] = returned["main"] /\ LockSound'
  BY <1>0, <1>1, <1>4, <1>5, ThreadTakes, Nothing DEF Thread
<1>7. CallsSound' BY <1>0, <1>4, <1>5, <1>6 DEF ClientInv, CallsSound
<1>8. PoolTypeOK' BY <1>0 DEF poolVars, PoolTypeOK, ClientInv, TypeOK
<1>9. hb' \in HbPC BY <1>4 DEF HbPC
<1> QED BY <1>0, <1>6, <1>7, <1>8, <1>9 DEF ClientInv, TypeOK, StacksTyped

\* It is cancelled; the mutex stays as it is.
LEMMA ByHbGone == ASSUME ClientInv, HbGone PROVE ClientInv'
<1>1. /\ hb' = "gone"
      /\ stack' = [stack EXCEPT !["hb"] = <<>>] /\ returned' = [returned EXCEPT !["hb"] = <<>>]
      /\ UNCHANGED <<poolVars, lock, main, cancelled, chatserver,
                     member_name, member_id, curr_room, lost>>
  BY DEF HbGone
<1>2. hb # "off"
  BY Nothing DEF HbGone, At, BackAt, ClientInv, CallsSound, Idle
<1>3. main # "starting" BY <1>2 DEF ClientInv, CallsSound
<1>4. StacksTyped' BY <1>1, Nothing DEF StacksTyped, ClientInv, TypeOK
<1>5. /\ stack'["hb"] = <<>> /\ returned'["hb"] = <<>>
      /\ stack'["main"] = stack["main"] /\ returned'["main"] = returned["main"]
  BY <1>1 DEF ClientInv, TypeOK, Thread
<1>6. \A u \in Thread : ThreadSound(stack'[u], returned'[u])
  BY <1>5, Nothing DEF ClientInv, CallsSound, Thread
<1>7. CallsSound' BY <1>1, <1>3, <1>5, <1>6, Nothing DEF ClientInv, CallsSound
<1>8. LockSound' BY <1>1, <1>5 DEF ClientInv, LockSound, Thread
<1>9. PoolTypeOK' BY <1>1 DEF poolVars, PoolTypeOK, ClientInv, TypeOK
<1> QED BY <1>1, <1>4, <1>7, <1>8, <1>9 DEF ClientInv, TypeOK, StacksTyped, HbPC

-----------------------------------------------------------------------------
(* The world, and the theorems. *)

LEMMA ByWorld ==
  ASSUME ClientInv, (\E s \in Server : ServerCrash(s)) \/ ServerStart \/ OtherUser
  PROVE  ClientInv'
<1>1. UNCHANGED clientVars BY DEF ServerCrash, ServerStart, OtherUser
<1>2. PoolTypeOK'
  <2>1. ASSUME NEW s \in Server, ServerCrash(s) PROVE PoolTypeOK'
    BY <2>1, CrashTyped DEF ServerCrash, ClientInv, TypeOK
  <2>2. CASE ServerStart BY <2>2, RestartTyped DEF ServerStart, ClientInv, TypeOK
  <2>3. CASE OtherUser BY <2>3, OthersTyped DEF OtherUser, ClientInv, TypeOK
  <2> QED BY <2>1, <2>2, <2>3
<1>3. lost' \in Room \cup {NoRoom}
  <2>1. lost \in Room \cup {NoRoom} BY DEF ClientInv, TypeOK
  <2>2. ASSUME NEW s \in Server, ServerCrash(s) PROVE lost' \in Room \cup {NoRoom}
    <3>1. \A e \in Mine(s) : e.room \in Room \cup {NoRoom}
      BY DEF Mine, ClientInv, TypeOK, PoolTypeOK, Process, Session
    <3>2. CASE \E e \in Mine(s) : e.room # NoRoom
      <4>1. \E r \in Room : \E e \in Mine(s) : e.room = r BY <3>1, <3>2
      <4>2. (CHOOSE r \in Room : \E e \in Mine(s) : e.room = r) \in Room BY <4>1
      <4> QED BY <2>1, <2>2, <3>2, <4>2 DEF ServerCrash
    <3>3. CASE ~\E e \in Mine(s) : e.room # NoRoom BY <2>1, <2>2, <3>3 DEF ServerCrash
    <3> QED BY <3>2, <3>3
  <2> QED BY <2>1, <2>2 DEF ServerStart, OtherUser
<1>4. TypeOK' BY <1>1, <1>2, <1>3 DEF clientVars, ClientInv, TypeOK
<1>5. CallsSound' BY <1>1 DEF clientVars, ClientInv, CallsSound
<1>6. LockSound' BY <1>1 DEF clientVars, ClientInv, LockSound
<1> QED BY <1>4, <1>5, <1>6 DEF ClientInv

LEMMA InitClient == Init => ClientInv
<1> SUFFICES ASSUME Init PROVE ClientInv OBVIOUS
<1>1. PoolTypeOK
  <2>1. /\ server = [s \in Server |-> [up |-> s = 1, run |-> IF s = 1 THEN 1 ELSE 0,
                                       draws |-> 0, sessions |-> {}]]
        /\ published = 1 /\ crashes = 0 /\ faults = 0 /\ others = 0
    BY DEF Init, PoolInit
  <2>2. server \in [Server -> Process] BY <2>1 DEF Process
  <2>3. 1 \in Server BY PoolAssumption DEF Server
  <2> QED BY <2>1, <2>2, <2>3, PoolAssumption DEF PoolTypeOK
<1>2. /\ stack = [t \in Thread |-> <<>>] /\ returned = [t \in Thread |-> <<>>]
      /\ lock = [owner |-> NoThread, depth |-> 0] /\ main = "starting" /\ hb = "off"
      /\ cancelled = FALSE /\ chatserver = published
      /\ member_name = 0 /\ member_id \in Nat /\ curr_room \in Room \cup {NoRoom} /\ lost = NoRoom
  BY ClientAssumption DEF Init
<1>3. TypeOK
  <2>1. StacksTyped BY <1>2, Nothing DEF StacksTyped
  <2>2. /\ lock \in [owner : Thread \cup {NoThread}, depth : Nat]
        /\ (lock.owner = NoThread) <=> (lock.depth = 0)
    BY <1>2
  <2>3. chatserver \in Server BY <1>1, <1>2 DEF PoolTypeOK
  <2>4. /\ main \in MainPC /\ hb \in HbPC /\ cancelled \in BOOLEAN
        /\ member_name \in 0..MaxName /\ member_id \in Nat
        /\ curr_room \in Room \cup {NoRoom} /\ lost \in Room \cup {NoRoom}
    <3>1. MaxName \in Nat BY ClientAssumption
    <3>2. /\ main = "starting" /\ hb = "off" /\ cancelled = FALSE
          /\ member_name = 0 /\ member_id \in Nat /\ curr_room \in Room \cup {NoRoom} /\ lost = NoRoom
      BY <1>2
    <3>3. main \in MainPC /\ hb \in HbPC BY <3>2 DEF MainPC, HbPC
    <3>4. cancelled \in BOOLEAN BY <3>2
    <3>5. member_name \in 0..MaxName /\ member_id \in Nat BY <3>1, <3>2
    <3>6. curr_room \in Room \cup {NoRoom} /\ lost \in Room \cup {NoRoom} BY <3>2
    <3> QED BY <3>3, <3>4, <3>5, <3>6
  <2> QED BY <1>1, <2>1, <2>2, <2>3, <2>4 DEF TypeOK, StacksTyped
<1>4. CallsSound BY <1>2, Nothing DEF CallsSound, Thread
<1>5. LockSound BY <1>2, Nothing DEF LockSound
<1> QED BY <1>3, <1>4, <1>5 DEF ClientInv

LEMMA ClientStep == ClientInv /\ [Next]_vars => ClientInv'
<1> SUFFICES ASSUME ClientInv, [Next]_vars PROVE ClientInv' OBVIOUS
<1>1. ASSUME NEW t \in Thread, Lock(t) \/ SenderStep(t) PROVE ClientInv'
  BY <1>1, ByLock, ByConnect, ByWrite, ByWriteToTheDead, ByReturn, ByRefresh, ByRefreshCrash,
     ByReRegisterAgain, ByReRegistered, ByRejoined DEF SenderStep
<1>2. CASE MainStep BY <1>2, ByStartUp, ByMainAnswered, ByMainRequests DEF MainStep
<1>3. CASE HbStep BY <1>3, ByBeat, ByHbGone DEF HbStep
<1>4. CASE User BY <1>4, ByQuitCancel, ByMainRequests DEF User
<1>5. CASE (\E s \in Server : ServerCrash(s)) \/ ServerStart \/ OtherUser BY <1>5, ByWorld
<1>6. CASE UNCHANGED vars
  <2>1. PoolTypeOK' BY <1>6 DEF vars, poolVars, PoolTypeOK, ClientInv, TypeOK
  <2>2. TypeOK' BY <1>6, <2>1 DEF vars, clientVars, ClientInv, TypeOK
  <2>3. CallsSound' BY <1>6 DEF vars, clientVars, ClientInv, CallsSound
  <2>4. LockSound' BY <1>6 DEF vars, clientVars, ClientInv, LockSound
  <2> QED BY <2>2, <2>3, <2>4 DEF ClientInv
<1> QED BY <1>1, <1>2, <1>3, <1>4, <1>5, <1>6 DEF Next

\* Calls nest as send_control_msg nests them, and the mutex follows them.
THEOREM ClientInvariant == Spec => []ClientInv
<1>1. Init /\ [][Next]_vars => []ClientInv BY InitClient, ClientStep, PTL
<1> QED BY <1>1, PTL DEF Spec

\* Every variable of the client and of the pool of servers keeps its type.
THEOREM ClientTypeCorrect == Spec => []TypeOK
<1>1. ClientInv => TypeOK BY DEF ClientInv
<1> QED BY <1>1, ClientInvariant, PTL

\* What a thread holds, counted.
LEMMA HeldCounted ==
  ASSUME ClientInv, NEW t \in Thread
  PROVE  Cardinality({i \in DOMAIN stack[t] : stack[t][i].at # "lock"}) = Held(stack[t])
<1> DEFINE s == stack[t]
           C == {i \in DOMAIN s : s[i].at # "lock"}
<1>1. s \in Seq(Frame) /\ ThreadSound(s, returned[t]) BY DEF ClientInv, TypeOK, CallsSound
<1>2. DOMAIN s = 1..Len(s) /\ Len(s) \in Nat BY <1>1, LenProperties
<1>3. CASE s = <<>>
  <2>1. C = {} BY <1>2, <1>3, EmptySeq
  <2> QED BY <1>3, <2>1, FS_EmptySet DEF Held
<1>4. CASE s # <<>>
  <2>1. Len(s) # 0 /\ Len(s) \in 1..Len(s) BY <1>1, <1>2, <1>4, EmptySeq
  <2>2. \A i \in 1..Len(s) - 1 : s[i].at # "lock" BY <1>1 DEF ThreadSound, Waiting
  <2>3. CASE s[Len(s)].at = "lock"
    <3>1. C = 1..Len(s) - 1
      <4>1. \A i \in 1..Len(s) : i = Len(s) \/ i \in 1..Len(s) - 1 BY <1>2
      <4>2. \A i \in 1..Len(s) - 1 : i \in 1..Len(s) BY <1>2
      <4> QED BY <1>2, <2>2, <2>3, <4>1, <4>2
    <3>2. Cardinality(1..Len(s) - 1) = Len(s) - 1 BY <1>2, <2>1, FS_Interval
    <3> QED BY <1>4, <2>3, <3>1, <3>2 DEF Held
  <2>4. CASE s[Len(s)].at # "lock"
    <3>1. C = 1..Len(s)
      <4>1. \A i \in 1..Len(s) : i = Len(s) \/ i \in 1..Len(s) - 1 BY <1>2
      <4> QED BY <1>2, <2>2, <2>4, <4>1
    <3>2. Cardinality(1..Len(s)) = Len(s) BY <1>2, <2>1, FS_Interval
    <3> QED BY <1>4, <2>4, <3>1, <3>2 DEF Held
  <2> QED BY <2>3, <2>4
<1> QED BY <1>3, <1>4

\* sender_lock is held as often as its owner is inside send_control_msg, and
\* nobody else is past it, however deep the failovers nest
\* (client_to_server_sender.c:131-182).
THEOREM LockCorrect == Spec => []LockDiscipline
<1>1. ClientInv => LockDiscipline
  BY HeldCounted DEF LockDiscipline, ClientInv, LockSound
<1> QED BY <1>1, ClientInvariant, PTL
=============================================================================
