------------------------ MODULE ClientSessionProofs ------------------------
(***************************************************************************)
(* What the client's failovers come to, for any number of servers and       *)
(* failures: one session in all, and the identity the client goes by is     *)
(* that of its session.                                                     *)
(***************************************************************************)
EXTENDS ClientProofs

\* The sessions of a server that is down are gone, and ids are not given out twice.
ProcessSound(x) ==
  /\ ~x.up => x.sessions = {}
  /\ IsFiniteSet(x.sessions)
  /\ \A e, f \in x.sessions : e.id <= x.draws /\ (e.id = f.id => e = f)

\* Only the published server can be up.
PoolSound == \A s \in Server : ProcessSound(server[s]) /\ (server[s].up => s = published)

\* This user's sessions are where the client thinks they are.
ServerInUse == Mine(published) # {} => chatserver = published

\* A connection is to the server in use; if its process is gone, so are this
\* user's sessions.  A registration asks for the name the client goes by.
CallSound(f) ==
  /\ f.at = "write" => /\ f.conn[1] = chatserver
                       /\ ~Connected(f) => Mine(chatserver) = {}
  /\ f.kind = "register" => f.name = member_name

CallsCurrent == \A t \in Thread : stack[t] # <<>> => CallSound(Top(t))

Refused == {"USED", "FULL"}

\* A registration is under way, or its answer has not been used yet.
Registering(t) ==
  \/ stack[t] # <<>> /\ Top(t).kind = "register"
  \/ returned[t] # <<>> /\ Result(t).kind = "register"

\* The thread is going to register, or to do so again.
Unregistered(t) ==
  \/ t = "main" /\ main = "starting" /\ Idle(stack[t], returned[t])
  \/ stack[t] # <<>> /\ Top(t).at = "refresh"
  \/ /\ stack[t] # <<>> /\ Top(t).kind = "register"
     /\ Top(t).at = "read" => Top(t).reply.type \in Refused
  \/ /\ returned[t] # <<>> /\ Result(t).kind = "register"
     /\ Result(t).reply.type \in Refused

\* The session the client would go by with this id.
Current(id) == \E e \in Mine(chatserver) : e.id = id /\ e.name = member_name

\* The thread has the answer to a registration, and will make its id the client's.
JustRegistered(t) ==
  \/ /\ stack[t] # <<>> /\ Top(t).kind = "register" /\ Top(t).at = "read"
     /\ Top(t).reply.type = "SUCC" /\ Current(Top(t).reply.id)
  \/ /\ returned[t] # <<>> /\ Result(t).kind = "register"
     /\ Result(t).reply.type = "SUCC" /\ Current(Result(t).reply.id)

Active == {"starting", "prompt", "requesting", "joining"}

\* The heartbeat thread was cancelled with the mutex taken.
LockLost == lock.owner = "hb" /\ hb = "gone"

IdentitySound ==
  main \in Active /\ Mine(chatserver) # {} =>
    \/ \E t \in Thread : Unregistered(t) \/ JustRegistered(t)
    \/ (\A t \in Thread : ~Registering(t)) /\ Current(member_id)
    \/ LockLost

\* Whoever is going to register has no session yet, but for those left by
\* connections that failed.
SessionsCounted ==
  /\ Cardinality(Mine(published)) <= 1 + faults
  /\ (\E t \in Thread : Unregistered(t)) => Cardinality(Mine(published)) <= faults

SessionInv == PoolSound /\ ServerInUse /\ CallsCurrent /\ IdentitySound /\ SessionsCounted

-----------------------------------------------------------------------------
(* Who registers has the mutex. *)

\* A thread with calls has them sound.
LEMMA TopOf ==
  ASSUME ClientInv, NEW t \in Thread, stack[t] # <<>>
  PROVE  /\ stack[t] \in Seq(Frame) /\ Len(stack[t]) \in Nat /\ Len(stack[t]) # 0
         /\ Top(t) = stack[t][Len(stack[t])] /\ Top(t) \in Frame /\ FrameSound(Top(t))
         /\ ThreadSound(stack[t], returned[t])
         /\ t = "hb" => hb = "beating"
         /\ Held(stack[t]) = IF lock.owner = t THEN lock.depth ELSE 0
<1>1. stack[t] \in Seq(Frame) /\ Top(t) = stack[t][Len(stack[t])]
  BY DEF ClientInv, TypeOK, Top
<1>2. Len(stack[t]) \in Nat /\ Len(stack[t]) # 0 BY <1>1, EmptySeq, LenProperties
<1>3. Len(stack[t]) \in 1..Len(stack[t]) BY <1>2
<1>4. Top(t) \in Frame BY <1>1, <1>3, ElementOfSeq
<1>5. ThreadSound(stack[t], returned[t]) BY DEF ClientInv, CallsSound
<1>6. FrameSound(Top(t)) BY <1>1, <1>3, <1>5 DEF ThreadSound
<1>7. t = "hb" => hb = "beating" BY DEF ClientInv, CallsSound, Idle
<1>8. Held(stack[t]) = IF lock.owner = t THEN lock.depth ELSE 0
  BY <1>7 DEF ClientInv, LockSound
<1> QED BY <1>1, <1>2, <1>4, <1>5, <1>6, <1>7, <1>8

\* A thread past the lock has it.
LEMMA PastLock ==
  ASSUME ClientInv, NEW t \in Thread, stack[t] # <<>>,
         Top(t).at # "lock" \/ Len(stack[t]) # 1
  PROVE  lock.owner = t
<1>1. /\ Len(stack[t]) \in Nat /\ Len(stack[t]) # 0 /\ Top(t) = stack[t][Len(stack[t])]
      /\ Held(stack[t]) = IF lock.owner = t THEN lock.depth ELSE 0
  BY TopOf
<1>2. Held(stack[t]) # 0 BY <1>1 DEF Held
<1> QED BY <1>1, <1>2

\* What each thread asks for at the bottom of its stack.
LEMMA Purposes ==
  ASSUME ClientInv, Alive, NEW t \in Thread, ~Idle(stack[t], returned[t])
  PROVE  /\ Purpose(stack[t], returned[t]) = "register" => main = "starting" /\ t = "main"
         /\ Purpose(stack[t], returned[t]) = "quit" => main = "quitting"
<1>1. CASE t = "hb"
  <2>1. hb = "beating" /\ Purpose(stack[t], returned[t]) = "keep_alive"
    BY <1>1 DEF ClientInv, CallsSound, Asks
  <2> QED BY <2>1
<1>2. CASE t = "main"
  <2>1. main \in {"starting", "requesting", "quitting"}
    BY <1>2 DEF ClientInv, CallsSound, TypeOK, MainPC, Alive
  <2>2. /\ main = "starting" => Purpose(stack[t], returned[t]) = "register"
        /\ main = "requesting" => Purpose(stack[t], returned[t]) \in {"switch", "list"}
        /\ main = "quitting" => Purpose(stack[t], returned[t]) = "quit"
    BY <1>2 DEF ClientInv, CallsSound, Asks
  <2> QED BY <1>2, <2>1, <2>2
<1> QED BY <1>1, <1>2 DEF Thread

\* A call made by another one is a registration or a switch; the first is what
\* the thread asks for.
LEMMA TopKind ==
  ASSUME ClientInv, NEW t \in Thread, stack[t] # <<>>
  PROVE  IF Len(stack[t]) = 1 THEN Top(t).kind = Purpose(stack[t], returned[t])
                              ELSE Top(t).kind \in {"register", "switch"}
<1>1. /\ Len(stack[t]) \in Nat /\ Len(stack[t]) # 0 /\ Top(t) = stack[t][Len(stack[t])]
      /\ ThreadSound(stack[t], returned[t])
  BY TopOf
<1>2. CASE Len(stack[t]) = 1 BY <1>1, <1>2 DEF Purpose
<1>3. CASE Len(stack[t]) # 1
  <2>1. Len(stack[t]) - 1 \in 1..Len(stack[t]) - 1 /\ (Len(stack[t]) - 1) + 1 = Len(stack[t])
    BY <1>1, <1>3, OneLess, Zenon
  <2>2. Top(t).kind = Callee(stack[t][Len(stack[t]) - 1]) BY <1>1, <2>1 DEF ThreadSound
  <2> QED BY <1>3, <2>2 DEF Callee
<1> QED BY <1>2, <1>3

LEMMA RegistersAlone ==
  ASSUME ClientInv, Alive, NEW t \in Thread, Registering(t) \/ Unregistered(t)
  PROVE  /\ lock.owner = t \/ (main = "starting" /\ t = "main")
         /\ main # "starting" => lock.owner = t
         /\ \A u \in Thread \ {t} : ~Registering(u) /\ ~Unregistered(u)
<1>1. ASSUME NEW u \in Thread, Registering(u) \/ Unregistered(u)
      PROVE  lock.owner = u \/ (main = "starting" /\ u = "main")
  <2>1. CASE stack[u] # <<>> /\ (Top(u).kind = "register" \/ Top(u).at = "refresh")
    <3>1. CASE Top(u).at # "lock" \/ Len(stack[u]) # 1 BY <2>1, <3>1, PastLock
    <3>2. CASE Top(u).at = "lock" /\ Len(stack[u]) = 1
      <4>1. Purpose(stack[u], returned[u]) = "register" BY <2>1, <3>2, TopKind
      <4> QED BY <2>1, <4>1, Purposes DEF Idle
    <3> QED BY <3>1, <3>2
  <2>2. CASE returned[u] # <<>> /\ Result(u).kind = "register"
    <3>1. CASE stack[u] = <<>>
      <4>1. Purpose(stack[u], returned[u]) = "register" BY <2>2, <3>1 DEF Purpose, Result
      <4> QED BY <2>2, <4>1, Purposes DEF Idle
    <3>2. CASE stack[u] # <<>>
      <4>1. Top(u).at \in Waiting BY <2>2, <3>2, TopOf DEF ThreadSound
      <4> QED BY <3>2, <4>1, PastLock DEF Waiting
    <3> QED BY <3>1, <3>2
  <2>3. CASE u = "main" /\ main = "starting" BY <2>3
  <2> QED BY <1>1, <2>1, <2>2, <2>3 DEF Registering, Unregistered
<1>2. ASSUME NEW u \in Thread, Registering(u) \/ Unregistered(u), main = "starting"
      PROVE  u = "main"
  <2>1. Idle(stack["hb"], returned["hb"]) BY <1>2 DEF ClientInv, CallsSound
  <2> QED BY <1>2, <2>1 DEF Registering, Unregistered, Idle, Thread
<1> QED BY <1>1, <1>2

-----------------------------------------------------------------------------
(* What is enough for a step to keep the invariant. *)

\* The sessions of this user are a finite set.
LEMMA MineFinite ==
  ASSUME PoolSound, NEW s \in Server
  PROVE  IsFiniteSet(Mine(s)) /\ Cardinality(Mine(s)) \in Nat
<1>1. Mine(s) \in SUBSET server[s].sessions BY DEF Mine
<1>2. IsFiniteSet(Mine(s)) BY <1>1, FS_Subset DEF PoolSound, ProcessSound
<1> QED BY <1>2, FS_CardinalityType

\* A user without a session has nothing to lose.
LEMMA NoSession ==
  ASSUME PoolSound', CallsCurrent', faults' \in Nat, Mine(published)' = {}, Mine(chatserver)' = {}
  PROVE  SessionInv'
<1>1. Cardinality(Mine(published)') = 0 BY FS_EmptySet
<1>2. Cardinality(Mine(published))' = 0 BY <1>1
<1>3. SessionsCounted' BY <1>2 DEF SessionsCounted
<1>4. IdentitySound' BY DEF IdentitySound
<1>5. ServerInUse' BY DEF ServerInUse
<1> QED BY <1>3, <1>4, <1>5 DEF SessionInv

\* This user's sessions stay where they are; one may end, or change its room.
SessionsStay ==
  /\ UNCHANGED <<published, faults, chatserver>>
  /\ Mine(published)' # {} => Mine(published) # {}
  /\ Mine(chatserver)' # {} => Mine(chatserver) # {}
  /\ Cardinality(Mine(published)') <= Cardinality(Mine(published))
  /\ Cardinality(Mine(published)') \in Nat

LEMMA Counted ==
  ASSUME ClientInv, SessionInv, PoolSound', CallsCurrent', SessionsStay,
         \A u \in Thread : Unregistered(u)' => \E v \in Thread : Unregistered(v),
         IdentitySound'
  PROVE  SessionInv'
<1>1. Cardinality(Mine(published)) \in Nat /\ faults \in Nat
  BY MineFinite DEF SessionInv, ClientInv, TypeOK, PoolTypeOK
<1>2. Cardinality(Mine(published))' <= 1 + faults'
  BY <1>1 DEF SessionsStay, SessionInv, SessionsCounted
<1>3. ASSUME \E u \in Thread : Unregistered(u)' PROVE Cardinality(Mine(published))' <= faults'
  BY <1>1, <1>3 DEF SessionsStay, SessionInv, SessionsCounted
<1>4. SessionsCounted' BY <1>2, <1>3 DEF SessionsCounted
<1>5. ServerInUse' BY DEF SessionsStay, ServerInUse, SessionInv
<1> QED BY <1>4, <1>5 DEF SessionInv

\* The threads are as far with their registrations as they were.
PhasesKept ==
  \A u \in Thread :
    /\ Registering(u)' => Registering(u) \/ Unregistered(u)'
    /\ Unregistered(u)' <=> Unregistered(u)
    /\ JustRegistered(u) => JustRegistered(u)'

LEMMA Quiet ==
  ASSUME ClientInv, SessionInv, PoolSound', CallsCurrent', SessionsStay, PhasesKept,
         main' \in Active => main \in Active, member_id' = member_id,
         \A id : Current(id) => Current(id)',
         LockLost => LockLost'
  PROVE  SessionInv'
<1>1. Current(member_id) => Current(member_id)' OBVIOUS
<1>2. IdentitySound'
  BY <1>1 DEF SessionInv, IdentitySound, PhasesKept, SessionsStay
<1> QED BY <1>2, Counted DEF PhasesKept

\* A client that is leaving does not go by its id any more.
LEMMA Leaving ==
  ASSUME ClientInv, SessionInv, PoolSound', CallsCurrent', SessionsStay,
         \A u \in Thread : Unregistered(u)' => \E v \in Thread : Unregistered(v),
         main' \notin Active
  PROVE  SessionInv'
BY Counted DEF IdentitySound

-----------------------------------------------------------------------------
(* What a step of one thread leaves alone. *)

OthersStay(t) == \A u \in Thread \ {t} : stack'[u] = stack[u] /\ returned'[u] = returned[u]

LEMMA OthersPhases ==
  ASSUME NEW t \in Thread, NEW u \in Thread \ {t}, OthersStay(t)
  PROVE  /\ Registering(u)' <=> Registering(u)
         /\ (main' = "starting" <=> main = "starting") => (Unregistered(u)' <=> Unregistered(u))
         /\ main' # "starting" /\ Unregistered(u)' => Unregistered(u)
         /\ (\A id : Current(id) => Current(id)') /\ JustRegistered(u) => JustRegistered(u)'
         /\ stack'[u] # <<>> => stack[u] # <<>> /\ Top(u)' = Top(u)
<1>1. stack'[u] = stack[u] /\ returned'[u] = returned[u] BY DEF OthersStay
<1>2. Top(u)' = Top(u) /\ Result(u)' = Result(u) BY <1>1 DEF Top, Result
<1>3. Registering(u)' <=> Registering(u) BY <1>1, <1>2 DEF Registering
<1>4. (main' = "starting" <=> main = "starting") => (Unregistered(u)' <=> Unregistered(u))
  BY <1>1, <1>2 DEF Unregistered
<1>5. main' # "starting" /\ Unregistered(u)' => Unregistered(u)
  BY <1>1, <1>2 DEF Unregistered
<1>6. (\A id : Current(id) => Current(id)') /\ JustRegistered(u) => JustRegistered(u)'
  <2> SUFFICES ASSUME \A id : Current(id) => Current(id)', JustRegistered(u)
               PROVE  JustRegistered(u)'
    OBVIOUS
  <2>1. Current(Top(u).reply.id) => Current(Top(u).reply.id)' 
    BY <1>2
  <2>2. Current(Result(u).reply.id) => Current(Result(u).reply.id)'
    BY <1>2
  <2> QED BY <1>1, <1>2, <2>1, <2>2 DEF JustRegistered
<1> QED BY <1>1, <1>2, <1>3, <1>4, <1>5, <1>6

\* Nothing happens to the servers, the server in use or the name.
LEMMA WorldStays ==
  ASSUME ClientInv, SessionInv, UNCHANGED <<poolVars, chatserver, member_name>>
  PROVE  /\ PoolSound' /\ SessionsStay
         /\ \A id : Current(id) => Current(id)'
<1>1. UNCHANGED <<server, published, faults>> BY DEF poolVars
<1>3. Mine(published)' = Mine(published) /\ Mine(chatserver)' = Mine(chatserver)
  BY <1>1 DEF Mine
<1>4. PoolSound' BY <1>1 DEF SessionInv, PoolSound
<1>5. Cardinality(Mine(published)) \in Nat
  BY MineFinite DEF SessionInv, ClientInv, TypeOK, PoolTypeOK
<1>6. SessionsStay BY <1>1, <1>3, <1>5 DEF SessionsStay
<1>7. \A id : Current(id) => Current(id)' BY <1>3 DEF Current
<1> QED BY <1>4, <1>6, <1>7

\* The other thread's calls stay sound, if this thread has the mutex, or the
\* world stays as it is.
LEMMA OthersCalls ==
  ASSUME ClientInv, SessionInv, NEW t \in Thread, OthersStay(t), member_name' = member_name,
         lock.owner = t \/ UNCHANGED <<poolVars, chatserver>>,
         stack'[t] # <<>> => CallSound(Top(t))'
  PROVE  CallsCurrent'
<1> SUFFICES ASSUME NEW u \in Thread, stack'[u] # <<>> PROVE CallSound(Top(u))'
  BY DEF CallsCurrent
<1>1. CASE u = t BY <1>1
<1>2. CASE u # t
  <2>1. stack[u] # <<>> /\ Top(u)' = Top(u) BY <1>2, OthersPhases
  <2>2. CallSound(Top(u)) BY <2>1 DEF SessionInv, CallsCurrent
  <2>3. CASE lock.owner = t
    <3>1. Top(u).at # "write" BY <1>2, <2>1, <2>3, PastLock
    <3> QED BY <2>1, <2>2, <3>1 DEF CallSound
  <2>4. CASE UNCHANGED <<poolVars, chatserver>>
    <3>1. /\ Top(u).at = "write" => /\ Top(u).conn[1] = chatserver'
                                    /\ ~Connected(Top(u)) => Mine(chatserver)' = {}
          /\ Top(u).kind = "register" => Top(u).name = member_name'
      <4>1. Mine(chatserver)' = Mine(chatserver) BY <2>4 DEF poolVars, Mine
      <4> QED BY <2>2, <2>4, <4>1 DEF CallSound
    <3>2. Connected(Top(u))' <=> Connected(Top(u))
      BY <2>1, <2>4 DEF poolVars, Connected
    <3> QED BY <2>1, <3>1, <3>2 DEF CallSound
  <2> QED BY <2>3, <2>4
<1> QED BY <1>1, <1>2

\* A step of a thread that is as far with its registration as it was.
LEMMA QuietThread ==
  ASSUME ClientInv, SessionInv, NEW t \in Thread, OthersStay(t),
         UNCHANGED <<poolVars, chatserver, member_name, member_id>>,
         main' = "starting" <=> main = "starting", main' \in Active => main \in Active,
         LockLost => LockLost',
         Registering(t)' => Registering(t) \/ Unregistered(t)',
         Unregistered(t)' <=> Unregistered(t),
         JustRegistered(t) => JustRegistered(t)',
         stack'[t] # <<>> => CallSound(Top(t))'
  PROVE  SessionInv'
<1>1. PoolSound' /\ SessionsStay /\ \A id : Current(id) => Current(id)' BY WorldStays
<1>2. CallsCurrent' BY OthersCalls
<1>3. ASSUME NEW u \in Thread
      PROVE  /\ Registering(u)' => Registering(u) \/ Unregistered(u)'
             /\ Unregistered(u)' <=> Unregistered(u)
             /\ JustRegistered(u) => JustRegistered(u)'
  <2>1. CASE u = t BY <2>1
  <2>2. CASE u # t BY <1>1, <2>2, OthersPhases
  <2> QED BY <2>1, <2>2
<1>4. PhasesKept BY <1>3 DEF PhasesKept
<1> QED BY <1>1, <1>2, <1>4, Quiet

\* A step by which the client leaves.
LEMMA LeavingThread ==
  ASSUME ClientInv, SessionInv, NEW t \in Thread, OthersStay(t),
         UNCHANGED <<poolVars, chatserver, member_name>>,
         main' \notin Active, Unregistered(t)' => Unregistered(t),
         stack'[t] # <<>> => CallSound(Top(t))'
  PROVE  SessionInv'
<1>1. PoolSound' /\ SessionsStay BY WorldStays
<1>2. CallsCurrent' BY OthersCalls
<1>3. main' # "starting" BY DEF Active
<1>4. \A u \in Thread : Unregistered(u)' => Unregistered(u) BY <1>3, OthersPhases
<1> QED BY <1>1, <1>2, <1>4, Leaving

-----------------------------------------------------------------------------
(* The steps inside send_control_msg that change no server and no identity. *)

\* The innermost call is now f, another one called by it is c.
LEMMA NewTop ==
  ASSUME ClientInv, NEW t \in Thread, stack[t] # <<>>, NEW f \in Frame, stack' = WithTop(t, f),
         \A u \in Thread \ {t} : returned'[u] = returned[u]
  PROVE  stack'[t] # <<>> /\ Top(t)' = f /\ OthersStay(t)
<1>1. stack[t] \in Seq(Frame) /\ stack' = [stack EXCEPT ![t] = Replaced(stack[t], f)]
  BY TopReplaced, TopOf
<1>2. stack'[t] = Replaced(stack[t], f) /\ \A u \in Thread \ {t} : stack'[u] = stack[u]
  BY <1>1 DEF ClientInv, TypeOK
<1>3. Replaced(stack[t], f) # <<>> /\ Len(Replaced(stack[t], f)) = Len(stack[t])
      /\ Replaced(stack[t], f)[Len(stack[t])] = f
  BY <1>1, ReplacedSeq
<1>4. stack'[t] # <<>> /\ Len(stack'[t]) = Len(stack[t]) /\ stack'[t][Len(stack[t])] = f
  BY <1>2, <1>3, Zenon
<1>5. Top(t)' = f BY <1>4 DEF Top
<1> QED BY <1>2, <1>4, <1>5 DEF OthersStay

LEMMA NewCall ==
  ASSUME ClientInv, NEW t \in Thread, NEW s \in Seq(Frame), NEW c \in Frame,
         stack' = [stack EXCEPT ![t] = Append(s, c)],
         \A u \in Thread \ {t} : returned'[u] = returned[u]
  PROVE  stack'[t] # <<>> /\ Top(t)' = c /\ OthersStay(t)
<1>1. stack'[t] = Append(s, c) /\ \A u \in Thread \ {t} : stack'[u] = stack[u]
  BY DEF ClientInv, TypeOK
<1>2. Len(s) \in Nat /\ Append(s, c) \in Seq(Frame) /\ Len(Append(s, c)) = Len(s) + 1
      /\ Append(s, c)[Len(s) + 1] = c
  BY LenProperties, AppendProperties
<1>3. Append(s, c) # <<>> BY <1>2, EmptySeq
<1> QED BY <1>1, <1>2, <1>3 DEF Top, OthersStay

\* The owner of the mutex is not a thread that is gone.
LEMMA NotLost ==
  ASSUME ClientInv, NEW t \in Thread, ~Idle(stack[t], returned[t]), lock.owner \in {t, NoThread}
  PROVE  ~LockLost
<1>1. t = "hb" => hb = "beating" BY DEF ClientInv, CallsSound
<1> QED BY <1>1, ClientAssumption DEF LockLost

LEMMA QuietLock == ASSUME ClientInv, SessionInv, NEW t \in Thread, Lock(t) PROVE SessionInv'
<1> DEFINE f == [Top(t) EXCEPT !.at = "connect"]
<1>1. /\ At(t, "lock") /\ Free(t) /\ stack' = WithTop(t, f)
      /\ UNCHANGED <<poolVars, returned, main, hb, chatserver, member_name, member_id>>
  BY DEF Lock, Go
<1>2. /\ stack[t] # <<>> /\ returned[t] = <<>> /\ Top(t) \in Frame /\ Top(t).at = "lock"
      /\ ~Idle(stack[t], returned[t])
  BY <1>1, AtTop
<1>3. f \in Frame /\ f.at = "connect" /\ f.kind = Top(t).kind /\ f.name = Top(t).name
  BY <1>2, FrameAt DEF Place
<1> HIDE DEF f
<1>4. stack'[t] # <<>> /\ Top(t)' = f /\ OthersStay(t) BY <1>1, <1>2, <1>3, NewTop
<1>5. Registering(t)' => Registering(t) BY <1>1, <1>2, <1>3, <1>4 DEF Registering
<1>6. Unregistered(t)' <=> Unregistered(t)
  BY <1>1, <1>2, <1>3, <1>4 DEF Unregistered, Idle
<1>7. ~JustRegistered(t) BY <1>2 DEF JustRegistered
<1>8. CallSound(Top(t))'
  <2>1. CallSound(Top(t)) BY <1>2 DEF SessionInv, CallsCurrent
  <2> QED BY <1>1, <1>3, <1>4, <2>1 DEF CallSound
<1>9. ~LockLost BY <1>1, <1>2, NotLost DEF Free
<1> QED BY <1>1, <1>4, <1>5, <1>6, <1>7, <1>8, <1>9, QuietThread

LEMMA QuietReturn == ASSUME ClientInv, SessionInv, NEW t \in Thread, Return(t) PROVE SessionInv'
<1> DEFINE s == SubSeq(stack[t], 1, Len(stack[t]) - 1)
           a == [kind |-> Top(t).kind, room |-> Top(t).room, reply |-> Top(t).reply]
<1>1. /\ At(t, "read") /\ stack' = [stack EXCEPT ![t] = s]
      /\ returned' = [returned EXCEPT ![t] = <<a>>]
      /\ UNCHANGED <<poolVars, main, hb, chatserver, member_name, member_id>>
  BY DEF Return, ClientInv, TypeOK
<1>2. /\ stack[t] \in Seq(Frame) /\ stack[t] # <<>> /\ returned[t] = <<>>
      /\ Top(t) \in Frame /\ Top(t).at = "read" /\ Top(t) = stack[t][Len(stack[t])]
      /\ ThreadSound(stack[t], returned[t]) /\ ~Idle(stack[t], returned[t])
      /\ lock.owner = t
  BY <1>1, AtTop
<1>3. /\ a \in Answered /\ a.kind = Top(t).kind /\ a.reply = Top(t).reply
  BY <1>2 DEF Frame, Answered
<1> HIDE DEF a
<1>4. s \in Seq(Frame) /\ ThreadSound(s, <<a>>) /\ ~Idle(s, <<a>>) BY <1>2, <1>3, Popped
<1> HIDE DEF s
<1>5. /\ stack'[t] = s /\ returned'[t] = <<a>> /\ OthersStay(t)
  BY <1>1 DEF OthersStay, ClientInv, TypeOK
<1>6. returned'[t] # <<>> /\ Result(t)' = a BY <1>5 DEF Result
<1>7. ASSUME s # <<>>
      PROVE  /\ Top(t)' = s[Len(s)] /\ s[Len(s)].at \in Waiting /\ s[Len(s)].kind # "register"
  <2>1. Len(s) \in 1..Len(s)
    <3>1. Len(s) \in Nat /\ Len(s) # 0 BY <1>4, <1>7, EmptySeq, LenProperties
    <3> QED BY <3>1
  <2>2. s[Len(s)].at \in Waiting BY <1>4, <1>6, <1>7 DEF ThreadSound
  <2>3. FrameSound(s[Len(s)]) BY <1>4, <2>1 DEF ThreadSound
  <2> QED BY <1>5, <2>2, <2>3 DEF FrameSound, Top
<1>8. Registering(t)' <=> Registering(t)
  BY <1>2, <1>3, <1>5, <1>6, <1>7 DEF Registering
<1>9. Unregistered(t)' <=> Unregistered(t)
  BY <1>1, <1>2, <1>3, <1>4, <1>5, <1>6, <1>7 DEF Unregistered, Idle, Waiting
<1>10. JustRegistered(t) => JustRegistered(t)'
  <2> SUFFICES ASSUME JustRegistered(t) PROVE JustRegistered(t)' OBVIOUS
  <2>1. PICK id : id = a.reply.id /\ a.kind = "register" /\ a.reply.type = "SUCC" /\ Current(id)
    BY <1>2, <1>3 DEF JustRegistered
  <2>2. Current(id)' BY <1>1, <2>1, WorldStays
  <2>3. Result(t)'.reply.id = id BY <1>6, <2>1
  <2>4. Current(Result(t).reply.id)' BY <2>2, <2>3
  <2> QED BY <1>6, <2>1, <2>4 DEF JustRegistered
<1>11. stack'[t] # <<>> => CallSound(Top(t))' BY <1>5, <1>7 DEF CallSound, Waiting
<1>12. ~LockLost BY <1>2, NotLost
<1> QED BY <1>1, <1>5, <1>8, <1>9, <1>10, <1>11, <1>12, QuietThread

LEMMA QuietRejoined == ASSUME ClientInv, SessionInv, NEW t \in Thread, Rejoined(t) PROVE SessionInv'
<1> DEFINE f == [Top(t) EXCEPT !.at = "connect"]
<1>1. /\ BackAt(t, "rejoin") /\ stack' = WithTop(t, f)
      /\ returned' = [returned EXCEPT ![t] = <<>>]
      /\ UNCHANGED <<poolVars, lock, main, hb, chatserver, member_name, member_id>>
  BY DEF Rejoined, Go
<1>2. /\ stack[t] # <<>> /\ returned[t] # <<>> /\ Top(t) \in Frame /\ Top(t).at = "rejoin"
      /\ FrameSound(Top(t)) /\ Result(t).kind = Callee(Top(t)) /\ lock.owner = t
      /\ ~Idle(stack[t], returned[t])
  BY <1>1, BackTop DEF Waiting
<1>3. f \in Frame /\ f.at = "connect" /\ f.kind = Top(t).kind
  BY <1>2, FrameAt DEF Place
<1>4. Top(t).kind # "register" /\ Result(t).kind = "switch"
  BY <1>2 DEF FrameSound, Waiting, Callee
<1> HIDE DEF f
<1>5. returned'[t] = <<>> /\ \A u \in Thread \ {t} : returned'[u] = returned[u]
  BY <1>1 DEF ClientInv, TypeOK
<1>6. stack'[t] # <<>> /\ Top(t)' = f /\ OthersStay(t) BY <1>1, <1>2, <1>3, <1>5, NewTop
<1>7. ~Registering(t)' BY <1>3, <1>4, <1>5, <1>6 DEF Registering
<1>8. ~Unregistered(t) BY <1>2, <1>4 DEF Unregistered
<1>9. ~Unregistered(t)' BY <1>3, <1>4, <1>5, <1>6 DEF Unregistered, Idle
<1>10. ~JustRegistered(t) BY <1>4 DEF JustRegistered
<1>11. CallSound(Top(t))' BY <1>3, <1>4, <1>6 DEF CallSound
<1>12. ~LockLost BY <1>2, NotLost
<1> QED BY <1>1, <1>6, <1>7, <1>8, <1>9, <1>10, <1>11, <1>12, QuietThread

LEMMA QuietRefreshCrash ==
  ASSUME ClientInv, SessionInv, NEW t \in Thread, RefreshCrash(t) PROVE SessionInv'
<1>1. /\ At(t, "refresh") /\ main' = "dead"
      /\ UNCHANGED <<poolVars, stack, returned, chatserver, member_name>>
  BY DEF RefreshCrash
<1>2. stack[t] # <<>> /\ Top(t).at = "refresh" BY <1>1, AtTop
<1>3. Unregistered(t) BY <1>2 DEF Unregistered
<1>4. stack'[t] # <<>> /\ Top(t)' = Top(t) /\ OthersStay(t) BY <1>1, <1>2 DEF Top, OthersStay
<1>5. CallSound(Top(t))'
  <2>1. CallSound(Top(t)) BY <1>2 DEF SessionInv, CallsCurrent
  <2> QED BY <1>1, <1>2, <1>4, <2>1 DEF CallSound
<1> QED BY <1>1, <1>3, <1>4, <1>5, LeavingThread DEF Active

\* The servers, and the name the client goes by, are as they were.
LEMMA PoolStays ==
  ASSUME ClientInv, SessionInv, UNCHANGED <<server, published>>
  PROVE  PoolSound' /\ (\A s : Mine(s)' = Mine(s)) /\ \A f : Connected(f)' <=> Connected(f)
<1>1. PoolSound' BY DEF SessionInv, PoolSound
<1> QED BY <1>1 DEF Mine, Connected

\* The connection fails, or is made.
LEMMA SoundConnect == ASSUME ClientInv, SessionInv, NEW t \in Thread, Connect(t) PROVE SessionInv'
<1>1. At(t, "connect") /\ UNCHANGED <<quiet, chatserver>> BY DEF Connect
<1>2. /\ stack[t] # <<>> /\ returned[t] = <<>> /\ Top(t) \in Frame /\ Top(t).at = "connect"
      /\ ~Idle(stack[t], returned[t]) /\ lock.owner = t
  BY <1>1, AtTop
<1>3. returned' = returned /\ UNCHANGED <<main, hb, lock, member_name, member_id>>
  BY <1>1 DEF quiet
<1>4. CallSound(Top(t)) BY <1>2 DEF SessionInv, CallsCurrent
<1>5. ASSUME server[chatserver].up, UNCHANGED poolVars,
             stack' = WithTop(t, [Top(t) EXCEPT !.at = "write",
                                    !.conn = <<chatserver, server[chatserver].run>>])
      PROVE  SessionInv'
  <2> DEFINE c == <<chatserver, server[chatserver].run>>
             f == [Top(t) EXCEPT !.at = "write", !.conn = c]
  <2>1. chatserver \in Server /\ server[chatserver].run \in Nat
    BY DEF ClientInv, TypeOK, PoolTypeOK, Process
  <2>2. c \in Server \X Nat /\ c[1] = chatserver /\ c[2] = server[chatserver].run BY <2>1
  <2>3. f = [Top(t) EXCEPT !.at = "write", !.conn = c] /\ stack' = WithTop(t, f) BY <1>5
  <2> HIDE DEF f, c
  <2>4. f \in Frame /\ f.at = "write" /\ f.kind = Top(t).kind /\ f.name = Top(t).name /\ f.conn = c
    BY <1>2, <2>2, <2>3 DEF Frame
  <2>5. stack'[t] # <<>> /\ Top(t)' = f /\ OthersStay(t) BY <1>2, <1>3, <2>3, <2>4, NewTop
  <2>6. Registering(t)' => Registering(t) BY <1>2, <1>3, <2>4, <2>5 DEF Registering
  <2>7. Unregistered(t)' <=> Unregistered(t)
    BY <1>2, <1>3, <2>4, <2>5 DEF Unregistered, Idle
  <2>8. ~JustRegistered(t) BY <1>2 DEF JustRegistered
  <2>9. server' = server /\ chatserver' = chatserver BY <1>1, <1>5 DEF poolVars
  <2>10. Connected(Top(t))' BY <1>5, <2>2, <2>4, <2>5, <2>9 DEF Connected
  <2>11. CallSound(Top(t))'
    <3>1. Top(t)'.conn[1] = chatserver' BY <2>2, <2>4, <2>5, <2>9
    <3>2. Top(t)'.kind = "register" => Top(t)'.name = member_name'
      BY <1>3, <1>4, <2>4, <2>5 DEF CallSound
    <3> QED BY <2>10, <3>1, <3>2 DEF CallSound
  <2>12. ~LockLost BY <1>2, NotLost
  <2> QED BY <1>1, <1>3, <1>5, <2>5, <2>6, <2>7, <2>8, <2>11, <2>12, QuietThread
<1>6. ASSUME Go(t, "refresh"), UNCHANGED <<server, published>>
      PROVE  PoolSound' /\ CallsCurrent' /\ Unregistered(t)'
  <2> DEFINE f == [Top(t) EXCEPT !.at = "refresh"]
  <2>1. f \in Frame /\ f.at = "refresh" /\ f.kind = Top(t).kind /\ f.name = Top(t).name
    BY <1>2, FrameAt DEF Place
  <2>2. stack' = WithTop(t, f) BY <1>6 DEF Go
  <2> HIDE DEF f
  <2>3. stack'[t] # <<>> /\ Top(t)' = f /\ OthersStay(t) BY <1>2, <1>3, <2>1, <2>2, NewTop
  <2>4. CallSound(Top(t))' BY <1>3, <1>4, <2>1, <2>3 DEF CallSound
  <2>5. CallsCurrent' BY <1>2, <1>3, <2>3, <2>4, OthersCalls
  <2>6. Unregistered(t)' BY <2>1, <2>3 DEF Unregistered
  <2> QED BY <1>6, <2>5, <2>6, PoolStays
<1>7. ASSUME Go(t, "refresh"), ~server[chatserver].up, UNCHANGED poolVars
      PROVE  SessionInv'
  <2>1. Mine(chatserver) = {}
    BY <1>7 DEF Mine, SessionInv, PoolSound, ProcessSound, ClientInv, TypeOK
  <2>2. Mine(published) = {} BY <2>1 DEF SessionInv, ServerInUse
  <2>3. UNCHANGED <<server, published, chatserver>> /\ faults' = faults
    BY <1>1, <1>7 DEF poolVars
  <2>4. Mine(chatserver)' = {} /\ Mine(published)' = {} BY <2>1, <2>2, <2>3 DEF Mine
  <2>5. faults' \in Nat BY <2>3 DEF ClientInv, TypeOK, PoolTypeOK
  <2> QED BY <1>6, <1>7, <2>3, <2>4, <2>5, NoSession
<1>8. ASSUME Go(t, "refresh"), ConnectFault PROVE SessionInv'
  <2>1. UNCHANGED <<server, published>> /\ faults' = faults + 1 BY <1>8 DEF ConnectFault
  <2>2. PoolSound' /\ CallsCurrent' /\ Unregistered(t)' BY <1>6, <1>8, <2>1
  <2>3. Mine(published)' = Mine(published) /\ Mine(chatserver)' = Mine(chatserver)
    BY <1>1, <2>1 DEF Mine
  <2>4. faults \in Nat /\ Cardinality(Mine(published)) \in Nat
        /\ Cardinality(Mine(published)) <= 1 + faults
    BY MineFinite DEF SessionInv, SessionsCounted, ClientInv, TypeOK, PoolTypeOK
  <2>5. Cardinality(Mine(published))' <= faults' /\ Cardinality(Mine(published))' <= 1 + faults'
    BY <2>1, <2>3, <2>4
  <2>6. SessionsCounted' BY <2>5 DEF SessionsCounted
  <2>7. IdentitySound' BY <2>2 DEF IdentitySound
  <2>8. ServerInUse' BY <1>1, <2>1, <2>3 DEF SessionInv, ServerInUse
  <2> QED BY <2>2, <2>6, <2>7, <2>8 DEF SessionInv
<1> QED BY <1>5, <1>7, <1>8 DEF Connect

\* Nobody is there to answer, and no session of this user is left.
LEMMA SoundWriteToTheDead ==
  ASSUME ClientInv, SessionInv, NEW t \in Thread, WriteToTheDead(t) PROVE SessionInv'
<1>1. At(t, "write") /\ ~Connected(Top(t)) /\ UNCHANGED <<poolVars, quiet, chatserver>>
  BY DEF WriteToTheDead
<1>2. /\ stack[t] # <<>> /\ Top(t) \in Frame /\ Top(t).at = "write" /\ lock.owner = t
  BY <1>1, AtTop
<1>3. CallSound(Top(t)) BY <1>2 DEF SessionInv, CallsCurrent
<1>4. UNCHANGED <<server, published, chatserver, faults, returned, member_name>>
  BY <1>1 DEF quiet, poolVars
<1>5. \E f \in Frame : /\ f.at # "write" /\ f.kind = Top(t).kind /\ f.name = Top(t).name
                       /\ stack' = WithTop(t, f)
  <2>1. CASE stack' = WithTop(t, [Top(t) EXCEPT !.at = "refresh", !.conn = <<>>])
    <3> DEFINE f == [Top(t) EXCEPT !.at = "refresh", !.conn = <<>>]
    <3>1. f = [Top(t) EXCEPT !.at = "refresh", !.conn = <<>>] OBVIOUS
    <3> HIDE DEF f
    <3>2. f \in Frame /\ f.at = "refresh" /\ f.kind = Top(t).kind /\ f.name = Top(t).name
      BY <1>2, <3>1 DEF Frame
    <3> QED BY <2>1, <3>1, <3>2
  <2>2. ASSUME NEW reply \in Unwritten(Top(t)),
               stack' = WithTop(t, [Top(t) EXCEPT !.at = "read", !.reply = reply])
        PROVE  \E f \in Frame : /\ f.at # "write" /\ f.kind = Top(t).kind /\ f.name = Top(t).name
                                /\ stack' = WithTop(t, f)
    <3> DEFINE f == [Top(t) EXCEPT !.at = "read", !.reply = reply]
    <3>1. f = [Top(t) EXCEPT !.at = "read", !.reply = reply] OBVIOUS
    <3>2. reply \in Reply BY ClientAssumption DEF Unwritten, NoReply, Reply
    <3> HIDE DEF f
    <3>3. f \in Frame /\ f.at = "read" /\ f.kind = Top(t).kind /\ f.name = Top(t).name
      BY <1>2, <3>1, <3>2 DEF Frame
    <3> QED BY <2>2, <3>1, <3>3
  <2> QED BY <2>1, <2>2 DEF WriteToTheDead
<1>6. PICK f \in Frame : /\ f.at # "write" /\ f.kind = Top(t).kind /\ f.name = Top(t).name
                         /\ stack' = WithTop(t, f)
  BY <1>5
<1>7. stack'[t] # <<>> /\ Top(t)' = f /\ OthersStay(t) BY <1>2, <1>4, <1>6, NewTop
<1>8. CallSound(Top(t))' BY <1>3, <1>4, <1>6, <1>7 DEF CallSound
<1>9. CallsCurrent' BY <1>2, <1>4, <1>7, <1>8, OthersCalls
<1>10. Mine(chatserver) = {} BY <1>1, <1>2, <1>3 DEF CallSound
<1>11. Mine(published) = {} BY <1>10 DEF SessionInv, ServerInUse
<1>12. Mine(chatserver)' = {} /\ Mine(published)' = {} BY <1>4, <1>10, <1>11 DEF Mine
<1>13. faults' \in Nat BY <1>4 DEF ClientInv, TypeOK, PoolTypeOK
<1> QED BY <1>4, <1>9, <1>12, <1>13, PoolStays, NoSession

\* What a thread that goes for another server does next.
LEMMA RefreshGoesOn ==
  ASSUME ClientInv, NEW t \in Thread, Refresh(t)
  PROVE  /\ stack'[t] # <<>> /\ OthersStay(t) /\ returned' = returned /\ returned[t] = <<>>
         /\ Top(t)'.kind = "register" /\ Top(t)'.at \in {"lock", "connect"}
         /\ stack[t] # <<>> /\ Top(t).at = "refresh" /\ lock.owner = t
         /\ ~Idle(stack[t], returned[t])
         /\ Top(t)'.name = member_name \/ (Top(t).kind = "register" /\ Top(t)'.name = Top(t).name)
<1>1. At(t, "refresh") /\ UNCHANGED quiet BY DEF Refresh
<1>2. /\ stack[t] # <<>> /\ returned[t] = <<>> /\ Top(t) \in Frame /\ Top(t).at = "refresh"
      /\ FrameSound(Top(t)) /\ lock.owner = t /\ stack[t] \in Seq(Frame)
      /\ ~Idle(stack[t], returned[t])
  BY <1>1, AtTop
<1>3. returned' = returned BY <1>1 DEF quiet
<1>4. CASE Top(t).re_register
  <2> DEFINE f == [Top(t) EXCEPT !.at = "rereg"]
             s == Replaced(stack[t], f)
             c == RegisterCall
  <2>1. f \in Frame BY <1>2, FrameAt DEF Place
  <2>2. member_name \in Nat BY ClientAssumption DEF ClientInv, TypeOK
  <2>3. c \in Frame /\ c.at = "lock" /\ c.kind = "register" BY <2>2, RegisterCallTyped DEF RegisterCall
  <2>4. c.name = member_name BY DEF RegisterCall, Call
  <2>5. s \in Seq(Frame) BY <1>2, <2>1, ReplacedSeq
  <2>6. stack' = [stack EXCEPT ![t] = Append(s, c)]
    <3>1. WithTop(t, f)[t] = s BY TopReplaced DEF ClientInv, TypeOK
    <3> QED BY <1>4, <3>1 DEF Refresh
  <2> HIDE DEF s, c
  <2>7. stack'[t] # <<>> /\ Top(t)' = c /\ OthersStay(t) BY <1>3, <2>3, <2>5, <2>6, NewCall
  <2> QED BY <1>2, <1>3, <2>3, <2>4, <2>7
<1>5. CASE ~Top(t).re_register
  <2> DEFINE f == [Top(t) EXCEPT !.at = "connect"]
  <2>1. f \in Frame /\ f.at = "connect" /\ f.kind = Top(t).kind /\ f.name = Top(t).name
    BY <1>2, FrameAt DEF Place
  <2>2. stack' = WithTop(t, f) BY <1>5 DEF Refresh, Go
  <2>3. Top(t).kind = "register" BY <1>2, <1>5 DEF FrameSound
  <2> HIDE DEF f
  <2>4. stack'[t] # <<>> /\ Top(t)' = f /\ OthersStay(t) BY <1>2, <1>3, <2>1, <2>2, NewTop
  <2> QED BY <1>2, <1>3, <2>1, <2>3, <2>4
<1> QED BY <1>4, <1>5

\* The server in use is another one only if this user has no session.
LEMMA SoundRefresh == ASSUME ClientInv, SessionInv, NEW t \in Thread, Refresh(t) PROVE SessionInv'
<1>1. chatserver' = published /\ UNCHANGED <<poolVars, quiet>> BY DEF Refresh
<1>2. UNCHANGED <<server, published, faults, main, hb, lock, member_name, member_id>>
  BY <1>1 DEF poolVars, quiet
<1>3. /\ stack'[t] # <<>> /\ OthersStay(t) /\ returned' = returned /\ returned[t] = <<>>
      /\ Top(t)'.kind = "register" /\ Top(t)'.at \in {"lock", "connect"}
      /\ stack[t] # <<>> /\ Top(t).at = "refresh" /\ lock.owner = t
      /\ ~Idle(stack[t], returned[t])
      /\ Top(t)'.name = member_name \/ (Top(t).kind = "register" /\ Top(t)'.name = Top(t).name)
  BY RefreshGoesOn
<1>4. CallSound(Top(t)) BY <1>3 DEF SessionInv, CallsCurrent
<1>5. CallSound(Top(t))' BY <1>2, <1>3, <1>4 DEF CallSound
<1>6. CASE chatserver' = chatserver
  <2>1. Unregistered(t) BY <1>3 DEF Unregistered
  <2>2. Unregistered(t)' BY <1>3 DEF Unregistered
  <2>3. ~JustRegistered(t) BY <1>3 DEF JustRegistered
  <2>4. ~LockLost BY <1>3, NotLost
  <2> QED BY <1>1, <1>2, <1>3, <1>5, <1>6, <2>1, <2>2, <2>3, <2>4, QuietThread
<1>7. CASE chatserver' # chatserver
  <2>1. Mine(published) = {} BY <1>1, <1>7 DEF SessionInv, ServerInUse
  <2>2. Mine(published)' = {} /\ Mine(chatserver)' = {} BY <1>1, <1>2, <2>1 DEF Mine
  <2>3. CallsCurrent' BY <1>2, <1>3, <1>5, OthersCalls
  <2>4. faults' \in Nat BY <1>2 DEF ClientInv, TypeOK, PoolTypeOK
  <2> QED BY <1>2, <2>2, <2>3, <2>4, PoolStays, NoSession
<1> QED BY <1>6, <1>7

\* Refused, it registers again, by a name nobody else asks for.
LEMMA SoundReRegisterAgain ==
  ASSUME ClientInv, SessionInv, NEW t \in Thread, ReRegisterAgain(t) PROVE SessionInv'
<1> DEFINE c == [RegisterCall EXCEPT !.name = member_name']
<1>1. /\ BackAt(t, "rereg") /\ returned' = [returned EXCEPT ![t] = <<>>]
      /\ Result(t).reply.type \in Refused
      /\ UNCHANGED <<poolVars, lock, main, hb, chatserver, member_id>>
  BY DEF ReRegisterAgain, Refused
<1>2. /\ stack[t] \in Seq(Frame) /\ stack[t] # <<>> /\ returned[t] # <<>>
      /\ Top(t).at = "rereg" /\ Result(t).kind = Callee(Top(t)) /\ lock.owner = t
  BY <1>1, BackTop DEF Waiting
<1>3. Alive BY <1>1 DEF BackAt
<1>4. Registering(t) /\ Unregistered(t) BY <1>1, <1>2 DEF Registering, Unregistered, Callee
<1>5. \A u \in Thread \ {t} : ~Registering(u) BY <1>3, <1>4, RegistersAlone
<1>6. c \in Frame /\ c.at = "lock" /\ c.kind = "register" /\ c.name = member_name'
  <2>1. c = [Call("register", 0, NoRoom, FALSE) EXCEPT !.name = member_name']
    BY DEF RegisterCall, Call
  <2>2. member_name' \in Nat
    <3>1. member_name \in Nat BY ClientAssumption DEF ClientInv, TypeOK
    <3> QED BY <3>1 DEF ReRegisterAgain, NextName
  <2>3. c.name = member_name' BY DEF RegisterCall, Call
  <2> HIDE DEF c
  <2> QED BY <2>1, <2>2, <2>3, RegisterCallTyped
<1>7. stack' = [stack EXCEPT ![t] = Append(stack[t], c)]
  BY DEF ReRegisterAgain, ClientInv, TypeOK
<1> HIDE DEF c
<1>8. returned'[t] = <<>> /\ \A u \in Thread \ {t} : returned'[u] = returned[u]
  BY <1>1 DEF ClientInv, TypeOK
<1>9. stack'[t] # <<>> /\ Top(t)' = c /\ OthersStay(t) BY <1>2, <1>6, <1>7, <1>8, NewCall
<1>10. UNCHANGED <<server, published, faults, chatserver>> BY <1>1 DEF poolVars
<1>11. CallsCurrent'
  <2> SUFFICES ASSUME NEW u \in Thread, stack'[u] # <<>> PROVE CallSound(Top(u))'
    BY DEF CallsCurrent
  <2>1. CASE u = t BY <1>6, <1>9, <2>1 DEF CallSound
  <2>2. CASE u # t
    <3>1. stack[u] # <<>> /\ Top(u)' = Top(u) BY <1>9, <2>2, OthersPhases
    <3>2. Top(u).kind # "register" BY <1>5, <2>2, <3>1 DEF Registering
    <3>3. Top(u).at # "write" BY <1>2, <2>2, <3>1, PastLock
    <3> QED BY <3>1, <3>2, <3>3 DEF CallSound
  <2> QED BY <2>1, <2>2
<1>12. Unregistered(t)' BY <1>6, <1>9 DEF Unregistered
<1>13. IdentitySound' BY <1>12 DEF IdentitySound
<1>14. SessionsStay
  <2>1. Mine(published)' = Mine(published) /\ Mine(chatserver)' = Mine(chatserver)
    BY <1>10 DEF Mine
  <2>2. Cardinality(Mine(published)) \in Nat
    BY MineFinite DEF SessionInv, ClientInv, TypeOK, PoolTypeOK
  <2> QED BY <1>10, <2>1, <2>2 DEF SessionsStay
<1> QED BY <1>4, <1>10, <1>11, <1>13, <1>14, PoolStays, Counted

\* Who has the answer to a registration, and no other call, knows its session.
LEMMA KnowsItsSession ==
  ASSUME ClientInv, SessionInv, NEW t \in Thread, Alive, main \in Active,
         returned[t] # <<>>, Result(t).kind = "register", Result(t).reply.type \notin Refused,
         stack[t] # <<>> => Top(t).kind # "register" /\ Top(t).at \in Waiting,
         Mine(chatserver) # {}
  PROVE  Result(t).reply.type = "SUCC" /\ Current(Result(t).reply.id)
<1>1. Registering(t) BY DEF Registering
<1>2. \A u \in Thread \ {t} : ~Registering(u) /\ ~Unregistered(u) BY <1>1, RegistersAlone
<1>3. ~Unregistered(t) BY DEF Unregistered, Waiting, Idle
<1>4. ~LockLost
  <2>1. lock.owner = "hb" => hb # "gone"
    <3>1. CASE t = "hb" BY <3>1 DEF ClientInv, CallsSound, Idle
    <3>2. CASE t = "main" 
      <4>1. lock.owner = t \/ main = "starting" BY <1>1, RegistersAlone
      <4> QED BY <3>2, <4>1 DEF ClientInv, CallsSound
    <3> QED BY <3>1, <3>2 DEF Thread
  <2> QED BY <2>1 DEF LockLost
<1>5. \A u \in Thread \ {t} : ~JustRegistered(u) BY <1>2 DEF JustRegistered, Registering
<1>6. JustRegistered(t) BY <1>1, <1>2, <1>3, <1>4, <1>5 DEF SessionInv, IdentitySound
<1> QED BY <1>6 DEF JustRegistered

\* Registered again, the client goes by its new id.
LEMMA SoundReRegistered ==
  ASSUME ClientInv, SessionInv, NEW t \in Thread, ReRegistered(t) PROVE SessionInv'
<1> DEFINE f == [Top(t) EXCEPT !.at = "rejoin"]
           s == Replaced(stack[t], f)
           c == [Call("switch", 0, curr_room, TRUE) EXCEPT !.id = member_id']
<1>1. /\ BackAt(t, "rereg") /\ returned' = [returned EXCEPT ![t] = <<>>]
      /\ Result(t).reply.type \in {"SUCC", "EMPTY"}
      /\ member_id' = IdAfterRegister(Result(t))
      /\ UNCHANGED <<poolVars, lock, main, hb, chatserver, member_name, curr_room>>
  BY DEF ReRegistered
<1>2. /\ stack[t] \in Seq(Frame) /\ stack[t] # <<>> /\ returned[t] # <<>>
      /\ Top(t) \in Frame /\ Top(t).at = "rereg" /\ FrameSound(Top(t))
      /\ Result(t).kind = Callee(Top(t)) /\ Result(t) \in Answered /\ lock.owner = t
  BY <1>1, BackTop DEF Waiting
<1>3. Alive BY <1>1 DEF BackAt
<1>4. /\ Result(t).kind = "register" /\ Top(t).kind # "register"
      /\ Result(t).reply.type \notin Refused
  BY <1>1, <1>2 DEF Callee, FrameSound, Waiting, Refused
<1>5. Registering(t) BY <1>2, <1>4 DEF Registering
<1>6. \A u \in Thread \ {t} : ~Registering(u) /\ ~Unregistered(u)
  BY <1>3, <1>5, RegistersAlone
<1>7. c \in Frame /\ c.at = "lock" /\ c.kind = "switch"
  <2>1. member_id' \in Nat
    BY <1>1, <1>2 DEF IdAfterRegister, Answered, Reply, ClientInv, TypeOK
  <2>2. curr_room \in Room \cup {NoRoom} BY DEF ClientInv, TypeOK
  <2> QED BY <2>1, <2>2, RejoinCallTyped
<1>8. s \in Seq(Frame) BY <1>2, FrameAt, ReplacedSeq DEF Place
<1>9. stack' = [stack EXCEPT ![t] = Append(s, c)]
  <2>1. WithTop(t, f)[t] = s BY TopReplaced DEF ClientInv, TypeOK
  <2> QED BY <2>1 DEF ReRegistered
<1> HIDE DEF s, c
<1>10. returned'[t] = <<>> /\ \A u \in Thread \ {t} : returned'[u] = returned[u]
  BY <1>1 DEF ClientInv, TypeOK
<1>11. stack'[t] # <<>> /\ Top(t)' = c /\ OthersStay(t) BY <1>7, <1>8, <1>9, <1>10, NewCall
<1>12. \A u \in Thread : ~Registering(u)' /\ ~Unregistered(u)'
  <2>1. ~Registering(t)' BY <1>7, <1>10, <1>11 DEF Registering
  <2>2. ~Unregistered(t)' BY <1>7, <1>10, <1>11 DEF Unregistered, Idle
  <2>3. ASSUME NEW u \in Thread \ {t} PROVE ~Registering(u)' /\ ~Unregistered(u)'
    BY <1>1, <1>6, <1>11, OthersPhases
  <2> QED BY <2>1, <2>2, <2>3
<1>13. UNCHANGED <<server, published, chatserver, member_name, main>> BY <1>1 DEF poolVars
<1>14. PoolSound' /\ SessionsStay /\ \A id : Current(id) => Current(id)' BY <1>1, WorldStays
<1>15. CallSound(Top(t))' BY <1>7, <1>11 DEF CallSound
<1>16. CallsCurrent' BY <1>2, <1>11, <1>13, <1>15, OthersCalls
<1>17. ASSUME main \in Active, Mine(chatserver) # {} PROVE Current(member_id)'
  <2>1. Result(t).reply.type = "SUCC" /\ Current(Result(t).reply.id)
    BY <1>2, <1>3, <1>4, <1>17, KnowsItsSession DEF Waiting
  <2>2. PICK id : id = Result(t).reply.id /\ Current(id) BY <2>1
  <2>3. Current(id)' BY <1>14, <2>2
  <2>4. member_id' = id BY <1>1, <2>1, <2>2 DEF IdAfterRegister
  <2> QED BY <2>3, <2>4
<1>18. IdentitySound' BY <1>12, <1>13, <1>14, <1>17 DEF IdentitySound, SessionsStay
<1> QED BY <1>12, <1>14, <1>16, <1>18, Counted

-----------------------------------------------------------------------------
(* The steps of the threads outside send_control_msg. *)

\* A thread without calls takes s, which is empty or one call that waits for the mutex.
LEMMA Takes ==
  ASSUME ClientInv, NEW t \in Thread, stack[t] = <<>>,
         NEW s, stack' = [stack EXCEPT ![t] = s],
         returned' = [returned EXCEPT ![t] = <<>>]
  PROVE  /\ OthersStay(t) /\ stack'[t] = s /\ returned'[t] = <<>>
         /\ \A c : s = <<c>> => Top(t)' = c /\ stack'[t] # <<>>
<1>1. OthersStay(t) /\ stack'[t] = s /\ returned'[t] = <<>>
  BY DEF OthersStay, ClientInv, TypeOK
<1>2. \A c : Len(<<c>>) = 1 /\ <<c>>[1] = c /\ <<c>> # <<>> OBVIOUS
<1> QED BY <1>1, <1>2 DEF Top

LEMMA SoundStartUp == ASSUME ClientInv, SessionInv, StartUp PROVE SessionInv'
<1> DEFINE c == RegisterCall
<1>1. /\ main = "starting" /\ stack["main"] = <<>> /\ returned["main"] = <<>>
      /\ stack' = [stack EXCEPT !["main"] = <<c>>]
      /\ UNCHANGED <<poolVars, quiet, chatserver>>
  BY DEF StartUp
<1>2. c.kind = "register" /\ c.at = "lock" /\ c.name = member_name BY DEF RegisterCall, Call
<1> HIDE DEF c
<1>3. "main" \in Thread BY DEF Thread
<1>4. UNCHANGED <<returned, main, hb, lock, member_name, member_id>> BY <1>1 DEF quiet
<1>5. returned' = [returned EXCEPT !["main"] = <<>>] BY <1>1, <1>4 DEF ClientInv, TypeOK
<1>6. /\ OthersStay("main") /\ returned'["main"] = <<>> /\ Top("main")' = c
      /\ stack'["main"] # <<>>
  BY <1>1, <1>3, <1>5, Takes
<1>7. Unregistered("main") BY <1>1 DEF Unregistered, Idle
<1>8. Unregistered("main")' BY <1>2, <1>6 DEF Unregistered
<1>9. ~JustRegistered("main") BY <1>1 DEF JustRegistered
<1>10. CallSound(Top("main"))' BY <1>2, <1>4, <1>6 DEF CallSound
<1>11. LockLost' <=> LockLost BY <1>4 DEF LockLost
<1> QED BY <1>1, <1>3, <1>4, <1>6, <1>7, <1>8, <1>9, <1>10, <1>11, QuietThread

\* The registration of the start is answered.
LEMMA SoundStarted == ASSUME ClientInv, SessionInv, Started PROVE SessionInv'
<1>1. /\ main = "starting" /\ stack["main"] = <<>> /\ returned["main"] # <<>>
      /\ returned' = [returned EXCEPT !["main"] = <<>>] /\ Alive
      /\ UNCHANGED <<poolVars, stack, lock, chatserver, member_name>>
  BY DEF Started, BackInThread
<1>2. "main" \in Thread /\ main \in Active BY <1>1 DEF Thread, Active
<1>3. Result("main").kind = "register"
  BY <1>1 DEF ClientInv, CallsSound, Asks, Idle, Purpose, Result
<1>4. Registering("main") BY <1>1, <1>3 DEF Registering
<1>5. \A u \in Thread \ {"main"} : ~Registering(u) /\ ~Unregistered(u)
  BY <1>1, <1>2, <1>4, RegistersAlone
<1>6. stack' = [stack EXCEPT !["main"] = <<>>] BY <1>1 DEF ClientInv, TypeOK
<1>7. OthersStay("main") /\ stack'["main"] = <<>> /\ returned'["main"] = <<>>
  BY <1>1, <1>2, <1>6, Takes
<1>8. main' # "starting" BY DEF Started
<1>9. ~Registering("main")' /\ ~Unregistered("main")'
  BY <1>7, <1>8 DEF Registering, Unregistered
<1>10. \A u \in Thread : ~Registering(u)' /\ ~Unregistered(u)'
  BY <1>2, <1>5, <1>7, <1>8, <1>9, OthersPhases
<1>11. PoolSound' /\ SessionsStay /\ \A id : Current(id) => Current(id)' BY <1>1, WorldStays
<1>12. CallsCurrent' BY <1>1, <1>2, <1>7, OthersCalls
<1>13. CASE Result("main").reply.type \in Refused
  <2>1. main' \notin Active BY <1>13 DEF Started, Refused, Active
  <2> QED BY <1>10, <1>11, <1>12, <2>1, Leaving
<1>14. CASE Result("main").reply.type \notin Refused
  <2>1. main' = "prompt" /\ member_id' = IdAfterRegister(Result("main"))
    BY <1>14 DEF Started, Refused
  <2>2. ASSUME Mine(chatserver) # {} PROVE Current(member_id)'
    <3>1. Result("main").reply.type = "SUCC" /\ Current(Result("main").reply.id)
      BY <1>1, <1>2, <1>3, <1>14, <2>2, KnowsItsSession
    <3>2. PICK id : id = Result("main").reply.id /\ Current(id) BY <3>1
    <3>3. Current(id)' BY <1>11, <3>2
    <3>4. member_id' = id BY <2>1, <3>1, <3>2 DEF IdAfterRegister
    <3> QED BY <3>3, <3>4
  <2>3. IdentitySound' BY <1>10, <1>11, <2>2 DEF IdentitySound, SessionsStay
  <2> QED BY <1>10, <1>11, <1>12, <2>3, Counted
<1> QED BY <1>13, <1>14

\* A thread with no registration of its own takes up a request of another kind,
\* or none.
LEMMA QuietRequest ==
  ASSUME ClientInv, SessionInv, NEW t \in Thread, stack[t] = <<>>,
         returned[t] # <<>> => Result(t).kind # "register",
         UNCHANGED <<poolVars, chatserver, member_name, member_id, lock>>,
         main # "starting", main' # "starting", main' \in Active => main \in Active,
         hb = "gone" => hb' = "gone",
         NEW s, stack' = [stack EXCEPT ![t] = s], returned' = [returned EXCEPT ![t] = <<>>],
         s # <<>> => \E c : s = <<c>> /\ c.kind # "register" /\ c.at = "lock"
  PROVE  SessionInv'
<1>1. OthersStay(t) /\ stack'[t] = s /\ returned'[t] = <<>> BY Takes
<1>2. s # <<>> => Top(t)'.kind # "register" /\ Top(t)'.at = "lock"
  <2> SUFFICES ASSUME s # <<>> PROVE Top(t)'.kind # "register" /\ Top(t)'.at = "lock"
    OBVIOUS
  <2>1. PICK c : s = <<c>> /\ c.kind # "register" /\ c.at = "lock" OBVIOUS
  <2>2. Top(t)' = c BY <2>1, Takes
  <2> QED BY <2>1, <2>2
<1>3. ~Registering(t)' BY <1>1, <1>2 DEF Registering
<1>4. ~Unregistered(t) BY DEF Unregistered
<1>5. ~Unregistered(t)' BY <1>1, <1>2 DEF Unregistered
<1>6. ~JustRegistered(t) BY DEF JustRegistered
<1>7. stack'[t] # <<>> => CallSound(Top(t))' BY <1>1, <1>2 DEF CallSound
<1>8. LockLost => LockLost' BY DEF LockLost
<1> QED BY <1>1, <1>3, <1>4, <1>5, <1>6, <1>7, <1>8, QuietThread

LEMMA QuietMain ==
  ASSUME ClientInv, SessionInv,
         UserAnswered \/ QuitDone \/ QuitJoined
           \/ \E kind \in {"switch", "list"}, r \in Room \cup {NoRoom} : UserRequest(kind, r)
  PROVE  SessionInv'
<1>1. "main" \in Thread BY DEF Thread
<1>2. CASE UserAnswered \/ QuitDone
  <2>1. /\ main \in {"requesting", "quitting"} /\ main' \in {"prompt", "exited"}
        /\ main' \in Active => main \in Active
        /\ stack["main"] = <<>> /\ returned["main"] # <<>>
        /\ returned' = [returned EXCEPT !["main"] = <<>>] /\ stack' = stack
        /\ UNCHANGED <<poolVars, chatserver, member_name, member_id, lock, hb>>
    BY <1>2 DEF UserAnswered, QuitDone, BackInThread, Active
  <2>2. Result("main").kind # "register"
    <3>1. Asks(stack["main"], returned["main"], {"switch", "list", "quit"})
      BY <2>1 DEF ClientInv, CallsSound, Asks
    <3> QED BY <2>1, <3>1 DEF Asks, Purpose, Result
  <2>3. stack' = [stack EXCEPT !["main"] = <<>>] BY <2>1 DEF ClientInv, TypeOK
  <2> QED BY <1>1, <2>1, <2>2, <2>3, QuietRequest
<1>3. CASE QuitJoined \/ \E kind \in {"switch", "list"}, r \in Room \cup {NoRoom} : UserRequest(kind, r)
  <2>1. PICK kind \in {"switch", "list", "quit"}, r \in Room \cup {NoRoom} :
          /\ main \in {"prompt", "joining"} /\ main' \in {"requesting", "quitting"}
          /\ main' \in Active => main \in Active
          /\ stack' = [stack EXCEPT !["main"] = <<Call(kind, member_id, r, TRUE)>>]
          /\ UNCHANGED <<poolVars, returned, chatserver, member_name, member_id, lock, hb>>
    BY <1>3 DEF QuitJoined, UserRequest, Active
  <2>2. stack["main"] = <<>> /\ returned["main"] = <<>>
    BY <2>1 DEF ClientInv, CallsSound, Idle
  <2>3. returned' = [returned EXCEPT !["main"] = <<>>] BY <2>1, <2>2 DEF ClientInv, TypeOK
  <2> DEFINE c == Call(kind, member_id, r, TRUE)
  <2>4. c.kind # "register" /\ c.at = "lock" BY DEF Call
  <2>5. stack' = [stack EXCEPT !["main"] = <<c>>] BY <2>1
  <2> HIDE DEF c
  <2> QED BY <1>1, <2>1, <2>2, <2>3, <2>4, <2>5, QuietRequest
<1> QED BY <1>2, <1>3

LEMMA QuietBeat == ASSUME ClientInv, SessionInv, Beat \/ Beaten PROVE SessionInv'
<1>0. "hb" \in Thread BY DEF Thread
<1>1. /\ hb \in {"sleeping", "beating"} /\ main # "starting" /\ main' = main
      /\ UNCHANGED <<poolVars, chatserver, member_name, member_id, lock>>
  BY DEF Beat, Beaten, ClientInv, CallsSound
<1>2. CASE Beat
  <2> DEFINE c == HeartbeatCall
  <2>1. c.kind # "register" /\ c.at = "lock" BY DEF HeartbeatCall, Call
  <2>2. stack' = [stack EXCEPT !["hb"] = <<c>>] BY <1>2 DEF Beat
  <2> HIDE DEF c
  <2>3. stack["hb"] = <<>> /\ returned["hb"] = <<>>
    BY <1>2 DEF Beat, ClientInv, CallsSound, Idle
  <2>4. returned' = [returned EXCEPT !["hb"] = <<>>]
    BY <1>2, <2>3 DEF Beat, ClientInv, TypeOK
  <2> QED BY <1>0, <1>1, <2>1, <2>2, <2>3, <2>4, QuietRequest
<1>3. CASE Beaten
  <2>1. /\ stack["hb"] = <<>> /\ returned["hb"] # <<>> /\ hb = "beating" /\ stack' = stack
        /\ returned' = [returned EXCEPT !["hb"] = <<>>]
    BY <1>3 DEF Beaten, BackInThread
  <2>2. Result("hb").kind = "keep_alive"
    BY <2>1 DEF ClientInv, CallsSound, Asks, Purpose, Result
  <2>3. stack' = [stack EXCEPT !["hb"] = <<>>] BY <2>1 DEF ClientInv, TypeOK
  <2> QED BY <1>0, <1>1, <2>1, <2>2, <2>3, QuietRequest
<1> QED BY <1>2, <1>3

LEMMA QuietQuitCancel == ASSUME ClientInv, SessionInv, QuitCancel PROVE SessionInv'
<1>1. /\ main = "prompt" /\ main' = "joining"
      /\ UNCHANGED <<poolVars, stack, returned, lock, hb, chatserver, member_name, member_id>>
  BY DEF QuitCancel
<1>2. "main" \in Thread BY DEF Thread
<1>3. stack["main"] = <<>> /\ returned["main"] = <<>>
  BY <1>1 DEF ClientInv, CallsSound, Idle
<1>4. /\ stack' = [stack EXCEPT !["main"] = <<>>]
      /\ returned' = [returned EXCEPT !["main"] = <<>>]
  BY <1>1, <1>3 DEF ClientInv, TypeOK
<1> QED BY <1>1, <1>2, <1>3, <1>4, QuietRequest DEF Active

\* The heartbeat thread ends; what it was registering, it does no more, and it
\* has left the mutex taken.
LEMMA SoundHbGone == ASSUME ClientInv, SessionInv, HbGone PROVE SessionInv'
<1>1. /\ hb' = "gone"
      /\ stack' = [stack EXCEPT !["hb"] = <<>>] /\ returned' = [returned EXCEPT !["hb"] = <<>>]
      /\ UNCHANGED <<poolVars, lock, main, chatserver, member_name, member_id>>
  BY DEF HbGone
<1>2. "hb" \in Thread BY DEF Thread
<1>3. stack'["hb"] = <<>> /\ returned'["hb"] = <<>> /\ OthersStay("hb")
  <2>1. stack \in [Thread -> Seq(Frame)] /\ returned \in [Thread -> Seq(Answered)]
    BY DEF ClientInv, TypeOK
  <2>2. stack'["hb"] = <<>> /\ returned'["hb"] = <<>> BY <1>1, <1>2, <2>1
  <2>3. OthersStay("hb") BY <1>1, <2>1 DEF OthersStay
  <2> QED BY <2>2, <2>3
<1>4. PoolSound' /\ SessionsStay /\ \A id : Current(id) => Current(id)' BY <1>1, WorldStays
<1>5. CallsCurrent' BY <1>1, <1>2, <1>3, OthersCalls
<1>6. ~Unregistered("hb")' /\ ~Registering("hb")'
  BY <1>3 DEF Unregistered, Registering
<1>7. \A u \in Thread \ {"hb"} : Unregistered(u)' <=> Unregistered(u)
  BY <1>1, <1>2, <1>3, OthersPhases
<1>8. CASE hb = "sleeping"
  <2>1. stack["hb"] = <<>> /\ returned["hb"] = <<>>
    BY <1>8 DEF ClientInv, CallsSound, Idle
  <2>2. ~Unregistered("hb") BY <2>1 DEF Unregistered
  <2>3. ~JustRegistered("hb") BY <2>1 DEF JustRegistered
  <2>4. LockLost => LockLost' BY <1>1 DEF LockLost
  <2> QED BY <1>1, <1>2, <1>3, <1>6, <2>2, <2>3, <2>4, QuietThread
<1>9. CASE hb # "sleeping"
  <2>1. lock.owner = "hb"
    <3>1. ASSUME NEW place \in {"connect", "write", "read", "refresh"}, At("hb", place)
          PROVE  lock.owner = "hb"
      BY <1>2, <3>1, AtTop
    <3>2. CASE BackAt("hb", "rereg") BY <1>2, <3>2, BackTop DEF Waiting
    <3> QED BY <1>9, <3>1, <3>2 DEF HbGone
  <2>2. LockLost' BY <1>1, <2>1 DEF LockLost
  <2>3. IdentitySound' BY <2>2 DEF IdentitySound
  <2>4. \A u \in Thread : Unregistered(u)' => Unregistered(u) BY <1>6, <1>7
  <2> QED BY <1>4, <1>5, <2>3, <2>4, Counted
<1> QED BY <1>8, <1>9

-----------------------------------------------------------------------------
(* What the servers do. *)

Own(x) == {e \in x.sessions : e.owner = "me"}

LEMMA QuitEnds ==
  ASSUME NEW x, x \in Process, ProcessSound(x), NEW id
  PROVE  /\ ProcessSound(AfterQuit(x, id)) /\ AfterQuit(x, id).up = x.up
         /\ AfterQuit(x, id).sessions = {e \in x.sessions : e.id # id}
         /\ Own(AfterQuit(x, id)) \subseteq Own(x)
         /\ Cardinality(Own(AfterQuit(x, id))) <= Cardinality(Own(x))
         /\ Cardinality(Own(AfterQuit(x, id))) \in Nat
<1> DEFINE y == AfterQuit(x, id)
<1>1. y.up = x.up /\ y.draws = x.draws /\ y.sessions = x.sessions \ SessionOf(x, id)
  BY DEF AfterQuit, Process
<1> HIDE DEF y
<1>2. y.sessions = {e \in x.sessions : e.id # id} BY <1>1 DEF SessionOf
<1>3. y.sessions \in SUBSET x.sessions BY <1>2
<1>4. IsFiniteSet(y.sessions) BY <1>3, FS_Subset DEF ProcessSound
<1>5. ProcessSound(y) BY <1>1, <1>3, <1>4 DEF ProcessSound
<1>6. Own(y) \in SUBSET Own(x) /\ Own(x) \in SUBSET x.sessions BY <1>3 DEF Own
<1>7. IsFiniteSet(Own(x)) BY <1>6, FS_Subset DEF ProcessSound
<1>8. IsFiniteSet(Own(y)) /\ Cardinality(Own(y)) <= Cardinality(Own(x))
  BY <1>6, <1>7, FS_Subset
<1>9. Cardinality(Own(y)) \in Nat BY <1>8, FS_CardinalityType
<1> QED BY <1>1, <1>2, <1>5, <1>6, <1>8, <1>9 DEF y

LEMMA SwitchMoves ==
  ASSUME NEW x, x \in Process, ProcessSound(x), NEW id, NEW room \in Room \cup {NoRoom}
  PROVE  /\ ProcessSound(AfterSwitch(x, id, room)) /\ AfterSwitch(x, id, room).up = x.up
         /\ Own(AfterSwitch(x, id, room)) # {} => Own(x) # {}
         /\ \A e \in Own(x) : \E g \in Own(AfterSwitch(x, id, room)) : g.id = e.id /\ g.name = e.name
         /\ Cardinality(Own(AfterSwitch(x, id, room))) <= Cardinality(Own(x))
         /\ Cardinality(Own(AfterSwitch(x, id, room))) \in Nat
<1> DEFINE y == AfterSwitch(x, id, room)
           Moved(e) == IF e.id = id THEN [e EXCEPT !.room = room] ELSE e
           m == [e \in x.sessions |-> Moved(e)]
           o == [e \in Own(x) |-> Moved(e)]
<1>1. y.up = x.up /\ y.draws = x.draws /\ y.sessions = {Moved(e) : e \in x.sessions}
  BY DEF AfterSwitch, Process
<1> HIDE DEF y
<1>2. x.sessions \subseteq Session BY DEF Process
<1>3. \A e \in x.sessions :
        Moved(e).id = e.id /\ Moved(e).name = e.name /\ Moved(e).owner = e.owner
  BY <1>2 DEF Session
<1> HIDE DEF Moved
<1>4. m \in Surjection(x.sessions, y.sessions) BY <1>1 DEF Surjection
<1>5. IsFiniteSet(y.sessions) BY <1>4, FS_Surjection DEF ProcessSound
<1>6. ProcessSound(y) BY <1>1, <1>3, <1>5 DEF ProcessSound
<1>7. Own(y) = {Moved(e) : e \in Own(x)} BY <1>1, <1>3 DEF Own
<1>8. o \in Surjection(Own(x), Own(y)) BY <1>7 DEF Surjection
<1>9. IsFiniteSet(Own(x))
  <2>1. Own(x) \in SUBSET x.sessions BY DEF Own
  <2> QED BY <2>1, FS_Subset DEF ProcessSound
<1>10. IsFiniteSet(Own(y)) /\ Cardinality(Own(y)) <= Cardinality(Own(x))
  BY <1>8, <1>9, FS_Surjection
<1>11. Cardinality(Own(y)) \in Nat BY <1>10, FS_CardinalityType
<1>12. \A e \in Own(x) : \E g \in Own(y) : g.id = e.id /\ g.name = e.name
  BY <1>3, <1>7 DEF Own
<1>13. Own(y) # {} => Own(x) # {} BY <1>7
<1> QED BY <1>1, <1>6, <1>10, <1>11, <1>12, <1>13 DEF y

\* The id of a registration that is accepted is new.
LEMMA RegisterAdds ==
  ASSUME NEW x, x \in Process, ProcessSound(x), x.up, ~Full(x), NEW name \in Name, ~NameUsed(x, name),
         NEW owner \in Owner
  PROVE  /\ ProcessSound(AfterRegister(x, name, owner)) /\ AfterRegister(x, name, owner).up
         /\ RegisterReply(x, name) = [type |-> "SUCC", id |-> x.draws + 1]
         /\ \E e : /\ e.id = x.draws + 1 /\ e.name = name /\ e.owner = owner
                   /\ AfterRegister(x, name, owner).sessions = x.sessions \cup {e}
<1> DEFINE y == AfterRegister(x, name, owner)
           e == [id |-> x.draws + 1, name |-> name, room |-> NoRoom, owner |-> owner]
<1>1. /\ y.up = x.up /\ y.draws = x.draws + 1 /\ y.sessions = x.sessions \cup {e}
      /\ x.draws \in Nat /\ x.sessions \subseteq Session
  BY DEF AfterRegister, Process
<1>2. e.id = x.draws + 1 /\ e.name = name /\ e.owner = owner OBVIOUS
<1> HIDE DEF y, e
<1>3. IsFiniteSet(y.sessions) BY <1>1, FS_AddElement DEF ProcessSound
<1>4. \A g \in x.sessions : g.id \in Nat /\ g.id <= x.draws BY <1>1 DEF ProcessSound, Session
<1>5. ASSUME NEW g \in y.sessions, NEW h \in y.sessions
      PROVE  g.id <= y.draws /\ (g.id = h.id => g = h)
  <2>1. g \in x.sessions \/ g = e BY <1>1
  <2>2. h \in x.sessions \/ h = e BY <1>1
  <2>3. g.id <= x.draws + 1 BY <1>1, <1>2, <1>4, <2>1
  <2>4. CASE g \in x.sessions /\ h \in x.sessions BY <1>1, <2>3, <2>4 DEF ProcessSound
  <2>5. CASE g = e \/ h = e BY <1>1, <1>2, <1>4, <2>1, <2>2, <2>3, <2>5
  <2> QED BY <2>1, <2>2, <2>4, <2>5
<1>6. ProcessSound(y) BY <1>1, <1>3, <1>5 DEF ProcessSound
<1>7. RegisterReply(x, name) = [type |-> "SUCC", id |-> x.draws + 1] BY DEF RegisterReply
<1> QED BY <1>1, <1>2, <1>6, <1>7 DEF y

\* The server in use goes on as y.
LEMMA OneServer ==
  ASSUME ClientInv, SessionInv, NEW s \in Server, server[s].up,
         NEW y, ProcessSound(y), y.up, server' = [server EXCEPT ![s] = y],
         UNCHANGED <<published, faults, chatserver>>
  PROVE  /\ PoolSound' /\ s = published /\ server'[s] = y
         /\ Mine(s) = Own(server[s]) /\ Mine(s)' = Own(y)
         /\ Mine(published) = Own(server[s]) /\ Mine(published)' = Own(y)
         /\ chatserver # s => Mine(chatserver) = {} /\ Mine(chatserver)' = {}
         /\ chatserver = s => Mine(chatserver) = Own(server[s]) /\ Mine(chatserver)' = Own(y)
<1>1. s = published BY DEF SessionInv, PoolSound
<1>2. server'[s] = y /\ \A u \in Server \ {s} : server'[u] = server[u]
  BY DEF ClientInv, TypeOK, PoolTypeOK
<1>3. PoolSound' BY <1>1, <1>2 DEF SessionInv, PoolSound
<1>4. Mine(s) = Own(server[s]) /\ Mine(s)' = Own(y) BY <1>2 DEF Mine, Own
<1>5. Mine(published) = Own(server[s]) /\ Mine(published)' = Own(y) BY <1>1, <1>2 DEF Mine, Own
<1>6. ASSUME chatserver # s PROVE Mine(chatserver) = {} /\ Mine(chatserver)' = {}
  <2>1. chatserver \in Server \ {s} BY <1>6 DEF ClientInv, TypeOK
  <2>2. ~server[chatserver].up BY <1>1, <2>1 DEF SessionInv, PoolSound
  <2>3. server[chatserver].sessions = {} BY <2>1, <2>2 DEF SessionInv, PoolSound, ProcessSound
  <2> QED BY <1>2, <2>1, <2>3 DEF Mine
<1>7. chatserver = s => Mine(chatserver) = Own(server[s]) /\ Mine(chatserver)' = Own(y)
  BY <1>2 DEF Mine, Own
<1> QED BY <1>1, <1>2, <1>3, <1>4, <1>5, <1>6, <1>7

\* The innermost call of t has the answer reply, from its server s, which goes on as y.
Answers(t, s, y, reply) ==
  /\ stack' = WithTop(t, [Top(t) EXCEPT !.at = "read", !.reply = reply])
  /\ server' = [server EXCEPT ![s] = y]

LEMMA WriteReaches ==
  ASSUME ClientInv, SessionInv, NEW t \in Thread, Write(t)
  PROVE  /\ stack[t] # <<>> /\ returned' = returned /\ returned[t] = <<>>
         /\ Top(t) \in Frame /\ Top(t).at = "write" /\ lock.owner = t /\ Alive
         /\ ~Idle(stack[t], returned[t])
         /\ Top(t).conn[1] = chatserver /\ chatserver \in Server
         /\ server[chatserver].up /\ server[chatserver] \in Process
         /\ ProcessSound(server[chatserver]) /\ CallSound(Top(t))
         /\ UNCHANGED <<published, faults, chatserver, main, hb, lock, member_name, member_id>>
         /\ UNCHANGED <<crashes, others>>
<1>1. At(t, "write") /\ Connected(Top(t))
      /\ UNCHANGED <<published, crashes, faults, others, quiet, chatserver>>
  BY DEF Write
<1>2. /\ stack[t] # <<>> /\ returned[t] = <<>> /\ Top(t) \in Frame /\ Top(t).at = "write"
      /\ lock.owner = t /\ ~Idle(stack[t], returned[t])
  BY <1>1, AtTop
<1>3. CallSound(Top(t)) BY <1>2 DEF SessionInv, CallsCurrent
<1>4. chatserver \in Server /\ server[chatserver] \in Process
  BY DEF ClientInv, TypeOK, PoolTypeOK
<1>5. Top(t).conn[1] = chatserver BY <1>2, <1>3 DEF CallSound
<1>6. server[chatserver].up BY <1>1, <1>5 DEF Connected
<1>7. ProcessSound(server[chatserver]) BY <1>4 DEF SessionInv, PoolSound
<1> QED BY <1>1, <1>2, <1>3, <1>4, <1>5, <1>6, <1>7 DEF quiet, At

LEMMA AnswerRead ==
  ASSUME ClientInv, SessionInv, NEW t \in Thread, Write(t),
         NEW y, NEW reply \in Reply, Answers(t, chatserver, y, reply)
  PROVE  /\ stack'[t] # <<>> /\ OthersStay(t) /\ returned'[t] = <<>>
         /\ Top(t)'.kind = Top(t).kind /\ Top(t)'.at = "read" /\ Top(t)'.reply = reply
         /\ CallsCurrent'
<1> DEFINE g == [Top(t) EXCEPT !.at = "read", !.reply = reply]
<1>1. /\ stack[t] # <<>> /\ returned' = returned /\ returned[t] = <<>>
      /\ Top(t) \in Frame /\ lock.owner = t /\ CallSound(Top(t)) /\ member_name' = member_name
  BY WriteReaches
<1>2. g = [Top(t) EXCEPT !.at = "read", !.reply = reply] /\ stack' = WithTop(t, g)
  BY DEF Answers
<1> HIDE DEF g
<1>3. /\ g \in Frame /\ g.at = "read" /\ g.kind = Top(t).kind /\ g.name = Top(t).name
      /\ g.reply = reply
  BY <1>1, <1>2 DEF Frame
<1>4. stack'[t] # <<>> /\ Top(t)' = g /\ OthersStay(t) BY <1>1, <1>2, <1>3, NewTop
<1>5. CallSound(Top(t))' BY <1>1, <1>3, <1>4 DEF CallSound
<1>6. CallsCurrent' BY <1>1, <1>4, <1>5, OthersCalls
<1> QED BY <1>1, <1>3, <1>4, <1>6

\* A registration is refused,
LEMMA SoundRefused ==
  ASSUME ClientInv, SessionInv, NEW t \in Thread, Write(t), Top(t).kind = "register",
         NEW reply \in Reply, reply.type \in Refused,
         Answers(t, chatserver, server[chatserver], reply)
  PROVE  SessionInv'
<1>1. /\ stack[t] # <<>> /\ returned[t] = <<>> /\ Top(t).at = "write" /\ lock.owner = t
      /\ ~Idle(stack[t], returned[t])
      /\ UNCHANGED <<published, faults, chatserver, main, hb, lock, member_name, member_id>>
      /\ UNCHANGED <<crashes, others>>
  BY WriteReaches
<1>2. /\ stack'[t] # <<>> /\ OthersStay(t) /\ returned'[t] = <<>>
      /\ Top(t)'.kind = "register" /\ Top(t)'.at = "read" /\ Top(t)'.reply = reply
      /\ CallsCurrent'
  BY AnswerRead
<1>3. server' = server BY DEF Answers, ClientInv, TypeOK, PoolTypeOK
<1>4. UNCHANGED poolVars BY <1>1, <1>3 DEF poolVars
<1>5. Unregistered(t) BY <1>1 DEF Unregistered
<1>6. Unregistered(t)' BY <1>2 DEF Unregistered
<1>7. ~JustRegistered(t) BY <1>1 DEF JustRegistered
<1>8. ~LockLost BY <1>1, NotLost
<1>9. stack'[t] # <<>> => CallSound(Top(t))' BY <1>2 DEF CallsCurrent
<1> QED BY <1>1, <1>2, <1>4, <1>5, <1>6, <1>7, <1>8, <1>9, QuietThread

\* or accepted: nobody else is going to register, so that this is the one
\* session more.
LEMMA SoundAccepted ==
  ASSUME ClientInv, SessionInv, NEW t \in Thread, Write(t), Top(t).kind = "register",
         NEW y, ProcessSound(y), y.up,
         NEW reply \in Reply, reply.type = "SUCC", NEW e, e.id = reply.id, e.name = Top(t).name,
         e.owner = "me", y.sessions = server[chatserver].sessions \cup {e},
         Answers(t, chatserver, y, reply)
  PROVE  SessionInv'
<1>1. /\ stack[t] # <<>> /\ returned[t] = <<>> /\ Top(t).at = "write" /\ Alive
      /\ chatserver \in Server /\ server[chatserver].up
      /\ ProcessSound(server[chatserver]) /\ CallSound(Top(t))
      /\ UNCHANGED <<published, faults, chatserver, main, hb, lock, member_name, member_id>>
  BY WriteReaches
<1>2. /\ stack'[t] # <<>> /\ OthersStay(t) /\ returned'[t] = <<>>
      /\ Top(t)'.kind = "register" /\ Top(t)'.at = "read" /\ Top(t)'.reply = reply
      /\ CallsCurrent'
  BY AnswerRead
<1>3. server' = [server EXCEPT ![chatserver] = y] BY DEF Answers
<1>4. /\ PoolSound' /\ chatserver = published
      /\ Mine(published) = Own(server[chatserver]) /\ Mine(published)' = Own(y)
      /\ Mine(chatserver)' = Own(y)
  BY <1>1, <1>3, OneServer
<1>5. Registering(t) /\ Unregistered(t) BY <1>1 DEF Registering, Unregistered
<1>6. \A u \in Thread \ {t} : ~Registering(u) /\ ~Unregistered(u)
  BY <1>1, <1>5, RegistersAlone
<1>7. \A u \in Thread : ~Unregistered(u)'
  <2>1. ~Unregistered(t)' BY <1>2 DEF Unregistered, Idle, Refused
  <2>2. \A u \in Thread \ {t} : ~Unregistered(u)' BY <1>1, <1>2, <1>6, OthersPhases
  <2> QED BY <2>1, <2>2
<1>8. Own(y) = Own(server[chatserver]) \cup {e} BY DEF Own
<1>9. Cardinality(Mine(published)) <= faults BY <1>5 DEF SessionInv, SessionsCounted
<1>10. IsFiniteSet(Own(server[chatserver])) /\ Cardinality(Own(server[chatserver])) \in Nat
  <2>1. published \in Server BY DEF ClientInv, TypeOK, PoolTypeOK
  <2>2. IsFiniteSet(Mine(published)) /\ Cardinality(Mine(published)) \in Nat
    BY <2>1, MineFinite DEF SessionInv
  <2> QED BY <1>4, <2>2
<1>11. Cardinality(Own(y)) <= 1 + faults
  <2>1. faults \in Nat BY DEF ClientInv, TypeOK, PoolTypeOK
  <2>2. Cardinality(Own(y)) = IF e \in Own(server[chatserver])
                              THEN Cardinality(Own(server[chatserver]))
                              ELSE Cardinality(Own(server[chatserver])) + 1
    BY <1>8, <1>10, FS_AddElement
  <2>3. Cardinality(Own(server[chatserver])) <= faults BY <1>4, <1>9
  <2> QED BY <1>10, <2>1, <2>2, <2>3
<1>12. SessionsCounted'
  <2>1. Cardinality(Mine(published))' <= 1 + faults' BY <1>1, <1>4, <1>11
  <2> QED BY <1>7, <2>1 DEF SessionsCounted
<1>13. ServerInUse' BY <1>1, <1>4 DEF ServerInUse
<1>14. JustRegistered(t)'
  <2>1. e \in Mine(chatserver)' BY <1>4, <1>8
  <2>2. e.name = member_name' BY <1>1 DEF CallSound
  <2>3. PICK id : id = reply.id OBVIOUS
  <2>4. Current(id)' BY <2>1, <2>2, <2>3 DEF Current
  <2>5. Top(t)'.reply.id = id BY <1>2, <2>3
  <2>6. Current(Top(t).reply.id)' BY <2>4, <2>5
  <2> QED BY <1>2, <2>6 DEF JustRegistered
<1>15. IdentitySound' BY <1>14 DEF IdentitySound
<1> QED BY <1>2, <1>4, <1>12, <1>13, <1>15 DEF SessionInv

\* Any other request leaves this user's sessions as they are, or moves them to
\* another room; a quit, which may end one, is the client's last.
LEMMA SoundRequest ==
  ASSUME ClientInv, SessionInv, NEW t \in Thread, Write(t), Top(t).kind # "register",
         NEW y, ProcessSound(y), y.up,
         Own(y) # {} => Own(server[chatserver]) # {},
         Cardinality(Own(y)) <= Cardinality(Own(server[chatserver])), Cardinality(Own(y)) \in Nat,
         \/ Top(t).kind = "quit"
         \/ \A e \in Own(server[chatserver]) : \E g \in Own(y) : g.id = e.id /\ g.name = e.name,
         NEW reply \in Reply, Answers(t, chatserver, y, reply)
  PROVE  SessionInv'
<1>1. /\ stack[t] # <<>> /\ returned[t] = <<>> /\ Top(t).at = "write" /\ lock.owner = t /\ Alive
      /\ ~Idle(stack[t], returned[t])
      /\ chatserver \in Server /\ server[chatserver].up
      /\ UNCHANGED <<published, faults, chatserver, main, hb, lock, member_name, member_id>>
  BY WriteReaches
<1>2. /\ stack'[t] # <<>> /\ OthersStay(t) /\ returned'[t] = <<>>
      /\ Top(t)'.kind = Top(t).kind /\ Top(t)'.at = "read"
      /\ CallsCurrent'
  BY AnswerRead
<1>3. server' = [server EXCEPT ![chatserver] = y] BY DEF Answers
<1>4. /\ PoolSound' /\ chatserver = published
      /\ Mine(published) = Own(server[chatserver]) /\ Mine(published)' = Own(y)
      /\ Mine(chatserver) = Own(server[chatserver]) /\ Mine(chatserver)' = Own(y)
  BY <1>1, <1>3, OneServer
<1>5. SessionsStay BY <1>1, <1>4 DEF SessionsStay
<1>6. ~Registering(t)' /\ ~Unregistered(t)'
  BY <1>2 DEF Registering, Unregistered, Idle
<1>7. ~Unregistered(t) /\ ~JustRegistered(t)
  BY <1>1 DEF Unregistered, JustRegistered
<1>8. CASE Top(t).kind = "quit"
  <2>1. Purpose(stack[t], returned[t]) = "quit" BY <1>1, <1>8, TopKind
  <2>2. main = "quitting" BY <1>1, <2>1, Purposes
  <2>3. main' # "starting" /\ main' \notin Active BY <1>1, <2>2 DEF Active
  <2>4. \A u \in Thread : Unregistered(u)' => Unregistered(u) BY <1>2, <1>6, <2>3, OthersPhases
  <2> QED BY <1>2, <1>4, <1>5, <2>3, <2>4, Leaving
<1>9. CASE Top(t).kind # "quit"
  <2>1. \A id : Current(id) => Current(id)' BY <1>1, <1>4, <1>9 DEF Current
  <2>2. ASSUME NEW u \in Thread
        PROVE  /\ Registering(u)' => Registering(u) \/ Unregistered(u)'
               /\ Unregistered(u)' <=> Unregistered(u)
               /\ JustRegistered(u) => JustRegistered(u)'
    <3>1. CASE u = t BY <1>6, <1>7, <3>1
    <3>2. CASE u # t BY <1>1, <1>2, <2>1, <3>2, OthersPhases
    <3> QED BY <3>1, <3>2
  <2>3. PhasesKept BY <2>2 DEF PhasesKept
  <2>4. ~LockLost BY <1>1, NotLost
  <2> QED BY <1>1, <1>2, <1>4, <1>5, <2>1, <2>3, <2>4, Quiet
<1> QED BY <1>8, <1>9

LEMMA SoundWrite == ASSUME ClientInv, SessionInv, NEW t \in Thread, Write(t) PROVE SessionInv'
<1> DEFINE f == Top(t)
           x == server[chatserver]
<1>1. /\ f \in Frame /\ f.conn[1] = chatserver /\ chatserver \in Server
      /\ x.up /\ x \in Process /\ ProcessSound(x)
  BY WriteReaches
<1>2. f.id \in Nat /\ f.name \in Name /\ f.room \in Room \cup {NoRoom} BY <1>1 DEF Frame
<1>3. CASE f.kind = "register"
  <2>1. Answers(t, chatserver, AfterRegister(x, f.name, "me"), RegisterReply(x, f.name))
    BY <1>1, <1>3 DEF Write, Answers
  <2>2. RegisterReply(x, f.name) \in Reply BY <1>1, <1>2, ServerFunctions
  <2>3. CASE Full(x) \/ NameUsed(x, f.name)
    <3>1. AfterRegister(x, f.name, "me") = x BY <2>3 DEF AfterRegister
    <3>2. RegisterReply(x, f.name).type \in Refused BY <2>3 DEF RegisterReply, Refused
    <3> QED BY <1>3, <2>1, <2>2, <3>1, <3>2, SoundRefused
  <2>4. CASE ~Full(x) /\ ~NameUsed(x, f.name)
    <3> DEFINE y == AfterRegister(x, f.name, "me")
               reply == RegisterReply(x, f.name)
    <3>1. "me" \in Owner BY DEF Owner
    <3>2. /\ ProcessSound(y) /\ y.up /\ reply = [type |-> "SUCC", id |-> x.draws + 1]
          /\ \E e : /\ e.id = x.draws + 1 /\ e.name = f.name /\ e.owner = "me"
                    /\ y.sessions = x.sessions \cup {e}
      BY <1>1, <1>2, <2>4, <3>1, RegisterAdds
    <3>3. PICK e : /\ e.id = x.draws + 1 /\ e.name = f.name /\ e.owner = "me"
                   /\ y.sessions = x.sessions \cup {e}
      BY <3>2
    <3> HIDE DEF y, reply
    <3>4. reply.type = "SUCC" /\ e.id = reply.id BY <3>2, <3>3
    <3>5. reply \in Reply /\ Answers(t, chatserver, y, reply) BY <2>1, <2>2 DEF y, reply
    <3> QED BY <1>3, <3>2, <3>3, <3>4, <3>5, SoundAccepted
  <2> QED BY <2>3, <2>4
<1>4. CASE f.kind # "register"
  <2>1. PICK type \in {"SUCC", "FAIL", "EMPTY"} :
          Answers(t, chatserver,
                  CASE f.kind = "quit"                    -> AfterQuit(x, f.id)
                    [] f.kind = "switch" /\ type = "SUCC" -> AfterSwitch(x, f.id, f.room)
                    [] OTHER                              -> x,
                  [type |-> type, id |-> f.id])
    BY <1>1, <1>4 DEF Write, Answers
  <2>2. [type |-> type, id |-> f.id] \in Reply BY <1>2 DEF Reply
  <2>3. CASE f.kind = "quit"
    <3>1. Answers(t, chatserver, AfterQuit(x, f.id), [type |-> type, id |-> f.id]) BY <2>1, <2>3
    <3>2. /\ ProcessSound(AfterQuit(x, f.id)) /\ AfterQuit(x, f.id).up
          /\ Own(AfterQuit(x, f.id)) # {} => Own(x) # {}
          /\ Cardinality(Own(AfterQuit(x, f.id))) <= Cardinality(Own(x))
          /\ Cardinality(Own(AfterQuit(x, f.id))) \in Nat
      BY <1>1, QuitEnds
    <3> QED BY <1>4, <2>2, <2>3, <3>1, <3>2, SoundRequest
  <2>4. CASE f.kind = "switch" /\ type = "SUCC"
    <3>1. Answers(t, chatserver, AfterSwitch(x, f.id, f.room), [type |-> type, id |-> f.id])
      BY <2>1, <2>4
    <3>2. /\ ProcessSound(AfterSwitch(x, f.id, f.room)) /\ AfterSwitch(x, f.id, f.room).up
          /\ Own(AfterSwitch(x, f.id, f.room)) # {} => Own(x) # {}
          /\ \A e \in Own(x) : \E g \in Own(AfterSwitch(x, f.id, f.room)) :
               g.id = e.id /\ g.name = e.name
          /\ Cardinality(Own(AfterSwitch(x, f.id, f.room))) <= Cardinality(Own(x))
          /\ Cardinality(Own(AfterSwitch(x, f.id, f.room))) \in Nat
      BY <1>1, <1>2, SwitchMoves
    <3> QED BY <1>4, <2>2, <3>1, <3>2, SoundRequest
  <2>5. CASE f.kind # "quit" /\ ~(f.kind = "switch" /\ type = "SUCC")
    <3>1. Answers(t, chatserver, x, [type |-> type, id |-> f.id]) BY <2>1, <2>5
    <3>2. Cardinality(Own(x)) \in Nat
      <4>1. Own(x) \in SUBSET x.sessions BY DEF Own
      <4>2. IsFiniteSet(Own(x)) BY <1>1, <4>1, FS_Subset DEF ProcessSound
      <4> QED BY <4>2, FS_CardinalityType
    <3>3. Cardinality(Own(x)) <= Cardinality(Own(x)) BY <3>2
    <3> QED BY <1>1, <1>4, <2>2, <3>1, <3>2, <3>3, SoundRequest
  <2> QED BY <2>3, <2>4, <2>5
<1> QED BY <1>3, <1>4

-----------------------------------------------------------------------------
(* The servers die and start, and other users come and go. *)

\* The threads' calls are sound as long as this user's sessions are none.
LEMMA WorldCalls ==
  ASSUME ClientInv, SessionInv, UNCHANGED clientVars,
         Mine(chatserver)' = {} \/ /\ Mine(chatserver)' = Mine(chatserver)
                                   /\ \A f : Connected(f) => Connected(f)'
  PROVE  CallsCurrent'
<1>1. UNCHANGED <<stack, chatserver, member_name>> BY DEF clientVars
<1> SUFFICES ASSUME NEW t \in Thread, stack'[t] # <<>> PROVE CallSound(Top(t))'
  BY DEF CallsCurrent
<1>2. stack[t] # <<>> /\ Top(t)' = Top(t) BY <1>1 DEF Top
<1>3. CallSound(Top(t)) BY <1>2 DEF SessionInv, CallsCurrent
<1>4. Top(t).kind = "register" => Top(t).name = member_name' BY <1>1, <1>3 DEF CallSound
<1>5. ASSUME Top(t).at = "write", ~Connected(Top(t))' PROVE Mine(chatserver)' = {}
  <2>1. CASE Mine(chatserver)' = {} BY <2>1
  <2>2. CASE /\ Mine(chatserver)' = Mine(chatserver)
             /\ \A f : Connected(f) => Connected(f)'
    <3>1. PICK f : f = Top(t) OBVIOUS
    <3>2. ~Connected(f)' BY <1>2, <1>5, <3>1
    <3>3. ~Connected(Top(t)) BY <2>2, <3>1, <3>2
    <3> QED BY <1>3, <1>5, <2>2, <3>3 DEF CallSound
  <2> QED BY <2>1, <2>2
<1>6. Top(t).at = "write" => Top(t).conn[1] = chatserver' BY <1>1, <1>3 DEF CallSound
<1> QED BY <1>2, <1>4, <1>5, <1>6 DEF CallSound

LEMMA SoundServerCrash ==
  ASSUME ClientInv, SessionInv, NEW s \in Server, ServerCrash(s) PROVE SessionInv'
<1> DEFINE y == [server[s] EXCEPT !.up = FALSE, !.sessions = {}]
<1>1. /\ server[s].up /\ UNCHANGED clientVars
      /\ UNCHANGED <<published, faults, chatserver>>
      /\ server' = [server EXCEPT ![s] = y]
  BY DEF ServerCrash, Crash, ClientInv, TypeOK, PoolTypeOK, clientVars
<1>2. ~y.up /\ y.sessions = {} BY DEF ClientInv, TypeOK, PoolTypeOK, Process
<1> HIDE DEF y
<1>3. s = published BY <1>1 DEF SessionInv, PoolSound
<1>4. server'[s] = y /\ \A u \in Server \ {s} : server'[u] = server[u]
  BY <1>1 DEF ClientInv, TypeOK, PoolTypeOK
<1>5. PoolSound'
  <2>1. ProcessSound(y) BY <1>2, FS_EmptySet DEF ProcessSound
  <2> QED BY <1>1, <1>2, <1>4, <2>1 DEF SessionInv, PoolSound
<1>6. \A u \in Server : server'[u].sessions = {}
  <2>1. \A u \in Server \ {s} : ~server[u].up BY <1>3 DEF SessionInv, PoolSound
  <2>2. \A u \in Server \ {s} : server[u].sessions = {}
    BY <2>1 DEF SessionInv, PoolSound, ProcessSound
  <2> QED BY <1>2, <1>4, <2>2
<1>7. published' \in Server /\ chatserver' \in Server /\ faults' \in Nat
  BY <1>1 DEF ClientInv, TypeOK, PoolTypeOK
<1>8. Mine(published)' = {} /\ Mine(chatserver)' = {} BY <1>6, <1>7 DEF Mine
<1> QED BY <1>1, <1>5, <1>7, <1>8, WorldCalls, NoSession

LEMMA SoundServerStart == ASSUME ClientInv, SessionInv, ServerStart PROVE SessionInv'
<1>1. PICK s \in Server : Restart(s) BY DEF ServerStart
<1> DEFINE y == [up |-> TRUE, run |-> server[s].run + 1, draws |-> 0, sessions |-> {}]
<1>2. /\ ~server[published].up /\ published' = s /\ server' = [server EXCEPT ![s] = y]
      /\ UNCHANGED clientVars /\ UNCHANGED <<faults, chatserver>>
  BY <1>1 DEF Restart, ServerStart, clientVars
<1>3. y.up /\ y.sessions = {} OBVIOUS
<1> HIDE DEF y
<1>4. server'[s] = y /\ \A u \in Server \ {s} : server'[u] = server[u]
  BY <1>2 DEF ClientInv, TypeOK, PoolTypeOK
<1>5. \A u \in Server : ~server[u].up BY <1>2 DEF SessionInv, PoolSound
<1>6. PoolSound'
  <2>1. ProcessSound(y) BY <1>3, FS_EmptySet DEF ProcessSound
  <2> QED BY <1>2, <1>4, <1>5, <2>1 DEF SessionInv, PoolSound
<1>7. \A u \in Server : server'[u].sessions = {}
  BY <1>3, <1>4, <1>5 DEF SessionInv, PoolSound, ProcessSound
<1>8. published' \in Server /\ chatserver' \in Server /\ faults' \in Nat
  BY <1>2 DEF ClientInv, TypeOK, PoolTypeOK
<1>9. Mine(published)' = {} /\ Mine(chatserver)' = {} BY <1>7, <1>8 DEF Mine
<1> QED BY <1>2, <1>6, <1>8, <1>9, WorldCalls, NoSession

\* Another user's session comes or goes.
LEMMA QuietOthers ==
  ASSUME ClientInv, SessionInv, UNCHANGED clientVars, UNCHANGED <<published, faults>>,
         NEW s \in Server, server[s].up, NEW y, ProcessSound(y), y.up, y.run = server[s].run,
         Own(y) = Own(server[s]), server' = [server EXCEPT ![s] = y]
  PROVE  SessionInv'
<1>1. UNCHANGED <<stack, returned, lock, main, hb, chatserver, member_name, member_id>>
  BY DEF clientVars
<1>2. /\ PoolSound' /\ server'[s] = y
      /\ Mine(published)' = Mine(published) /\ Mine(chatserver)' = Mine(chatserver)
  BY <1>1, OneServer
<1>3. \A u \in Server : server'[u].up = server[u].up /\ server'[u].run = server[u].run
  BY DEF ClientInv, TypeOK, PoolTypeOK
<1>4. CallsCurrent'
  <2> SUFFICES ASSUME NEW t \in Thread, stack'[t] # <<>> PROVE CallSound(Top(t))'
    BY DEF CallsCurrent
  <2>1. stack[t] # <<>> /\ Top(t)' = Top(t) BY <1>1 DEF Top
  <2>2. CallSound(Top(t)) BY <2>1 DEF SessionInv, CallsCurrent
  <2>3. Top(t).at = "write" => (Connected(Top(t))' <=> Connected(Top(t)))
    <3>1. Top(t).at = "write" => Top(t).conn[1] \in Server
      BY <2>1, TopOf DEF FrameSound
    <3> QED BY <1>3, <2>1, <3>1 DEF Connected
  <2> QED BY <1>1, <1>2, <2>1, <2>2, <2>3 DEF CallSound
<1>5. SessionsStay
  <2>1. Cardinality(Mine(published)) \in Nat
    BY MineFinite DEF SessionInv, ClientInv, TypeOK, PoolTypeOK
  <2> QED BY <1>1, <1>2, <2>1 DEF SessionsStay
<1>6. \A id : Current(id) => Current(id)' BY <1>1, <1>2 DEF Current
<1>7. PhasesKept
  <2> SUFFICES ASSUME NEW u \in Thread
               PROVE  /\ Registering(u)' => Registering(u) \/ Unregistered(u)'
                      /\ Unregistered(u)' <=> Unregistered(u)
                      /\ JustRegistered(u) => JustRegistered(u)'
    BY DEF PhasesKept
  <2>1. Top(u)' = Top(u) /\ Result(u)' = Result(u) BY <1>1 DEF Top, Result
  <2>2. Registering(u)' <=> Registering(u) BY <1>1, <2>1 DEF Registering
  <2>3. Unregistered(u)' <=> Unregistered(u) BY <1>1, <2>1 DEF Unregistered
  <2>4. Current(Top(u).reply.id) => Current(Top(u).reply.id)' BY <1>6, <2>1
  <2>5. Current(Result(u).reply.id) => Current(Result(u).reply.id)' BY <1>6, <2>1
  <2>6. JustRegistered(u) => JustRegistered(u)' BY <1>1, <2>1, <2>4, <2>5 DEF JustRegistered
  <2> QED BY <2>2, <2>3, <2>6
<1>8. LockLost' <=> LockLost BY <1>1 DEF LockLost
<1> QED BY <1>1, <1>2, <1>4, <1>5, <1>6, <1>7, <1>8, Quiet

LEMMA SoundOtherUser == ASSUME ClientInv, SessionInv, OtherUser PROVE SessionInv'
<1>1. PICK s \in Server : OtherQuits(s) \/ \E name \in OtherName : OtherRegisters(s, name)
  BY DEF OtherUser
<1>2. UNCHANGED clientVars BY DEF OtherUser
<1>3. server[s] \in Process /\ ProcessSound(server[s])
  BY DEF ClientInv, TypeOK, PoolTypeOK, SessionInv, PoolSound
<1>4. CASE OtherQuits(s)
  <2>1. PICK e \in server[s].sessions :
          e.owner = "other" /\ server' = [server EXCEPT ![s] = AfterQuit(@, e.id)]
    BY <1>4 DEF OtherQuits
  <2>2. server' = [server EXCEPT ![s] = AfterQuit(server[s], e.id)] BY <2>1
  <2>3. server[s].up BY <1>3, <2>1 DEF ProcessSound
  <2> DEFINE y == AfterQuit(server[s], e.id)
  <2>4. /\ ProcessSound(y) /\ y.up /\ y.sessions = {g \in server[s].sessions : g.id # e.id}
    BY <1>3, <2>3, QuitEnds
  <2>5. y.run = server[s].run BY <1>3 DEF AfterQuit, Process
  <2>6. \A g \in server[s].sessions : g.id = e.id => g = e BY <1>3, <2>1 DEF ProcessSound
  <2> HIDE DEF y
  <2>7. Own(y) = Own(server[s]) BY <2>1, <2>4, <2>6 DEF Own
  <2>8. UNCHANGED <<published, faults>> BY <1>4 DEF OtherQuits
  <2>9. server' = [server EXCEPT ![s] = y] BY <2>2 DEF y
  <2> QED BY <1>2, <2>3, <2>4, <2>5, <2>7, <2>8, <2>9, QuietOthers
<1>5. ASSUME NEW name \in OtherName, OtherRegisters(s, name) PROVE SessionInv'
  <2> DEFINE y == AfterRegister(server[s], name, "other")
  <2>1. /\ server[s].up /\ ~Full(server[s]) /\ ~NameUsed(server[s], name)
        /\ UNCHANGED <<published, faults>>
    BY <1>5 DEF OtherRegisters
  <2>2. server' = [server EXCEPT ![s] = y] BY <1>5 DEF OtherRegisters
  <2>3. name \in Name /\ "other" \in Owner BY PoolAssumption DEF Name, Owner
  <2>4. /\ ProcessSound(y) /\ y.up
        /\ \E e : e.owner = "other" /\ y.sessions = server[s].sessions \cup {e}
    BY <1>3, <2>1, <2>3, RegisterAdds
  <2>5. y.run = server[s].run BY <1>3 DEF AfterRegister, Process
  <2> HIDE DEF y
  <2>6. Own(y) = Own(server[s]) BY <2>4 DEF Own
  <2> QED BY <1>2, <2>1, <2>2, <2>4, <2>5, <2>6, QuietOthers
<1> QED BY <1>1, <1>4, <1>5

-----------------------------------------------------------------------------
LEMMA InitSession == Init => SessionInv
<1> SUFFICES ASSUME Init PROVE SessionInv OBVIOUS
<1>1. ClientInv BY InitClient
<1>2. /\ server = [s \in Server |-> [up |-> s = 1, run |-> IF s = 1 THEN 1 ELSE 0,
                                     draws |-> 0, sessions |-> {}]]
      /\ published = 1 /\ faults = 0 /\ chatserver = published
      /\ stack = [t \in Thread |-> <<>>]
  BY DEF Init, PoolInit
<1>3. \A s \in Server : server[s].sessions = {} /\ (server[s].up => s = published)
  BY <1>2
<1>4. PoolSound BY <1>3, FS_EmptySet DEF PoolSound, ProcessSound
<1>5. Mine(published) = {} /\ Mine(chatserver) = {}
  BY <1>1, <1>3 DEF Mine, ClientInv, TypeOK, PoolTypeOK
<1>6. CallsCurrent BY <1>2 DEF CallsCurrent
<1>7. Cardinality(Mine(published)) = 0 BY <1>5, FS_EmptySet
<1>8. SessionsCounted BY <1>2, <1>7 DEF SessionsCounted
<1>9. IdentitySound BY <1>5 DEF IdentitySound
<1>10. ServerInUse BY <1>5 DEF ServerInUse
<1> QED BY <1>4, <1>6, <1>8, <1>9, <1>10 DEF SessionInv

LEMMA SessionStep == ClientInv /\ SessionInv /\ [Next]_vars => SessionInv'
<1> SUFFICES ASSUME ClientInv, SessionInv, [Next]_vars PROVE SessionInv' OBVIOUS
<1>1. ASSUME NEW t \in Thread, Lock(t) \/ SenderStep(t) PROVE SessionInv'
  BY <1>1, QuietLock, SoundConnect, SoundWrite, SoundWriteToTheDead, QuietReturn, SoundRefresh,
     QuietRefreshCrash, SoundReRegisterAgain, SoundReRegistered, QuietRejoined DEF SenderStep
<1>2. CASE MainStep BY <1>2, SoundStartUp, SoundStarted, QuietMain DEF MainStep
<1>3. CASE HbStep BY <1>3, QuietBeat, SoundHbGone DEF HbStep
<1>4. CASE User BY <1>4, QuietQuitCancel, QuietMain DEF User
<1>5. CASE (\E s \in Server : ServerCrash(s)) \/ ServerStart \/ OtherUser
  BY <1>5, SoundServerCrash, SoundServerStart, SoundOtherUser
<1>6. CASE UNCHANGED vars
  <2>1. UNCHANGED clientVars /\ UNCHANGED <<server, published, faults>>
    BY <1>6 DEF vars, poolVars
  <2>2. UNCHANGED <<stack, returned, lock, main, hb, chatserver, member_name, member_id>>
    BY <2>1 DEF clientVars
  <2>3. "main" \in Thread /\ OthersStay("main") BY <2>2 DEF Thread, OthersStay
  <2>4. UNCHANGED poolVars BY <1>6 DEF vars
  <2>5. Top("main")' = Top("main") /\ Result("main")' = Result("main") BY <2>2 DEF Top, Result
  <2>6. stack'["main"] # <<>> => CallSound(Top("main"))'
    <3>1. \A f : CallSound(f)' <=> CallSound(f)
      BY <2>1, <2>2 DEF CallSound, Connected, Mine
    <3> QED BY <2>2, <2>3, <2>5, <3>1 DEF SessionInv, CallsCurrent
  <2>7. Registering("main")' <=> Registering("main") BY <2>2, <2>5 DEF Registering
  <2>8. Unregistered("main")' <=> Unregistered("main") BY <2>2, <2>5 DEF Unregistered
  <2>9. JustRegistered("main") => JustRegistered("main")'
    <3>1. \A id : Current(id) => Current(id)' BY <2>2, <2>4, WorldStays
    <3>2. Current(Top("main").reply.id) => Current(Top("main").reply.id)' BY <2>5, <3>1
    <3>3. Current(Result("main").reply.id) => Current(Result("main").reply.id)' BY <2>5, <3>1
    <3> QED BY <2>2, <2>5, <3>2, <3>3 DEF JustRegistered
  <2>10. LockLost' <=> LockLost BY <2>2 DEF LockLost
  <2> QED BY <2>2, <2>3, <2>4, <2>6, <2>7, <2>8, <2>9, <2>10, QuietThread
<1> QED BY <1>1, <1>2, <1>3, <1>4, <1>5, <1>6 DEF Next

\* Where this user's sessions are, who is going to register, and whose id the
\* client goes by, through every failover.
THEOREM SessionsInvariant == Spec => []SessionInv
<1>1. Init /\ [][Next]_vars => []ClientInv BY InitClient, ClientStep, PTL
<1>2. Init /\ [][Next]_vars => []SessionInv BY <1>1, InitSession, SessionStep, PTL
<1> QED BY <1>2, PTL DEF Spec

\* Between requests the id and the name the client goes by are those of a
\* session of its own (client_core.c, re_register_func of
\* client_to_server_sender.c), whatever failed and whoever noticed it.
THEOREM IdentityCorrect == Spec => []IdIsCurrent
<1>1. ClientInv /\ SessionInv => IdIsCurrent
  <2> SUFFICES ASSUME ClientInv, SessionInv, lock.owner = NoThread,
                      main \in {"prompt", "requesting", "joining"}, Mine(chatserver) # {}
               PROVE  \E e \in Mine(chatserver) : e.id = member_id /\ e.name = member_name
    BY DEF IdIsCurrent
  <2>0. NoThread \notin Thread BY ClientAssumption DEF Thread
  <2>1. ASSUME main \in Active PROVE Current(member_id)
    <3>1. Alive BY <2>1 DEF Active, Alive
    <3>2. \A t \in Thread : ~Registering(t) /\ ~Unregistered(t)
      BY <2>0, <3>1, RegistersAlone
    <3>3. \A t \in Thread : ~JustRegistered(t) BY <3>2 DEF JustRegistered, Registering
    <3>4. ~LockLost BY <2>0 DEF LockLost, Thread
    <3> QED BY <2>1, <3>2, <3>3, <3>4 DEF SessionInv, IdentitySound
  <2>2. Current(member_id) BY <2>1 DEF Active
  <2> QED BY <2>2 DEF Current
<1> QED BY <1>1, ClientInvariant, SessionsInvariant, PTL

\* The user has one session in all, and at most one more for every connection
\* that failed although the server was up: of two threads that notice a failure
\* the second finds the registration of the first (client_to_server_sender.c).
THEOREM OneSessionCorrect == Spec => []OneSession
<1>1. ClientInv /\ SessionInv => OneSession
  <2> SUFFICES ASSUME ClientInv, SessionInv PROVE OneSession OBVIOUS
  <2> DEFINE M == Mine(published)
             A == UNION {{s} \X Mine(s) : s \in Server}
             b == [e \in M |-> <<published, e>>]
  <2>1. \A s \in Server : Mine(s) # {} => s = published
    BY DEF Mine, SessionInv, PoolSound, ProcessSound
  <2>2. published \in Server BY DEF ClientInv, TypeOK, PoolTypeOK
  <2>3. IsFiniteSet(M) /\ Cardinality(M) \in Nat BY <2>2, MineFinite DEF SessionInv
  <2>4. A = {published} \X M
    <3>1. \A s \in Server : {s} \X Mine(s) \subseteq {published} \X M BY <2>1
    <3>2. A \subseteq {published} \X M BY <3>1, Zenon
    <3>3. {published} \X M \subseteq A BY <2>2, Zenon
    <3> QED BY <3>2, <3>3, Zenon
  <2>5. b \in Surjection(M, {published} \X M)
    <3>1. b \in [M -> {published} \X M] /\ \A e \in M : b[e] = <<published, e>> OBVIOUS
    <3>2. \A p \in {published} \X M : p = <<published, p[2]>> /\ p[2] \in M OBVIOUS
    <3> HIDE DEF b
    <3> QED BY <3>1, <3>2 DEF Surjection
  <2>6. IsFiniteSet(A) /\ Cardinality(A) <= Cardinality(M)
    BY <2>3, <2>4, <2>5, FS_Surjection
  <2>7. Cardinality(A) \in Nat BY <2>6, FS_CardinalityType
  <2>8. Cardinality(M) <= 1 + faults /\ faults \in Nat
    BY DEF SessionInv, SessionsCounted, ClientInv, TypeOK, PoolTypeOK
  <2>9. Cardinality(A) <= 1 + faults BY <2>3, <2>6, <2>7, <2>8
  <2> QED BY <2>9 DEF OneSession
<1> QED BY <1>1, ClientInvariant, SessionsInvariant, PTL
=============================================================================
