------------------------------- MODULE DList -------------------------------
(***************************************************************************)
(* The doubly linked list that server_util.c writes out by hand wherever it *)
(* links or unlinks a struct member_type: the session list                  *)
(* (mem_list_head/mem_list_tail, next_member/prev_member) and the list of   *)
(* every room (member_list_head/member_list_tail, next_room_member/         *)
(* prev_room_member).  The two operations are pure functions on a list      *)
(* record, so that the three copies in the code share one set of lemmas.    *)
(***************************************************************************)
EXTENDS Naturals, FiniteSets, Sequences

CONSTANTS
  Member,   \* the addresses malloc can return for a struct member_type
  NULL      \* the null pointer

ASSUME NullIsNoMember == NULL \notin Member
ASSUME MemberFinite == IsFiniteSet(Member)

MemberPtr == Member \cup {NULL}

\* A list: the head and tail pointers and the links of all the nodes.
DListType == [head : MemberPtr, tail : MemberPtr,
              next : [Member -> MemberPtr], prev : [Member -> MemberPtr]]

EmptyList == [head |-> NULL, tail |-> NULL,
              next |-> [m \in Member |-> NULL], prev |-> [m \in Member |-> NULL]]

-----------------------------------------------------------------------------
\* p->field = v, where the code tests p against NULL first.
SetField(field, p, v) == IF p = NULL THEN field ELSE [field EXCEPT ![p] = v]

\* Mutated form of Unlink: the successor keeps its pointer to the node that left.
UnlinkKeepPrev(L, m) ==
  [head |-> IF L.prev[m] = NULL THEN L.next[m] ELSE L.head,
   tail |-> IF L.next[m] = NULL THEN L.prev[m] ELSE L.tail,
   next |-> SetField(L.next, L.prev[m], L.next[m]),
   prev |-> L.prev]

\* Take m out of the list; the links of m itself are left as they were.
Unlink(L, m) ==
  [head |-> IF L.prev[m] = NULL THEN L.next[m] ELSE L.head,
   tail |-> IF L.next[m] = NULL THEN L.prev[m] ELSE L.tail,
   next |-> SetField(L.next, L.prev[m], L.next[m]),
   prev |-> SetField(L.prev, L.next[m], L.prev[m])]

\* The links of m set to NULL: by bzero in a new object, by hand on a switch.
ClearLinks(L, m) ==
  [L EXCEPT !.next = [@ EXCEPT ![m] = NULL], !.prev = [@ EXCEPT ![m] = NULL]]

\* Append m, whose own links are NULL, after the tail.
LinkTail(L, m) ==
  IF L.head = NULL
  THEN [L EXCEPT !.head = m, !.tail = m]
  ELSE [L EXCEPT !.next = [@ EXCEPT ![L.tail] = m],
                 !.prev = [@ EXCEPT ![m] = L.tail],
                 !.tail = m]

-----------------------------------------------------------------------------
(***************************************************************************)
(* Reading a list: the nodes a loop "for (p = start; p; p = p->next)"       *)
(* visits, in order.  A loop over a corrupted list may not end; the walk is *)
(* cut one node after the longest list there can be, which no list without  *)
(* repetition reaches.                                                      *)
(***************************************************************************)
\* Where the walk is after so many steps; it stays at NULL.
Walk(next, start) ==
  LET at[i \in 0..Cardinality(DOMAIN next)] ==
        IF i = 0 THEN start
        ELSE IF at[i-1] = NULL THEN NULL ELSE next[at[i-1]]
  IN  at

Chain(next, start) ==
  LET at == Walk(next, start)
  IN  [i \in 1..Cardinality({j \in DOMAIN at : at[j] # NULL}) |-> at[i-1]]

SetOf(seq) == {seq[i] : i \in DOMAIN seq}

\* q enumerates S, each node once, in the order of a walk along next from head.
Threads(q, S, head, next) ==
  LET n == Cardinality(S)
  IN  /\ head = IF n = 0 THEN NULL ELSE q[1]
      /\ \A i \in 1..n : next[q[i]] = IF i = n THEN NULL ELSE q[i + 1]
      /\ q \in [1..n -> S]
      /\ \A x \in S : \E i \in 1..n : q[i] = x
      /\ \A i, j \in 1..n : q[i] = q[j] => i = j

\* And the tail and the links back agree with it.
Orders(q, S, L) ==
  LET n == Cardinality(S)
  IN  /\ Threads(q, S, L.head, L.next)
      /\ L.tail = IF n = 0 THEN NULL ELSE q[n]
      /\ \A i \in 1..n : L.prev[q[i]] = IF i = 1 THEN NULL ELSE q[i - 1]

\* L is a sound doubly linked list of exactly the nodes of S.
Ordered(S, L) == \E q \in [1..Cardinality(S) -> S] : Orders(q, S, L)
=============================================================================
