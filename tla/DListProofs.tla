---------------------------- MODULE DListProofs ----------------------------
(***************************************************************************)
(* What the list operations of DList do to a list, for any set of nodes.    *)
(* A sound list is one that some enumeration q of its nodes orders; each    *)
(* lemma builds the enumeration of the list after the operation.            *)
(***************************************************************************)
EXTENDS DList, FiniteSetTheorems, WellFoundedInduction, TLAPS

\* Splicing a node in or out yields a list record: register, remove_member and
\* the room switch store nothing but nodes and NULL in the links.
LEMMA UnlinkType ==
  ASSUME NEW L \in DListType, NEW m \in Member
  PROVE  Unlink(L, m) \in DListType
BY DEF DListType, Unlink, SetField, MemberPtr

\* The same of the links that are set to NULL.
LEMMA ClearLinksType ==
  ASSUME NEW L \in DListType, NEW m \in Member
  PROVE  ClearLinks(L, m) \in DListType
BY DEF DListType, ClearLinks, MemberPtr

\* The same of the append at the tail.
LEMMA LinkTailType ==
  ASSUME NEW L \in DListType, NEW m \in Member
  PROVE  LinkTail(L, m) \in DListType
BY DEF DListType, LinkTail, MemberPtr

\* A set of nodes is finite, and counts like one.
LEMMA NodesCount ==
  ASSUME NEW S \in SUBSET Member
  PROVE  /\ IsFiniteSet(S)
         /\ Cardinality(S) \in Nat
         /\ Cardinality(S) = 0 <=> S = {}
         /\ \A m \in Member \ S : Cardinality(S \cup {m}) = Cardinality(S) + 1
         /\ \A m \in S : Cardinality(S \ {m}) = Cardinality(S) - 1
<1>1. IsFiniteSet(S) BY MemberFinite, FS_Subset
<1>2. Cardinality(S) \in Nat BY <1>1, FS_CardinalityType
<1>3. Cardinality(S) = 0 <=> S = {} BY <1>1, FS_EmptySet
<1>4. \A m \in Member \ S : Cardinality(S \cup {m}) = Cardinality(S) + 1
  BY <1>1, FS_AddElement
<1>5. \A m \in S : Cardinality(S \ {m}) = Cardinality(S) - 1
  BY <1>1, FS_RemoveElement
<1> QED BY <1>1, <1>2, <1>3, <1>4, <1>5

\* The empty list is sound (init_server, a new room).
LEMMA EmptySound ==
  ASSUME NEW L, L.head = NULL, L.tail = NULL
  PROVE  Ordered({}, L)
<1>1. Cardinality({}) = 0 BY FS_EmptySet
<1> DEFINE q == [i \in 1..0 |-> NULL]
<1>2. q \in [1..Cardinality({}) -> {}] BY <1>1
<1>3. Orders(q, {}, L) BY <1>1, <1>2 DEF Orders, Threads
<1> QED BY <1>2, <1>3 DEF Ordered

\* Soundness looks at the ends of the list and at the links of its own nodes.
LEMMA OrdersFrame ==
  ASSUME NEW S, NEW L, NEW K, NEW q \in [1..Cardinality(S) -> S], Orders(q, S, L),
         K.head = L.head, K.tail = L.tail,
         \A x \in S : K.next[x] = L.next[x] /\ K.prev[x] = L.prev[x]
  PROVE  Orders(q, S, K)
BY DEF Orders, Threads

LEMMA OrderedFrame ==
  ASSUME NEW S, NEW L, NEW K, Ordered(S, L),
         K.head = L.head, K.tail = L.tail,
         \A x \in S : K.next[x] = L.next[x] /\ K.prev[x] = L.prev[x]
  PROVE  Ordered(S, K)
<1>1. PICK q \in [1..Cardinality(S) -> S] : Orders(q, S, L) BY DEF Ordered
<1>2. Orders(q, S, K) BY <1>1, OrdersFrame
<1> QED BY <1>1, <1>2 DEF Ordered

\* An enumeration of n nodes with m after the last; one without the k-th; and one
\* without m, if m is in it.
Extended(q, n, m) == [i \in 1..(n + 1) |-> IF i = n + 1 THEN m ELSE q[i]]
Skipped(q, n, k)  == [i \in 1..(n - 1) |-> IF i < k THEN q[i] ELSE q[i + 1]]
Dropped(q, n, m)  == IF \E k \in 1..n : q[k] = m
                     THEN Skipped(q, n, CHOOSE k \in 1..n : q[k] = m) ELSE q

\* A node that is appended becomes the last one of a sound list
\* (process_register_request, the second half of the room switch).
LEMMA LinkTailOrders ==
  ASSUME NEW S \in SUBSET Member, NEW L \in DListType,
         NEW q \in [1..Cardinality(S) -> S], Orders(q, S, L), NEW m \in Member \ S
  PROVE  /\ Extended(q, Cardinality(S), m) \in [1..Cardinality(S \cup {m}) -> S \cup {m}]
         /\ Orders(Extended(q, Cardinality(S), m), S \cup {m}, LinkTail(ClearLinks(L, m), m))
<1> DEFINE n == Cardinality(S)
           T == S \cup {m}
           K == ClearLinks(L, m)
           M == LinkTail(K, m)
<1>1. q \in [1..n -> S] /\ Orders(q, S, L) OBVIOUS
<1>2. n \in Nat /\ Cardinality(T) = n + 1 /\ (n = 0 <=> S = {}) BY NodesCount
<1>3. /\ K.head = L.head /\ K.tail = L.tail
      /\ K.next = [L.next EXCEPT ![m] = NULL]
      /\ K.prev = [L.prev EXCEPT ![m] = NULL]
  BY DEF ClearLinks, DListType
<1>4. K \in DListType BY ClearLinksType
<1> DEFINE p == [i \in 1..(n + 1) |-> IF i = n + 1 THEN m ELSE q[i]]
<1>5. p \in [1..(n + 1) -> T] BY <1>2
<1>6. (\A x \in T : \E i \in 1..(n + 1) : p[i] = x) /\ (\A i, j \in 1..(n + 1) : p[i] = p[j] => i = j)
  <2>1. (\A x \in S : \E i \in 1..n : q[i] = x) /\ (\A i, j \in 1..n : q[i] = q[j] => i = j)
    BY DEF Orders, Threads
  <2>2. p[n + 1] = m /\ \A i \in 1..n : p[i] = q[i] /\ q[i] # m BY <1>2
  <2>3. ASSUME NEW x \in T PROVE \E i \in 1..(n + 1) : p[i] = x
    <3>1. CASE x = m BY <3>1, <2>2, <1>2
    <3>2. CASE x # m BY <3>2, <2>1, <2>2, <1>2
    <3> QED BY <3>1, <3>2
  <2> HIDE DEF p
  <2>4. \A i, j \in 1..(n + 1) : p[i] = p[j] => i = j BY <2>1, <2>2, <1>2
  <2> QED BY <2>3, <2>4
<1>7. /\ M.head = p[1]
      /\ M.tail = p[n + 1]
      /\ \A i \in 1..(n + 1) : M.next[p[i]] = IF i = n + 1 THEN NULL ELSE p[i + 1]
      /\ \A i \in 1..(n + 1) : M.prev[p[i]] = IF i = 1 THEN NULL ELSE p[i - 1]
  <2>1. CASE n = 0
    <3>1. L.head = NULL BY <1>1, <2>1 DEF Orders, Threads
    <3>2. M.head = m /\ M.tail = m /\ M.next = K.next /\ M.prev = K.prev
      BY <3>1, <1>3, <1>4 DEF LinkTail, DListType
    <3> QED BY <3>2, <2>1, <1>3 DEF DListType
  <2>2. CASE n # 0
    <3>1. L.head = q[1] /\ L.head # NULL /\ L.tail = q[n] /\ q[n] \in S
      BY <1>1, <1>2, <2>2, NullIsNoMember DEF Orders, Threads
    <3>2. /\ M.head = L.head /\ M.tail = m
          /\ M.next = [K.next EXCEPT ![L.tail] = m]
          /\ M.prev = [K.prev EXCEPT ![m] = L.tail]
      BY <3>1, <1>3, <1>4 DEF LinkTail, DListType
    <3>3. \A x \in Member : /\ M.next[x] = IF x = q[n] THEN m ELSE IF x = m THEN NULL ELSE L.next[x]
                            /\ M.prev[x] = IF x = m THEN q[n] ELSE L.prev[x]
      BY <3>1, <3>2, <1>3 DEF DListType
    <3>4. \A i \in 1..n : q[i] \in Member /\ q[i] # m /\ (q[i] = q[n] => i = n)
      BY <1>1, <1>2, <2>2 DEF Orders, Threads
    <3>5. \A i \in 1..n : /\ L.next[q[i]] = IF i = n THEN NULL ELSE q[i + 1]
                          /\ L.prev[q[i]] = IF i = 1 THEN NULL ELSE q[i - 1]
      BY <1>1 DEF Orders, Threads
    <3>6. \A i \in 1..(n + 1) : M.next[p[i]] = IF i = n + 1 THEN NULL ELSE p[i + 1]
      BY <3>3, <3>4, <3>5, <1>2, <2>2
    <3>7. \A i \in 1..(n + 1) : M.prev[p[i]] = IF i = 1 THEN NULL ELSE p[i - 1]
      <4>1. \A i \in 1..n : M.prev[p[i]] = IF i = 1 THEN NULL ELSE p[i - 1]
        BY <3>3, <3>4, <3>5, <1>2, <2>2
      <4>2. M.prev[p[n + 1]] = q[n] /\ p[n] = q[n] BY <3>3, <1>2, <2>2
      <4> HIDE DEF p, M
      <4>3. M.prev[p[n + 1]] = IF n + 1 = 1 THEN NULL ELSE p[(n + 1) - 1]
        BY <4>2, <1>2, <2>2
      <4>4. \A i \in 1..(n + 1) : i \in 1..n \/ i = n + 1 BY <1>2
      <4> QED BY <4>1, <4>3, <4>4
    <3> QED BY <3>1, <3>2, <3>6, <3>7, <1>2, <2>2
  <2> QED BY <2>1, <2>2
<1> HIDE DEF p, T, M, n
<1>8. Orders(p, T, M) BY <1>2, <1>5, <1>6, <1>7 DEF Orders, Threads
<1>9. Extended(q, n, m) = p BY DEF Extended, p
<1> QED BY <1>2, <1>5, <1>8, <1>9 DEF T, M, n

LEMMA LinkTailSound ==
  ASSUME NEW S \in SUBSET Member, NEW L \in DListType, Ordered(S, L),
         NEW m \in Member \ S
  PROVE  Ordered(S \cup {m}, LinkTail(ClearLinks(L, m), m))
<1>1. PICK q \in [1..Cardinality(S) -> S] : Orders(q, S, L) BY DEF Ordered
<1> QED BY <1>1, LinkTailOrders DEF Ordered

\* A node that is unlinked leaves a sound list of the others
\* (remove_member, the first half of the room switch).
LEMMA UnlinkOrders ==
  ASSUME NEW S \in SUBSET Member, NEW L \in DListType,
         NEW q \in [1..Cardinality(S) -> S], Orders(q, S, L),
         NEW k \in 1..Cardinality(S), NEW m, q[k] = m
  PROVE  /\ Skipped(q, Cardinality(S), k) \in [1..Cardinality(S \ {m}) -> S \ {m}]
         /\ Orders(Skipped(q, Cardinality(S), k), S \ {m}, Unlink(L, m))
<1> DEFINE n == Cardinality(S)
           T == S \ {m}
           M == Unlink(L, m)
<1>1. q \in [1..n -> S] /\ Orders(q, S, L) OBVIOUS
<1>0. m \in S OBVIOUS
<1>2. n \in Nat \ {0} /\ Cardinality(T) = n - 1 BY <1>0, NodesCount
<1>3. k \in 1..n /\ q[k] = m OBVIOUS
<1>4. \A i, j \in 1..n : q[i] = q[j] => i = j BY <1>1 DEF Orders, Threads
<1>5. \A i \in 1..n : q[i] \in Member /\ q[i] # NULL BY <1>1, NullIsNoMember
<1>6. \A i \in 1..n : /\ L.next[q[i]] = IF i = n THEN NULL ELSE q[i + 1]
                      /\ L.prev[q[i]] = IF i = 1 THEN NULL ELSE q[i - 1]
  BY <1>1 DEF Orders, Threads
<1>7. L.head = q[1] /\ L.tail = q[n] BY <1>1, <1>2 DEF Orders, Threads
<1> DEFINE p == [i \in 1..(n - 1) |-> IF i < k THEN q[i] ELSE q[i + 1]]
<1>8. p \in [1..(n - 1) -> T] BY <1>2, <1>3, <1>4
<1>9. \A x \in T : \E i \in 1..(n - 1) : p[i] = x
  <2> SUFFICES ASSUME NEW x \in T PROVE \E i \in 1..(n - 1) : p[i] = x OBVIOUS
  <2>1. PICK j \in 1..n : q[j] = x BY <1>1 DEF Orders, Threads
  <2>2. CASE j < k BY <2>1, <2>2, <1>2
  <2>3. CASE j > k
    <3>1. j - 1 \in 1..(n - 1) /\ p[j - 1] = x BY <2>1, <2>3, <1>2
    <3> QED BY <3>1
  <2> QED BY <2>1, <2>2, <2>3, <1>2, <1>3
<1>10. \A i, j \in 1..(n - 1) : p[i] = p[j] => i = j BY <1>2, <1>4
<1>11. /\ M.head = IF L.prev[m] = NULL THEN L.next[m] ELSE L.head
       /\ M.tail = IF L.next[m] = NULL THEN L.prev[m] ELSE L.tail
       /\ M.next = SetField(L.next, L.prev[m], L.next[m])
       /\ M.prev = SetField(L.prev, L.next[m], L.prev[m])
  BY DEF Unlink
<1>12. \A x \in Member :
         /\ M.next[x] = IF x = L.prev[m] THEN L.next[m] ELSE L.next[x]
         /\ M.prev[x] = IF x = L.next[m] THEN L.prev[m] ELSE L.prev[x]
  BY <1>11, NullIsNoMember DEF SetField, DListType
<1>13. /\ L.next[m] = IF k = n THEN NULL ELSE q[k + 1]
       /\ L.prev[m] = IF k = 1 THEN NULL ELSE q[k - 1]
  BY <1>3, <1>6
<1>14. M.head = IF n - 1 = 0 THEN NULL ELSE p[1]
  BY <1>2, <1>5, <1>7, <1>11, <1>13
<1>15. M.tail = IF n - 1 = 0 THEN NULL ELSE p[n - 1]
  BY <1>2, <1>5, <1>7, <1>11, <1>13
<1>16. \A i \in 1..(n - 1) : M.next[p[i]] = IF i = n - 1 THEN NULL ELSE p[i + 1]
  <2> SUFFICES ASSUME NEW i \in 1..(n - 1)
               PROVE  M.next[p[i]] = IF i = n - 1 THEN NULL ELSE p[i + 1]
    OBVIOUS
  <2>1. CASE i >= k
    <3>1. i + 1 \in 1..n /\ p[i] = q[i + 1] /\ q[i + 1] # L.prev[m]
      BY <2>1, <1>2, <1>3, <1>4, <1>5, <1>13
    <3>2. M.next[p[i]] = L.next[q[i + 1]] BY <3>1, <1>5, <1>12
    <3>3. L.next[q[i + 1]] = IF i + 1 = n THEN NULL ELSE q[i + 2] BY <3>1, <1>6
    <3> QED BY <3>2, <3>3, <2>1, <1>2
  <2>2. CASE i = k - 1
    <3>1. p[i] = q[i] /\ q[i] = L.prev[m] BY <2>2, <1>2, <1>13
    <3>2. M.next[p[i]] = L.next[m] BY <3>1, <1>2, <1>5, <1>12
    <3> QED BY <3>2, <2>2, <1>2, <1>13
  <2>3. CASE i < k - 1
    <3>1. p[i] = q[i] /\ q[i] # L.prev[m] /\ p[i + 1] = q[i + 1]
      BY <2>3, <1>2, <1>3, <1>4, <1>5, <1>13
    <3>2. M.next[p[i]] = L.next[q[i]] BY <3>1, <1>2, <1>5, <1>12
    <3> QED BY <3>1, <3>2, <2>3, <1>2, <1>6
  <2> QED BY <2>1, <2>2, <2>3, <1>2
<1>17. \A i \in 1..(n - 1) : M.prev[p[i]] = IF i = 1 THEN NULL ELSE p[i - 1]
  BY <1>2, <1>4, <1>5, <1>6, <1>12, <1>13
<1> HIDE DEF p, T, M, n
<1>18. Orders(p, T, M)
  BY <1>2, <1>8, <1>9, <1>10, <1>14, <1>15, <1>16, <1>17 DEF Orders, Threads
<1>19. Skipped(q, n, k) = p BY DEF Skipped, p
<1> QED BY <1>2, <1>8, <1>18, <1>19 DEF T, M, n

LEMMA UnlinkSound ==
  ASSUME NEW S \in SUBSET Member, NEW L \in DListType, Ordered(S, L),
         NEW m \in S
  PROVE  Ordered(S \ {m}, Unlink(L, m))
<1>1. PICK q \in [1..Cardinality(S) -> S] : Orders(q, S, L) BY DEF Ordered
<1>2. PICK k \in 1..Cardinality(S) : q[k] = m BY <1>1 DEF Orders, Threads
<1> QED BY <1>1, <1>2, UnlinkOrders DEF Ordered

\* Where a walk goes from a node of a sound list, and where it starts: to
\* another node of the list or to NULL.
LEMMA WalkStaysOnList ==
  ASSUME NEW S \in SUBSET Member, NEW L, Ordered(S, L)
  PROVE  /\ L.head \in S \cup {NULL}
         /\ L.head = NULL <=> S = {}
         /\ \A m \in S : L.next[m] \in (S \ {m}) \cup {NULL}
<1> DEFINE n == Cardinality(S)
<1>1. PICK q \in [1..n -> S] : Orders(q, S, L) BY DEF Ordered
<1>2. n \in Nat /\ (n = 0 <=> S = {}) BY NodesCount
<1>3. L.head = IF n = 0 THEN NULL ELSE q[1] BY <1>1 DEF Orders, Threads
<1>4. \A m \in S : L.next[m] \in (S \ {m}) \cup {NULL}
  <2> SUFFICES ASSUME NEW m \in S PROVE L.next[m] \in (S \ {m}) \cup {NULL} OBVIOUS
  <2>1. PICK i \in 1..n : q[i] = m BY <1>1 DEF Orders, Threads
  <2>2. L.next[m] = IF i = n THEN NULL ELSE q[i + 1] BY <1>1, <2>1 DEF Orders, Threads
  <2>3. i # n => i + 1 \in 1..n /\ q[i + 1] # q[i] BY <1>1, <1>2 DEF Orders, Threads
  <2> QED BY <2>1, <2>2, <2>3
<1> QED BY <1>1, <1>2, <1>3, <1>4, NullIsNoMember

\* remove_member and the free after it: m leaves, and its own links go blank.
LEMMA RemoveSound ==
  ASSUME NEW S \in SUBSET Member, NEW L \in DListType, Ordered(S, L), NEW m \in S
  PROVE  Ordered(S \ {m}, ClearLinks(Unlink(L, m), m))
<1> DEFINE K == Unlink(L, m)
<1>1. Ordered(S \ {m}, K) /\ K \in DListType BY UnlinkSound, UnlinkType
<1> HIDE DEF K
<1>2. /\ ClearLinks(K, m).head = K.head /\ ClearLinks(K, m).tail = K.tail
      /\ \A x \in S \ {m} : /\ ClearLinks(K, m).next[x] = K.next[x]
                              /\ ClearLinks(K, m).prev[x] = K.prev[x]
  BY <1>1 DEF ClearLinks, DListType
<1>3. Ordered(S \ {m}, ClearLinks(K, m)) BY <1>1, <1>2, OrderedFrame
<1> QED BY <1>3 DEF K

\* The same of the walk backwards.
LEMMA BackLinksStayOnList ==
  ASSUME NEW S \in SUBSET Member, NEW L, Ordered(S, L)
  PROVE  /\ L.tail \in S \cup {NULL}
         /\ \A m \in S : L.prev[m] \in S \cup {NULL}
<1> DEFINE n == Cardinality(S)
<1>1. PICK q \in [1..n -> S] : Orders(q, S, L) BY DEF Ordered
<1>2. n \in Nat BY NodesCount
<1>3. L.tail = IF n = 0 THEN NULL ELSE q[n] BY <1>1 DEF Orders
<1>4. \A m \in S : L.prev[m] \in S \cup {NULL}
  <2> SUFFICES ASSUME NEW m \in S PROVE L.prev[m] \in S \cup {NULL} OBVIOUS
  <2>1. PICK i \in 1..n : q[i] = m BY <1>1 DEF Orders, Threads
  <2>2. L.prev[m] = IF i = 1 THEN NULL ELSE q[i - 1] BY <1>1, <2>1 DEF Orders
  <2>3. i # 1 => i - 1 \in 1..n BY <1>2
  <2> QED BY <2>2, <2>3
<1> QED BY <1>1, <1>2, <1>3, <1>4

\* Unlinking does not touch the links of nodes that are not on the list: the
\* lists of the other rooms, which share the link fields.
LEMMA UnlinkFrame ==
  ASSUME NEW S \in SUBSET Member, NEW L \in DListType, Ordered(S, L), NEW m \in S,
         NEW x \in Member \ S
  PROVE  Unlink(L, m).next[x] = L.next[x] /\ Unlink(L, m).prev[x] = L.prev[x]
<1>1. L.prev[m] # x /\ L.next[m] # x BY WalkStaysOnList, BackLinksStayOnList, NullIsNoMember
<1> QED BY <1>1 DEF Unlink, SetField, DListType

\* Nor does an append.
LEMMA LinkTailFrame ==
  ASSUME NEW S \in SUBSET Member, NEW L \in DListType, Ordered(S, L),
         NEW m \in Member \ S, NEW x \in Member \ (S \cup {m})
  PROVE  /\ LinkTail(ClearLinks(L, m), m).next[x] = L.next[x]
         /\ LinkTail(ClearLinks(L, m), m).prev[x] = L.prev[x]
<1>1. L.tail # x BY BackLinksStayOnList, NullIsNoMember
<1> QED BY <1>1 DEF LinkTail, ClearLinks, DListType

-----------------------------------------------------------------------------
(* What a walk visits. *)

\* A set of numbers that is not empty has a least element: what holds of a number
\* whenever it holds of the one before holds of all, or there were a least one
\* of which it does not.
LEMMA LeastElement ==
  ASSUME NEW T \in SUBSET Nat, T # {}
  PROVE  \E x \in T : \A y \in T : x <= y
<1>1. PICK x \in T : \A y \in T : ~(<<y, x>> \in OpToRel(<, Nat))
  BY WFMin, NatLessThanWellFounded, Zenon
<1>2. \A y \in T : ~(y < x) BY <1>1, Zenon DEF OpToRel
<1> QED BY <1>2

\* A function that makes the steps of the walk is the walk.
LEMMA WalkIs ==
  ASSUME NEW next, NEW start, Cardinality(DOMAIN next) \in Nat, NEW w,
         w = [i \in 0..Cardinality(DOMAIN next) |->
                IF i = 0 THEN start
                ELSE IF w[i-1] = NULL THEN NULL ELSE next[w[i-1]]]
  PROVE  Walk(next, start) = w
<1> DEFINE n == Cardinality(DOMAIN next)
           Steps(f) == f = [i \in 0..n |-> IF i = 0 THEN start
                                           ELSE IF f[i-1] = NULL THEN NULL ELSE next[f[i-1]]]
           at == CHOOSE f : Steps(f)
           T == {i \in 0..n : at[i] # w[i]}
<1>1. Steps(w) OBVIOUS
<1>2. Steps(at) BY <1>1, Zenon
<1>3. Walk(next, start) = at BY Zenon DEF Walk
<1> HIDE DEF at
<1>4. T = {}
  <2> SUFFICES ASSUME T # {} PROVE FALSE OBVIOUS
  <2>1. T \in SUBSET Nat OBVIOUS
  <2>2. PICK i \in T : \A j \in T : i <= j BY <2>1, LeastElement
  <2>3. CASE i = 0 BY <2>3, <1>1, <1>2
  <2>4. CASE i # 0
    <3>1. i - 1 \in 0..n /\ i - 1 \notin T BY <2>2, <2>4
    <3>2. at[i-1] = w[i-1] BY <3>1
    <3> QED BY <3>2, <1>1, <1>2
  <2> QED BY <2>3, <2>4
<1>5. \A i \in 0..n : at[i] = w[i] BY <1>4
<1>6. at = w BY <1>1, <1>2, <1>5
<1> QED BY <1>3, <1>6

\* From start, n nodes in a row: each has a link to the next, the last has none.
Row(q, n, D, next, start) ==
  /\ q \in [1..n -> D]
  /\ start = IF n = 0 THEN NULL ELSE q[1]
  /\ \A i \in 1..n : next[q[i]] = IF i = n THEN NULL ELSE q[i + 1]

\* They are what a loop over the list visits.
LEMMA ChainIs ==
  ASSUME NEW D, IsFiniteSet(D), NULL \notin D, NEW next, DOMAIN next = D,
         NEW n \in Nat, n <= Cardinality(D), NEW q, NEW start, Row(q, n, D, next, start)
  PROVE  Chain(next, start) = q
<1> USE DEF Row
<1> DEFINE c == Cardinality(D)
           w == [i \in 0..c |-> IF i < n THEN q[i + 1] ELSE NULL]
           N == {j \in DOMAIN w : w[j] # NULL}
<1>1. c \in Nat BY FS_CardinalityType
<1>2. \A i \in 0..c : w[i] = IF i = 0 THEN start ELSE IF w[i-1] = NULL THEN NULL ELSE next[w[i-1]]
  <2> SUFFICES ASSUME NEW i \in 0..c
               PROVE  w[i] = IF i = 0 THEN start ELSE IF w[i-1] = NULL THEN NULL ELSE next[w[i-1]]
    OBVIOUS
  <2>1. CASE i = 0 BY <2>1
  <2>2. CASE i # 0 /\ i <= n
    <3>1. i - 1 \in 0..c /\ i \in 1..n /\ w[i-1] = q[i] /\ q[i] # NULL BY <2>2, <1>1
    <3>2. next[w[i-1]] = IF i = n THEN NULL ELSE q[i + 1] BY <3>1
    <3> QED BY <3>1, <3>2, <2>2
  <2>3. CASE i # 0 /\ i > n BY <2>3, <1>1
  <2> QED BY <2>1, <2>2, <2>3
<1>3. w = [i \in 0..c |-> IF i = 0 THEN start ELSE IF w[i-1] = NULL THEN NULL ELSE next[w[i-1]]]
  <2> DEFINE v == [i \in 0..c |-> IF i = 0 THEN start ELSE IF w[i-1] = NULL THEN NULL ELSE next[w[i-1]]]
  <2>1. DOMAIN w = 0..c /\ DOMAIN v = 0..c OBVIOUS
  <2>2. \A i \in 0..c : w[i] = v[i] BY <1>2
  <2> QED BY <2>1, <2>2
<1>4. Walk(next, start) = w
  <2> HIDE DEF w
  <2> QED BY <1>1, <1>3, WalkIs
<1>5. N = 0..(n - 1) BY <1>1
<1>6. Cardinality(N) = n
  <2> HIDE DEF N
  <2>1. Cardinality(0..(n - 1)) = n BY FS_Interval
  <2> QED BY <1>5, <2>1
<1>7. Chain(next, start) = [i \in 1..n |-> w[i-1]]
  <2> HIDE DEF w
  <2> QED BY <1>4, <1>6 DEF Chain
<1>8. \A i \in 1..n : w[i-1] = q[i] BY <1>1
<1> QED BY <1>7, <1>8

\* A loop over a sound list visits its nodes in the order of the enumeration,
\* and so there is one enumeration only.
LEMMA ChainOfThreads ==
  ASSUME NEW D, IsFiniteSet(D), NULL \notin D, NEW next, DOMAIN next = D,
         NEW S \in SUBSET D, NEW q \in [1..Cardinality(S) -> S], NEW head,
         Threads(q, S, head, next)
  PROVE  Chain(next, head) = q
<1> DEFINE n == Cardinality(S)
<1>1. IsFiniteSet(S) /\ n <= Cardinality(D) BY FS_Subset
<1>2. n \in Nat BY <1>1, FS_CardinalityType
<1>3. Row(q, n, D, next, head) BY DEF Threads, Row
<1> HIDE DEF n
<1> QED BY <1>1, <1>2, <1>3, ChainIs

\* A loop that starts at NULL visits nothing.
LEMMA ChainOfNull ==
  ASSUME NEW D, IsFiniteSet(D), NULL \notin D, NEW next, DOMAIN next = D
  PROVE  Chain(next, NULL) = <<>>
<1> DEFINE q == [i \in 1..0 |-> NULL]
<1>1. Row(q, 0, D, next, NULL) BY DEF Row
<1>2. 0 <= Cardinality(D) BY FS_CardinalityType
<1>3. q = <<>>
  <2>1. q \in Seq({NULL}) /\ Len(q) = 0 OBVIOUS
  <2> QED BY <2>1
<1> HIDE DEF q
<1>4. Chain(next, NULL) = q BY <1>1, <1>2, ChainIs
<1> QED BY <1>3, <1>4

\* The enumeration from its k-th node on, and a pointer c that stands there: on
\* the k-th node, or past the last.
From(q, n, k) == [i \in 1..(n - k + 1) |-> q[k + i - 1]]
At(c, q, n, k) == k \in 1..(n + 1) /\ c = IF k = n + 1 THEN NULL ELSE q[k]

\* A loop that goes on from there visits the rest.
LEMMA ChainFrom ==
  ASSUME NEW D, IsFiniteSet(D), NULL \notin D, NEW next, DOMAIN next = D,
         NEW S \in SUBSET D, NEW q \in [1..Cardinality(S) -> S], NEW head,
         Threads(q, S, head, next), NEW k, NEW c, At(c, q, Cardinality(S), k)
  PROVE  Chain(next, c) = From(q, Cardinality(S), k)
<1> DEFINE n == Cardinality(S)
           l == n - k + 1
           p == From(q, n, k)
<1>1. IsFiniteSet(S) /\ n <= Cardinality(D) BY FS_Subset
<1>2. n \in Nat /\ Cardinality(D) \in Nat BY <1>1, FS_CardinalityType
<1>0. k \in 1..(n + 1) /\ c = IF k = n + 1 THEN NULL ELSE q[k] BY DEF At
<1>3. l \in Nat /\ l <= Cardinality(D) /\ (l = 0 <=> k = n + 1) BY <1>0, <1>1, <1>2
<1>4. p \in [1..l -> D] BY <1>0, <1>2 DEF From
<1>5. \A i \in 1..l : next[p[i]] = IF i = l THEN NULL ELSE p[i + 1]
  BY <1>0, <1>2 DEF Threads, From
<1>6. c = IF l = 0 THEN NULL ELSE p[1] BY <1>0, <1>2, <1>3 DEF From
<1> HIDE DEF p, l
<1>7. Row(p, l, D, next, c) BY <1>3, <1>4, <1>5, <1>6 DEF Row
<1>8. Chain(next, c) = p BY <1>3, <1>7, ChainIs
<1> QED BY <1>8 DEF p
=============================================================================
