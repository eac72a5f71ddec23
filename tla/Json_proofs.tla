----------------------------- MODULE Json_proofs -----------------------------
(***************************************************************************)
(* Proofs about JsonNodes for any trees, calls, keys and bounds: type      *)
(* correctness, that nodes form a forest, that copies share nothing with   *)
(* what they were copied from, what the builders leave behind, and what an *)
(* append gives.  Then proofs about JsonText, for any text, key and path:  *)
(* the walk of the getters and the parser of nodes read the same, and the  *)
(* parser accepts exactly the values of the grammar.                       *)
(***************************************************************************)
EXTENDS JsonNodes, JsonText, FiniteSetTheorems, SequenceTheorems, TLAPS

NodeType == [type : NodeTypes, value : Scalars \cup {NoValue},
             children : Seq([key : Keys, node : Nat])]

\* The two halves of Forest, and CopiesAreSeparate, of any heap h whose
\* addresses below n are in use.
Nested(h, n) ==
    \A a \in Addresses : \A i \in DOMAIN h[a].children :
        h[a].children[i].node \in (a + 1) .. (n - 1)
OneParent(h) ==
    \A a, b \in Addresses :
        \A i \in DOMAIN h[a].children, k \in DOMAIN h[b].children :
            h[a].children[i].node = h[b].children[k].node => a = b /\ i = k
Separate(h, o) ==
    \A a \in Addresses : \A i \in DOMAIN h[a].children : o[h[a].children[i].node] = o[a]
Unused(h, x) ==
    \A a \in Addresses : \A i \in DOMAIN h[a].children : h[a].children[i].node # x

\* What a heap that is cloned has to be: closed, and a forest on S.
Clonable(h, S) ==
    /\ S \subseteq Nat /\ IsFiniteSet(S) /\ S # {}
    /\ \A b \in S : h[b] \in NodeType
    /\ \A b \in S : \A i \in DOMAIN h[b].children :
          h[b].children[i].node \in S /\ b < h[b].children[i].node
    /\ \A b, c \in S : \A i \in DOMAIN h[b].children, k \in DOMAIN h[c].children :
          h[b].children[i].node = h[c].children[k].node => b = c /\ i = k

\* The invariant of the heap.
HeapInv ==
    /\ heap \in [Addresses -> NodeType] /\ nextAddress \in 1 .. MaxNodes + 1
    /\ origin \in [Addresses -> Addresses \cup {Nil}]
    /\ Nested(heap, nextAddress) /\ OneParent(heap) /\ Separate(heap, origin)

-----------------------------------------------------------------------------
(* Clone.                                                                  *)

\* Clone gives every node an address of the new block, and keeps the order.
LEMMA PlaceInBlock ==
  ASSUME nextAddress \in Nat, NEW S \in SUBSET Nat, IsFiniteSet(S), NEW b \in S
  PROVE  /\ Cardinality(S) \in Nat
         /\ Place(S, b) \in nextAddress .. (nextAddress + Cardinality(S) - 1)
<1> DEFINE T == {x \in S : x < b}
<1>1. T \in SUBSET S /\ T # S
  OBVIOUS
<1>2. /\ IsFiniteSet(T) /\ Cardinality(T) <= Cardinality(S)
      /\ Cardinality(S) = Cardinality(T) => S = T
  BY <1>1, FS_Subset
<1>3. Cardinality(T) \in Nat /\ Cardinality(S) \in Nat
  BY <1>2, FS_CardinalityType
<1>4. Cardinality(T) < Cardinality(S)
  BY <1>1, <1>2, <1>3
<1>5. Place(S, b) = nextAddress + Cardinality(T)
  BY DEF Place
<1> HIDE DEF T
<1>6. QED
  BY <1>3, <1>4, <1>5

LEMMA PlaceKeepsOrder ==
  ASSUME nextAddress \in Nat, NEW S \in SUBSET Nat, IsFiniteSet(S),
         NEW b \in S, NEW c \in S, b < c
  PROVE  Place(S, b) < Place(S, c)
<1> DEFINE T == {x \in S : x < b}
           U == {x \in S : x < c}
<1>1. T \in SUBSET U /\ b \in U /\ b \notin T /\ U \in SUBSET S
  <2>1. b \in Nat /\ c \in Nat
    OBVIOUS
  <2>2. \A x \in S : x \in Nat /\ (x < b => x < c)
    BY <2>1
  <2>3. T \in SUBSET U /\ U \in SUBSET S
    BY <2>2, Zenon
  <2>4. b \in U /\ b \notin T
    BY <2>1
  <2>5. QED
    BY <2>3, <2>4
<1>2. IsFiniteSet(U)
  BY <1>1, FS_Subset
<1>3. /\ IsFiniteSet(T) /\ Cardinality(T) <= Cardinality(U)
      /\ Cardinality(U) = Cardinality(T) => U = T
  BY <1>1, <1>2, FS_Subset
<1>4. Cardinality(T) \in Nat /\ Cardinality(U) \in Nat
  BY <1>2, <1>3, FS_CardinalityType
<1>5. Cardinality(T) < Cardinality(U)
  BY <1>1, <1>3, <1>4
<1>6. Place(S, b) = nextAddress + Cardinality(T) /\ Place(S, c) = nextAddress + Cardinality(U)
  BY DEF Place
<1> HIDE DEF T, U
<1>7. QED
  BY <1>4, <1>5, <1>6

LEMMA PlaceIsInjective ==
  ASSUME nextAddress \in Nat, NEW S \in SUBSET Nat, IsFiniteSet(S),
         NEW b \in S, NEW c \in S, Place(S, b) = Place(S, c)
  PROVE  b = c
<1>1. Place(S, b) \in Nat /\ Place(S, c) \in Nat
  BY PlaceInBlock
<1>2. ~(b < c)
  BY <1>1, PlaceKeepsOrder
<1>3. ~(c < b)
  BY <1>1, PlaceKeepsOrder
<1>4. QED
  BY <1>2, <1>3

\* A node of the cloned heap is a copy in the new block or what it was.
LEMMA CloneNode ==
  ASSUME nextAddress \in Nat, NEW h, NEW S, Clonable(h, S), NEW a \in Addresses
  PROVE  \/ \E b \in S : a = Place(S, b) /\ Clone(h, S)[a] = Moved(h[b], S)
         \/ Clone(h, S)[a] = heap[a]
<1> DEFINE b == CHOOSE x \in S : Place(S, x) = a
<1>1. CASE \E x \in S : Place(S, x) = a
  <2>1. b \in S /\ Place(S, b) = a
    BY <1>1
  <2>2. Clone(h, S)[a] = Moved(h[b], S)
    BY <1>1 DEF Clone
  <2>3. QED
    BY <2>1, <2>2
<1>2. CASE ~(\E x \in S : Place(S, x) = a)
  BY <1>2 DEF Clone
<1>3. QED
  BY <1>1, <1>2

LEMMA MovedNode ==
  ASSUME nextAddress \in Nat, NEW h, NEW S, Clonable(h, S), NEW b \in S
  PROVE  /\ Moved(h[b], S) \in NodeType
         /\ DOMAIN Moved(h[b], S).children = DOMAIN h[b].children
         /\ \A i \in DOMAIN h[b].children :
               Moved(h[b], S).children[i].node = Place(S, h[b].children[i].node)
<1> DEFINE s == h[b].children
           t == [i \in DOMAIN s |-> [key |-> s[i].key, node |-> Place(S, s[i].node)]]
<1>1. h[b] \in NodeType /\ S \in SUBSET Nat /\ IsFiniteSet(S)
  BY DEF Clonable
<1>2. s \in Seq([key : Keys, node : Nat])
  BY <1>1 DEF NodeType
<1>3. \A i \in DOMAIN s : Place(S, s[i].node) \in Nat
  <2> TAKE i \in DOMAIN s
  <2>1. s[i].node \in S
    BY DEF Clonable
  <2>2. /\ Cardinality(S) \in Nat
        /\ Place(S, s[i].node) \in nextAddress .. (nextAddress + Cardinality(S) - 1)
    BY <1>1, <2>1, PlaceInBlock
  <2> HIDE DEF s
  <2>3. QED
    BY <2>2
<1>4. \A i \in DOMAIN s : s[i].key \in Keys
  <2> HIDE DEF s
  <2> TAKE i \in DOMAIN s
  <2>1. s[i] \in [key : Keys, node : Nat]
    BY <1>2, Zenon, ElementOfSeq, LenProperties
  <2>2. QED
    BY <2>1
<1>5. t \in Seq([key : Keys, node : Nat])
  <2>1. DOMAIN s = 1 .. Len(s) /\ Len(s) \in Nat
    BY <1>2
  <2>2. \A i \in DOMAIN s : t[i] \in [key : Keys, node : Nat]
    BY <1>3, <1>4
  <2> HIDE DEF s
  <2>3. QED
    BY <2>1, <2>2
<1>6. Moved(h[b], S) = [h[b] EXCEPT !.children = t]
  BY DEF Moved
<1>7. /\ Moved(h[b], S).children = t
      /\ Moved(h[b], S) \in NodeType
  BY <1>1, <1>5, <1>6 DEF NodeType
<1>8. QED
  BY <1>7

\* The i-th child of the node at a, in the cloned heap, is a copy of the
\* i-th child of b, both in the new block, or it is a child that was there,
\* both below the block.
Copied(h, S, a, i, b) ==
    /\ a = Place(S, b) /\ a \in nextAddress .. ((nextAddress + Cardinality(S)) - 1)
    /\ i \in DOMAIN h[b].children /\ h[b].children[i].node \in S
    /\ Clone(h, S)[a].children[i].node = Place(S, h[b].children[i].node)
    /\ Clone(h, S)[a].children[i].node \in (a + 1) .. ((nextAddress + Cardinality(S)) - 1)
Kept(h, S, a, i) ==
    /\ a < nextAddress /\ i \in DOMAIN heap[a].children
    /\ Clone(h, S)[a].children[i].node = heap[a].children[i].node
    /\ Clone(h, S)[a].children[i].node \in (a + 1) .. (nextAddress - 1)

LEMMA CloneChild ==
  ASSUME HeapInv, NEW h, NEW S, Clonable(h, S),
         NEW a \in Addresses, NEW i \in DOMAIN Clone(h, S)[a].children
  PROVE  Kept(h, S, a, i) \/ \E b \in S : Copied(h, S, a, i, b)
<1> DEFINE g == Clone(h, S)
<1>1. nextAddress \in Nat /\ S \in SUBSET Nat /\ IsFiniteSet(S) /\ MaxNodes \in Nat /\ a \in Nat
  BY BoundsAssumption DEF HeapInv, Clonable, Addresses
<1>2. CASE \E b \in S : a = Place(S, b) /\ g[a] = Moved(h[b], S)
  <2>1. PICK b \in S : a = Place(S, b) /\ g[a] = Moved(h[b], S)
    BY <1>2
  <2>2. i \in DOMAIN h[b].children /\ g[a].children[i].node = Place(S, h[b].children[i].node)
    BY <1>1, <2>1, MovedNode
  <2> DEFINE d == h[b].children[i].node
  <2>3. d \in S /\ b < d
    BY <2>2 DEF Clonable
  <2> HIDE DEF g, d
  <2>4. /\ Cardinality(S) \in Nat
        /\ a \in nextAddress .. ((nextAddress + Cardinality(S)) - 1)
        /\ Place(S, d) \in nextAddress .. ((nextAddress + Cardinality(S)) - 1)
    BY <1>1, <2>1, <2>3, PlaceInBlock
  <2>5. a < Place(S, d)
    BY <1>1, <2>1, <2>3, PlaceKeepsOrder
  <2>6. Place(S, d) \in (a + 1) .. ((nextAddress + Cardinality(S)) - 1)
    BY <1>1, <2>4, <2>5
  <2>7. QED
    BY <2>1, <2>2, <2>3, <2>4, <2>6 DEF g, d, Copied
<1>3. CASE g[a] = heap[a]
  <2>1. i \in DOMAIN heap[a].children /\ g[a].children[i].node = heap[a].children[i].node
    BY <1>3
  <2> DEFINE d == heap[a].children[i].node
  <2>2. d \in (a + 1) .. (nextAddress - 1)
    BY <2>1 DEF HeapInv, Nested
  <2> HIDE DEF d, g
  <2>3. a < nextAddress
    BY <1>1, <2>2
  <2>4. QED
    BY <2>1, <2>2, <2>3 DEF d, g, Kept
<1>4. QED
  BY <1>1, <1>2, <1>3, CloneNode

\* Cloning keeps a heap a forest, and nothing leads to the root of the copy.
\* The nodes of the block take the origin r.
LEMMA CloneHeap ==
  ASSUME HeapInv, NEW h, NEW S, Clonable(h, S), NEW r,
         nextAddress + Cardinality(S) <= MaxNodes + 1
  PROVE  LET n == nextAddress + Cardinality(S)
             o == [a \in Addresses |-> IF a \in nextAddress .. (n - 1) THEN r ELSE origin[a]]
         IN  /\ Cardinality(S) \in Nat /\ nextAddress < n
             /\ Clone(h, S) \in [Addresses -> NodeType]
             /\ Nested(Clone(h, S), n) /\ OneParent(Clone(h, S))
             /\ Separate(Clone(h, S), o) /\ Unused(Clone(h, S), nextAddress)
<1> DEFINE g == Clone(h, S)
           n == nextAddress + Cardinality(S)
           o == [a \in Addresses |-> IF a \in nextAddress .. (n - 1) THEN r ELSE origin[a]]
<1>1. /\ nextAddress \in Nat /\ nextAddress > 0 /\ MaxNodes \in Nat
      /\ S \in SUBSET Nat /\ IsFiniteSet(S) /\ S # {}
      /\ heap \in [Addresses -> NodeType]
  BY BoundsAssumption DEF HeapInv, Clonable
<1>2. Cardinality(S) \in Nat /\ Cardinality(S) > 0 /\ n \in Nat /\ nextAddress < n
  <2>1. Cardinality(S) \in Nat /\ Cardinality(S) # 0
    BY <1>1, FS_CardinalityType, FS_EmptySet
  <2>2. QED
    BY <1>1, <2>1
<1>3. g \in [Addresses -> NodeType]
  <2>1. \A a \in Addresses : g[a] \in NodeType
    BY <1>1, CloneNode, MovedNode
  <2>2. g = [a \in Addresses |-> g[a]]
    BY DEF Clone
  <2> HIDE DEF g
  <2>3. QED
    BY <2>1, <2>2
<1>4. \A a \in Addresses : \A i \in DOMAIN g[a].children : Kept(h, S, a, i) \/ \E b \in S : Copied(h, S, a, i, b)
  BY CloneChild
<1> HIDE DEF g
<1>5. \A a \in Addresses : \A i \in DOMAIN g[a].children :
         /\ g[a].children[i].node \in (a + 1) .. (n - 1)
         /\ g[a].children[i].node # nextAddress
         /\ a \in 1 .. (n - 1)
  <2> TAKE a \in Addresses
  <2> TAKE i \in DOMAIN g[a].children
  <2> DEFINE c == g[a].children[i].node
  <2>0. a \in Nat /\ a > 0
    BY <1>1 DEF Addresses
  <2>1. CASE Kept(h, S, a, i)
    <3>1. c \in (a + 1) .. (nextAddress - 1)
      BY <2>1 DEF Kept, g
    <3> HIDE DEF c, n
    <3>2. QED
      BY <1>1, <1>2, <2>0, <3>1 DEF c
  <2>2. CASE \E b \in S : Copied(h, S, a, i, b)
    <3>1. c \in (a + 1) .. (n - 1) /\ a \in nextAddress .. (n - 1)
      BY <2>2, Zenon DEF Copied, Kept, g
    <3> HIDE DEF c, n
    <3>2. QED
      BY <1>1, <1>2, <2>0, <3>1 DEF c
  <2>3. QED
    BY <1>4, <2>1, <2>2
<1>6. Nested(g, n) /\ Unused(g, nextAddress)
  BY <1>5 DEF Nested, Unused
<1>7. OneParent(g)
  <2> SUFFICES ASSUME NEW a \in Addresses, NEW b \in Addresses,
                      NEW i \in DOMAIN g[a].children, NEW k \in DOMAIN g[b].children,
                      g[a].children[i].node = g[b].children[k].node
               PROVE  a = b /\ i = k
    BY DEF OneParent
  <2> DEFINE c == g[a].children[i].node
  <2>0. a \in Nat /\ b \in Nat
    BY <1>1 DEF Addresses
  <2>1. CASE Kept(h, S, a, i) /\ Kept(h, S, b, k)
    <3>1. /\ i \in DOMAIN heap[a].children /\ k \in DOMAIN heap[b].children
          /\ heap[a].children[i].node = heap[b].children[k].node
      BY <2>1 DEF Kept, g
    <3>2. QED
      BY <3>1 DEF HeapInv, OneParent
  <2>2. CASE Kept(h, S, a, i) /\ \E d \in S : Copied(h, S, b, k, d)
    <3>1. c \in (a + 1) .. (nextAddress - 1) /\ c \in (b + 1) .. (n - 1)
          /\ b \in nextAddress .. (n - 1)
      BY <2>2, Zenon DEF Copied, Kept, g
    <3> HIDE DEF c, n
    <3>2. QED
      BY <1>1, <1>2, <2>0, <3>1
  <2>3. CASE Kept(h, S, b, k) /\ \E d \in S : Copied(h, S, a, i, d)
    <3>1. c \in (b + 1) .. (nextAddress - 1) /\ c \in (a + 1) .. (n - 1)
          /\ a \in nextAddress .. (n - 1)
      BY <2>3, Zenon DEF Copied, Kept, g
    <3> HIDE DEF c, n
    <3>2. QED
      BY <1>1, <1>2, <2>0, <3>1
  <2>4. ASSUME NEW d \in S, NEW e \in S, Copied(h, S, a, i, d), Copied(h, S, b, k, e)
        PROVE  a = b /\ i = k
    <3> DEFINE x == h[d].children[i].node
               y == h[e].children[k].node
    <3>0. x \in S /\ y \in S /\ Place(S, x) = Place(S, y)
      BY <2>4, Zenon DEF Copied, Kept, g
    <3> HIDE DEF x, y
    <3>1. x = y
      BY <1>1, <3>0, PlaceIsInjective
    <3> USE DEF x, y
    <3>2. d = e /\ i = k
      BY <2>4, <3>1 DEF Clonable, Copied
    <3>3. QED
      BY <2>4, <3>2 DEF Copied
  <2>5. QED
    BY <1>4, <2>1, <2>2, <2>3, <2>4
<1>8. Separate(g, o)
  <2> SUFFICES ASSUME NEW a \in Addresses, NEW i \in DOMAIN g[a].children
               PROVE  o[g[a].children[i].node] = o[a]
    BY DEF Separate
  <2> DEFINE c == g[a].children[i].node
  <2>0. a \in Nat /\ a > 0 /\ n <= MaxNodes + 1
    BY <1>1 DEF Addresses
  <2>1. c \in (a + 1) .. (n - 1)
    BY <1>5
  <2>2. c \in Addresses
    <3> HIDE DEF c, n
    <3> QED
      BY <1>1, <1>2, <2>0, <2>1 DEF Addresses
  <2>3. CASE Kept(h, S, a, i)
    <3>1. a < nextAddress /\ c \in (a + 1) .. (nextAddress - 1) /\ c = heap[a].children[i].node
          /\ i \in DOMAIN heap[a].children
      BY <2>3 DEF Kept, g
    <3>2. origin[c] = origin[a]
      BY <3>1 DEF HeapInv, Separate
    <3> HIDE DEF c, n
    <3>3. c \notin nextAddress .. (n - 1) /\ a \notin nextAddress .. (n - 1)
      BY <1>1, <1>2, <2>0, <3>1
    <3>4. QED
      BY <2>2, <3>2, <3>3 DEF c
  <2>4. CASE \E b \in S : Copied(h, S, a, i, b)
    <3>1. c \in (a + 1) .. (n - 1) /\ a \in nextAddress .. (n - 1)
      BY <2>4, Zenon DEF Copied, Kept, g
    <3> HIDE DEF c, n
    <3>2. c \in nextAddress .. (n - 1)
      BY <1>1, <1>2, <2>0, <3>1
    <3>3. QED
      BY <2>2, <3>1, <3>2 DEF c
  <2>5. QED
    BY <1>4, <2>3, <2>4
<1>9. QED
  BY <1>2, <1>3, <1>6, <1>7, <1>8 DEF g

-----------------------------------------------------------------------------
(* Link.                                                                   *)

\* The children t are the children s but for the one at j, which is a.
PutAt(s, t, j, a) ==
    \A i \in DOMAIN t : IF i = j THEN t[i].node = a
                        ELSE i \in DOMAIN s /\ t[i].node = s[i].node

LEMMA LinkedChildren ==
  ASSUME NEW parent, NEW s \in Seq([key : Keys, node : Nat]), NEW key \in Keys, NEW a \in Nat
  PROVE  /\ Linked(parent, s, key, a) \in Seq([key : Keys, node : Nat])
         /\ \E j : PutAt(s, Linked(parent, s, key, a), j, a)
<1> DEFINE C == [key : Keys, node : Nat]
           t == Linked(parent, s, key, a)
<1>0. DOMAIN s = 1 .. Len(s) /\ Len(s) \in Nat /\ \A i \in DOMAIN s : s[i] \in C
  BY ElementOfSeq, LenProperties
<1>1. EmptyName \in Keys
  BY DEF Keys
<1>2. ASSUME NEW k \in Keys, t = Append(s, [key |-> k, node |-> a])
      PROVE  t \in Seq(C) /\ PutAt(s, t, Len(s) + 1, a)
  <2>1. [key |-> k, node |-> a] \in C
    BY <1>2
  <2>2. t \in Seq(C)
    BY <1>2, <2>1
  <2>3. DOMAIN t = 1 .. (Len(s) + 1)
        /\ t[Len(s) + 1] = [key |-> k, node |-> a]
        /\ \A i \in 1 .. Len(s) : t[i] = s[i]
    BY <1>2, <2>1
  <2> HIDE DEF t
  <2>4. PutAt(s, t, Len(s) + 1, a)
    BY <1>0, <2>3 DEF PutAt
  <2>5. QED
    BY <2>2, <2>4
<1>3. ASSUME NEW i, t = [s EXCEPT ![i].node = a]
      PROVE  t \in Seq(C) /\ PutAt(s, t, i, a)
  <2>1. DOMAIN t = DOMAIN s
    BY <1>3
  <2>2. \A k \in DOMAIN s : t[k] = IF k = i THEN [s[k] EXCEPT !.node = a] ELSE s[k]
    BY <1>3
  <2>3. \A k \in DOMAIN s : t[k] \in C
    BY <1>0, <2>2
  <2>4. t = [k \in 1 .. Len(s) |-> t[k]]
    BY <1>0, <1>3
  <2> HIDE DEF t
  <2>5. t \in Seq(C)
    BY <1>0, <2>3, <2>4
  <2>6. PutAt(s, t, i, a)
    BY <1>0, <2>1, <2>2 DEF PutAt
  <2>7. QED
    BY <2>5, <2>6
<1>4. ASSUME t = s PROVE t \in Seq(C) /\ PutAt(s, t, 0, a)
  BY <1>0, <1>4 DEF PutAt
<1>5. \/ t = s \/ \E k \in Keys : t = Append(s, [key |-> k, node |-> a])
      \/ \E i : t = [s EXCEPT ![i].node = a]
  BY <1>1 DEF Linked, SetObjectMember
<1> HIDE DEF t
<1>6. QED
  BY <1>2, <1>3, <1>4, <1>5 DEF t

\* A node that nothing leads to yet may hang below an earlier one of the
\* same origin: the heap stays a forest.
LEMMA LinkHeap ==
  ASSUME HeapInv, NEW g, NEW n \in Nat, NEW o, nextAddress < n,
         g \in [Addresses -> NodeType], Nested(g, n), OneParent(g), Separate(g, o),
         Unused(g, nextAddress),
         NEW parent \in Addresses, parent < nextAddress, o[nextAddress] = o[parent],
         NEW key \in Keys
  PROVE  /\ Link(g, parent, key) \in [Addresses -> NodeType]
         /\ Nested(Link(g, parent, key), n) /\ OneParent(Link(g, parent, key))
         /\ Separate(Link(g, parent, key), o)
<1> DEFINE s == g[parent].children
           t == Linked(parent, s, key, nextAddress)
           l == Link(g, parent, key)
<1>1. nextAddress \in Nat /\ Addresses \subseteq Nat
  BY BoundsAssumption DEF HeapInv, Addresses
<1>2. g[parent] \in NodeType /\ s \in Seq([key : Keys, node : Nat])
  BY DEF NodeType
<1>3. t \in Seq([key : Keys, node : Nat]) /\ \E j : PutAt(s, t, j, nextAddress)
  BY <1>1, <1>2, LinkedChildren
<1>4. PICK j : PutAt(s, t, j, nextAddress)
  BY <1>3
<1> HIDE DEF t
<1>5. /\ \A a \in Addresses \ {parent} : l[a] = g[a]
      /\ l[parent] = [g[parent] EXCEPT !.children = t] /\ DOMAIN l = Addresses
      /\ l = [a \in Addresses |-> l[a]]
  BY DEF Link, t
<1> HIDE DEF l
<1>6. l[parent].children = t /\ l[parent] \in NodeType
  BY <1>2, <1>3, <1>5 DEF NodeType
<1>7. l \in [Addresses -> NodeType]
  <2>1. \A a \in Addresses : l[a] \in NodeType
    BY <1>5, <1>6
  <2>2. QED
    BY <1>5, <2>1
<1>8. \A a \in Addresses : \A i \in DOMAIN l[a].children :
        \/ a = parent /\ i = j /\ l[a].children[i].node = nextAddress
        \/ /\ i \in DOMAIN g[a].children /\ l[a].children[i].node = g[a].children[i].node
           /\ l[a].children[i].node # nextAddress
  <2> TAKE a \in Addresses
  <2> TAKE i \in DOMAIN l[a].children
  <2>1. CASE a = parent
    BY <1>4, <1>6, <2>1 DEF PutAt, Unused
  <2>2. CASE a # parent
    BY <1>5, <2>2 DEF Unused
  <2>3. QED
    BY <2>1, <2>2
<1>9. Nested(l, n)
  BY <1>1, <1>8 DEF Nested
<1>10. OneParent(l)
  BY <1>8 DEF OneParent
<1>11. Separate(l, o)
  BY <1>8 DEF Separate
<1>12. QED
  BY <1>7, <1>9, <1>10, <1>11 DEF l

-----------------------------------------------------------------------------
(* The steps of the heap.                                                  *)

LEMMA HeapStep ==
  ASSUME HeapInv, NEW n \in Nat, n > 0, NEW root \in Addresses \cup {Nil},
         Allocate(n, root), heap' \in [Addresses -> NodeType],
         Nested(heap', nextAddress + n), OneParent(heap'), Separate(heap', origin')
  PROVE  HeapInv' /\ nextAddress' \in Nat /\ nextAddress < nextAddress'
<1>1. nextAddress \in Nat /\ nextAddress > 0 /\ MaxNodes \in Nat
  BY BoundsAssumption DEF HeapInv
<1>2. nextAddress' = nextAddress + n /\ nextAddress + n <= MaxNodes + 1
  BY DEF Allocate
<1>3. nextAddress' \in 1 .. MaxNodes + 1 /\ nextAddress' \in Nat /\ nextAddress < nextAddress'
  BY <1>1, <1>2
<1>4. origin' \in [Addresses -> Addresses \cup {Nil}]
  BY DEF Allocate, HeapInv
<1>5. Nested(heap', nextAddress')
  BY <1>2
<1>6. QED
  BY <1>3, <1>4, <1>5 DEF HeapInv, Nested, OneParent, Separate

\* The trees that are copied are closed.
LEMMA TreeIsClonable ==
  ASSUME HeapInv, NEW a \in Addresses, a < nextAddress, NEW S \in TreesAt(a)
  PROVE  Clonable(heap, S)
<1>1. nextAddress \in Nat /\ nextAddress > 0 /\ nextAddress <= MaxNodes + 1
      /\ MaxNodes \in Nat /\ a \in Nat /\ a > 0
  BY BoundsAssumption DEF HeapInv, Addresses
<1>2. PICK T \in SUBSET (Held \cap (a + 1) .. (nextAddress - 1)) : S = {a} \cup T
  BY DEF TreesAt
<1>3. S \subseteq 1 .. (nextAddress - 1) /\ a \in S
  BY <1>1, <1>2
<1>4. S \subseteq Nat /\ S \subseteq Addresses
  BY <1>1, <1>3 DEF Addresses
<1>5. IsFiniteSet(S)
  <2>1. IsFiniteSet(1 .. (nextAddress - 1))
    BY <1>1, FS_Interval
  <2>2. QED
    BY <2>1, <1>3, FS_Subset
<1>6. \A b \in S : heap[b] \in NodeType
  BY <1>4 DEF HeapInv
<1>7. \A b \in S : \A i \in DOMAIN heap[b].children :
         heap[b].children[i].node \in S /\ b < heap[b].children[i].node
  <2> TAKE b \in S
  <2> TAKE i \in DOMAIN heap[b].children
  <2>1. heap[b].children[i].node \in S
    BY DEF TreesAt, IsTree, Children, ChildrenIn
  <2> DEFINE c == heap[b].children[i].node
  <2>2. c \in (b + 1) .. (nextAddress - 1)
    BY <1>4 DEF HeapInv, Nested
  <2>3. b \in Nat
    BY <1>4
  <2> HIDE DEF c
  <2>4. b < c
    BY <1>1, <2>2, <2>3
  <2>5. QED
    BY <2>1, <2>4 DEF c
<1>8. \A b, c \in S : \A i \in DOMAIN heap[b].children, k \in DOMAIN heap[c].children :
         heap[b].children[i].node = heap[c].children[k].node => b = c /\ i = k
  BY <1>4 DEF HeapInv, OneParent
<1>9. QED
  BY <1>3, <1>4, <1>5, <1>6, <1>7, <1>8 DEF Clonable

\* A copy hung below a node.
LEMMA InsertCopyStep ==
  ASSUME HeapInv, NEW parent \in Addresses, parent < nextAddress, NEW key \in Keys,
         NEW a \in Addresses, a < nextAddress, InsertCopy(parent, key, a)
  PROVE  HeapInv' /\ nextAddress' \in Nat /\ nextAddress < nextAddress'
<1>1. PICK S \in TreesAt(a) : /\ Allocate(Cardinality(S), origin[parent])
                              /\ heap' = Link(Clone(heap, S), parent, key)
  BY DEF InsertCopy
<1> DEFINE n == nextAddress + Cardinality(S)
           r == origin[parent]
           o == [x \in Addresses |-> IF x \in nextAddress .. (n - 1) THEN r ELSE origin[x]]
<1>2. Clonable(heap, S) /\ n <= MaxNodes + 1
  BY <1>1, TreeIsClonable DEF Allocate
<1>3. /\ Cardinality(S) \in Nat /\ nextAddress < n
      /\ Clone(heap, S) \in [Addresses -> NodeType]
      /\ Nested(Clone(heap, S), n) /\ OneParent(Clone(heap, S))
      /\ Separate(Clone(heap, S), o) /\ Unused(Clone(heap, S), nextAddress)
  BY <1>2, CloneHeap
<1>4. /\ nextAddress \in Nat /\ nextAddress > 0 /\ MaxNodes \in Nat
      /\ parent \in Nat /\ r \in Addresses \cup {Nil}
  BY BoundsAssumption DEF HeapInv, Addresses
<1>5. origin' = o
  <2>1. \A x \in Nat : x \in nextAddress .. (n - 1) <=>
                       x \in nextAddress .. nextAddress + Cardinality(S) - 1
    BY <1>3, <1>4
  <2>2. Addresses \subseteq Nat
    BY DEF Addresses
  <2> HIDE DEF n
  <2>3. QED
    BY <1>1, <2>1, <2>2 DEF Allocate
<1>6. o[nextAddress] = o[parent]
  <2>1. nextAddress \in Addresses /\ nextAddress \in nextAddress .. (n - 1)
        /\ parent \notin nextAddress .. (n - 1)
    <3>1. n \in Nat
      BY <1>3, <1>4
    <3> HIDE DEF n
    <3>2. QED
      BY <1>2, <1>3, <1>4, <3>1 DEF Addresses
  <2>2. QED
    BY <2>1
<1>7. n \in Nat /\ Cardinality(S) > 0
  BY <1>3, <1>4
<1> HIDE DEF n, o
<1>8. /\ heap' \in [Addresses -> NodeType] /\ Nested(heap', n)
      /\ OneParent(heap') /\ Separate(heap', o)
  BY <1>1, <1>3, <1>6, <1>7, LinkHeap
<1>9. QED
  BY <1>1, <1>3, <1>4, <1>5, <1>7, <1>8, HeapStep DEF n

\* The tree a clone leaves at nextAddress, before anything leads to it.
LEMMA CloneStep ==
  ASSUME HeapInv, NEW h, NEW S, Clonable(h, S),
         Allocate(Cardinality(S), nextAddress), heap' = Clone(h, S)
  PROVE  HeapInv' /\ nextAddress' \in Nat /\ nextAddress < nextAddress'
<1> DEFINE n == nextAddress + Cardinality(S)
           o == [x \in Addresses |->
                    IF x \in nextAddress .. (n - 1) THEN nextAddress ELSE origin[x]]
<1>1. n <= MaxNodes + 1
  BY DEF Allocate
<1>2. /\ Cardinality(S) \in Nat /\ nextAddress < n
      /\ heap' \in [Addresses -> NodeType]
      /\ Nested(heap', n) /\ OneParent(heap') /\ Separate(heap', o)
  BY <1>1, CloneHeap
<1>3. nextAddress \in Nat /\ nextAddress > 0 /\ MaxNodes \in Nat
  BY BoundsAssumption DEF HeapInv
<1>4. n \in Nat /\ Cardinality(S) > 0 /\ nextAddress \in Addresses \cup {Nil}
  <2>1. n \in Nat /\ Cardinality(S) > 0
    BY <1>2, <1>3
  <2> HIDE DEF n
  <2>2. QED
    BY <1>1, <1>2, <1>3, <2>1 DEF Addresses
<1>5. origin' = o
  <2>1. \A x \in Nat : x \in nextAddress .. (n - 1) <=>
                       x \in nextAddress .. nextAddress + Cardinality(S) - 1
    BY <1>2, <1>3
  <2>2. Addresses \subseteq Nat
    BY DEF Addresses
  <2> HIDE DEF n
  <2>3. QED
    BY <2>1, <2>2 DEF Allocate
<1> HIDE DEF o
<1>6. QED
  BY <1>2, <1>4, <1>5, HeapStep DEF n

\* A node without children at nextAddress.
LEMMA FreshNode ==
  ASSUME HeapInv, NEW node \in NodeType, node.children = <<>>, NEW root \in Addresses \cup {Nil},
         nextAddress <= MaxNodes
  PROVE  LET g == [heap EXCEPT ![nextAddress] = node]
             o == [a \in Addresses |-> IF a \in nextAddress .. nextAddress + 1 - 1
                                       THEN root ELSE origin[a]]
         IN  /\ nextAddress \in Addresses /\ nextAddress \in Nat
             /\ g \in [Addresses -> NodeType] /\ Nested(g, nextAddress + 1) /\ OneParent(g)
             /\ Unused(g, nextAddress) /\ Separate(g, o)
<1> DEFINE g == [heap EXCEPT ![nextAddress] = node]
           o == [a \in Addresses |-> IF a \in nextAddress .. nextAddress + 1 - 1
                                     THEN root ELSE origin[a]]
<1>1. nextAddress \in Nat /\ nextAddress > 0 /\ MaxNodes \in Nat /\ nextAddress \in Addresses
      /\ Addresses \subseteq Nat
  BY BoundsAssumption DEF HeapInv, Addresses
<1>2. g \in [Addresses -> NodeType]
  BY DEF HeapInv
<1>3. \A a \in Addresses : \A i \in DOMAIN g[a].children :
         i \in DOMAIN heap[a].children /\ g[a].children[i].node = heap[a].children[i].node
         /\ a # nextAddress
  <2> TAKE a \in Addresses
  <2>1. CASE a = nextAddress
    BY <2>1 DEF HeapInv
  <2>2. CASE a # nextAddress
    BY <2>2 DEF HeapInv
  <2>3. QED
    BY <2>1, <2>2
<1> HIDE DEF g
<1>4. \A a \in Addresses : \A i \in DOMAIN g[a].children :
         g[a].children[i].node \in (a + 1) .. (nextAddress - 1)
  BY <1>3 DEF HeapInv, Nested
<1>5. Nested(g, nextAddress + 1) /\ Unused(g, nextAddress)
  BY <1>1, <1>4 DEF Nested, Unused
<1>6. OneParent(g)
  BY <1>3 DEF HeapInv, OneParent
<1>7. Separate(g, o)
  <2> SUFFICES ASSUME NEW a \in Addresses, NEW i \in DOMAIN g[a].children
               PROVE  o[g[a].children[i].node] = o[a]
    BY DEF Separate
  <2> DEFINE c == g[a].children[i].node
  <2>1. c \in (a + 1) .. (nextAddress - 1) /\ a \in Nat /\ a > 0
    BY <1>1, <1>4 DEF Addresses
  <2>2. origin[c] = origin[a]
    BY <1>3 DEF HeapInv, Separate
  <2> HIDE DEF c
  <2>3. c \in Addresses /\ c # nextAddress /\ a # nextAddress
    BY <1>1, <2>1 DEF Addresses
  <2>4. c \notin nextAddress .. nextAddress + 1 - 1 /\ a \notin nextAddress .. nextAddress + 1 - 1
    BY <1>1, <2>1, <2>3 DEF Addresses
  <2>5. QED
    BY <2>2, <2>3, <2>4 DEF c
<1>8. QED
  BY <1>1, <1>2, <1>5, <1>6, <1>7 DEF g

LEMMA MakeStep ==
  ASSUME HeapInv, NEW node \in NodeType, node.children = <<>>,
         Allocate(1, nextAddress), heap' = [heap EXCEPT ![nextAddress] = node]
  PROVE  HeapInv' /\ nextAddress' \in Nat /\ nextAddress < nextAddress'
<1>1. nextAddress \in Nat /\ MaxNodes \in Nat /\ nextAddress > 0
  BY BoundsAssumption DEF HeapInv
<1>2. nextAddress <= MaxNodes /\ nextAddress \in Addresses \cup {Nil}
  BY <1>1 DEF Allocate, Addresses
<1>3. /\ heap' \in [Addresses -> NodeType] /\ Nested(heap', nextAddress + 1)
      /\ OneParent(heap') /\ Separate(heap', origin')
  BY <1>2, FreshNode DEF Allocate
<1>4. 1 \in Nat /\ 1 > 0
  OBVIOUS
<1>5. QED
  BY <1>2, <1>3, <1>4, HeapStep, Zenon

\* A new scalar hung below a node.
LEMMA InsertScalarStep ==
  ASSUME HeapInv, NEW parent \in Addresses, parent < nextAddress, NEW key \in Keys,
         NEW value \in Scalars, InsertScalar(parent, key, value)
  PROVE  HeapInv' /\ nextAddress' \in Nat /\ nextAddress < nextAddress'
<1> DEFINE g == [heap EXCEPT ![nextAddress] = ScalarNode(value)]
           o == [a \in Addresses |-> IF a \in nextAddress .. nextAddress + 1 - 1
                                     THEN origin[parent] ELSE origin[a]]
<1>1. nextAddress \in Nat /\ MaxNodes \in Nat /\ nextAddress > 0 /\ parent \in Nat
  BY BoundsAssumption DEF HeapInv, Addresses
<1>2. nextAddress <= MaxNodes /\ origin[parent] \in Addresses \cup {Nil}
  BY <1>1 DEF InsertScalar, Allocate, HeapInv
<1>3. ScalarNode(value) \in NodeType /\ ScalarNode(value).children = <<>>
  BY DEF ScalarNode, NodeType, NodeTypes
<1>4. /\ nextAddress \in Addresses
      /\ g \in [Addresses -> NodeType] /\ Nested(g, nextAddress + 1) /\ OneParent(g)
      /\ Unused(g, nextAddress) /\ Separate(g, o)
  BY <1>2, <1>3, FreshNode
<1>5. origin' = o /\ heap' = Link(g, parent, key)
  BY DEF InsertScalar, Allocate
<1>6. o[nextAddress] = o[parent]
  <2>1. parent \notin nextAddress .. nextAddress + 1 - 1
        /\ nextAddress \in nextAddress .. nextAddress + 1 - 1
    BY <1>1
  <2>2. QED
    BY <1>4, <2>1
<1> HIDE DEF g, o
<1>7. /\ heap' \in [Addresses -> NodeType] /\ Nested(heap', nextAddress + 1)
      /\ OneParent(heap') /\ Separate(heap', o)
  <2>1. nextAddress + 1 \in Nat /\ nextAddress < nextAddress + 1
    BY <1>1
  <2>2. QED
    BY <1>4, <1>5, <1>6, <2>1, LinkHeap
<1>8. 1 \in Nat /\ 1 > 0 /\ Allocate(1, origin[parent]) /\ Separate(heap', origin')
  BY <1>5, <1>7 DEF InsertScalar
<1>9. QED
  BY <1>2, <1>7, <1>8, HeapStep, Zenon

-----------------------------------------------------------------------------
(* Finding a member.                                                       *)

LEMMA LeastOf ==
  ASSUME NEW T \in SUBSET Nat, T # {}
  PROVE  \E i \in T : \A k \in T : i <= k
<1> DEFINE R == OpToRel(<, Nat)
<1>1. \E x \in T : \A y \in T : ~ (<<y, x>> \in R)
  BY NatLessThanWellFounded, WFMin
<1>2. \A x, y \in Nat : <<y, x>> \in R <=> y < x
  BY DEF OpToRel
<1> HIDE DEF R
<1>3. PICK x \in T : \A y \in T : ~ (<<y, x>> \in R)
  BY <1>1
<1>4. \A y \in T : y \in Nat /\ x \in Nat /\ ~(y < x)
  BY <1>2, <1>3
<1>5. \A y \in T : x <= y
  BY <1>4
<1>6. QED
  BY <1>5

LEMMA PositionIsIndex ==
  ASSUME NEW children, DOMAIN children \subseteq Nat, NEW key, PositionOf(children, key) # Nil
  PROVE  PositionOf(children, key) \in DOMAIN children
<1> DEFINE found == {i \in DOMAIN children : children[i].key = key}
<1>1. found # {} /\ PositionOf(children, key) = CHOOSE i \in found : \A k \in found : i <= k
  BY DEF PositionOf
<1>2. found \in SUBSET Nat /\ found \subseteq DOMAIN children
  OBVIOUS
<1> HIDE DEF found
<1>3. QED
  BY <1>1, <1>2, LeastOf

-----------------------------------------------------------------------------
(* The store and the call under way.                                       *)

StoreInv ==
    /\ jsonNodes \in [Handles -> 0 .. (nextAddress - 1)]
    /\ nextJsonNodeId \in 1 .. MaxHandles + 1

\* A looping native works below a node of its own; a builder was given
\* handles older than its own, and an append has two that no one can release
\* while it runs.
CallInv ==
    /\ call \in [op : {"none", "append"} \cup Builders, root : 0 .. (nextAddress - 1),
                 handle : Handles \cup {Nil}, args : Seq(Argument), at : Nat \ {0}]
    /\ call.op # "none" => call.root # Nil
    /\ call.op \in Builders =>
          /\ Known(call.handle) /\ call.handle < nextJsonNodeId
          /\ \A i \in DOMAIN call.args : call.args[i].from < call.handle
    /\ call.op = "append" =>
          /\ Len(call.args) = 2
          /\ Known(call.args[1].from) /\ Known(call.args[2].from)

IInv == HeapInv /\ StoreInv /\ CallInv

\* A handle leads to a node that is in use.
LEMMA KnownAddress ==
  ASSUME HeapInv, StoreInv, NEW h \in Handles, Known(h)
  PROVE  jsonNodes[h] \in Addresses /\ jsonNodes[h] < nextAddress
<1>1. nextAddress \in Nat /\ nextAddress <= MaxNodes + 1 /\ MaxNodes \in Nat
  BY BoundsAssumption DEF HeapInv
<1>2. jsonNodes[h] \in 0 .. (nextAddress - 1) /\ jsonNodes[h] # 0
  BY DEF StoreInv, Known, Nil
<1>3. QED
  BY <1>1, <1>2 DEF Addresses

LEMMA StoreStep ==
  ASSUME HeapInv, StoreInv, nextAddress' \in Nat, nextAddress <= nextAddress',
         NEW a \in Nat, a < nextAddress', StoreJsonNode(jsonNodes, a)
  PROVE  /\ StoreInv' /\ nextJsonNodeId \in Handles /\ nextJsonNodeId' = nextJsonNodeId + 1
         /\ nextJsonNodeId \in Nat /\ jsonNodes'[nextJsonNodeId] = a
         /\ \A h \in Handles : h # nextJsonNodeId => jsonNodes'[h] = jsonNodes[h]
<1>0. PICK m \in Nat : nextAddress' = m
  OBVIOUS
<1>1. nextAddress \in Nat /\ MaxHandles \in Nat /\ nextAddress <= m /\ a < m
  BY <1>0, BoundsAssumption DEF HeapInv
<1>2. 0 .. (nextAddress - 1) \subseteq 0 .. (m - 1) /\ a \in 0 .. (m - 1)
  BY <1>1
<1>3. nextJsonNodeId' \in 1 .. MaxHandles + 1 /\ nextJsonNodeId \in Handles /\ nextJsonNodeId \in Nat
  BY <1>1 DEF StoreJsonNode, Handles
<1>4. jsonNodes' = [jsonNodes EXCEPT ![nextJsonNodeId] = a] /\ nextJsonNodeId' = nextJsonNodeId + 1
  BY DEF StoreJsonNode
<1>5. jsonNodes \in [Handles -> 0 .. (m - 1)]
  BY <1>2 DEF StoreInv
<1>6. jsonNodes' \in [Handles -> 0 .. (m - 1)]
  BY <1>2, <1>4, <1>5
<1>7. QED
  BY <1>0, <1>3, <1>4, <1>5, <1>6 DEF StoreInv

LEMMA SameStoreStep ==
  ASSUME HeapInv, StoreInv, nextAddress' \in Nat, nextAddress <= nextAddress', SameStore
  PROVE  StoreInv'
<1>0. PICK m \in Nat : nextAddress' = m
  OBVIOUS
<1>1. nextAddress \in Nat /\ nextAddress <= m
  BY <1>0 DEF HeapInv
<1>2. 0 .. (nextAddress - 1) \subseteq 0 .. (m - 1)
  BY <1>1
<1>3. jsonNodes' = jsonNodes /\ nextJsonNodeId' = nextJsonNodeId
  BY DEF SameStore
<1>4. jsonNodes' \in [Handles -> 0 .. (m - 1)]
  BY <1>2, <1>3 DEF StoreInv
<1>5. QED
  BY <1>0, <1>3, <1>4 DEF StoreInv

LEMMA WithoutStep ==
  ASSUME HeapInv, StoreInv, NEW hs, jsonNodes' = Without(hs),
         nextJsonNodeId' = nextJsonNodeId, SameHeap
  PROVE  HeapInv' /\ StoreInv'
<1>1. nextAddress \in Nat /\ nextAddress >= 1 /\ nextAddress' = nextAddress /\ heap' = heap /\ origin' = origin
  BY DEF HeapInv, SameHeap
<1>2. \A h \in Handles : Without(hs)[h] \in 0 .. (nextAddress - 1)
  BY <1>1 DEF Without, StoreInv, Nil
<1>3. Without(hs) \in [Handles -> 0 .. (nextAddress - 1)]
  BY <1>2 DEF Without
<1>4. StoreInv'
  BY <1>1, <1>3 DEF StoreInv
<1>5. QED
  BY <1>1, <1>4 DEF HeapInv, Nested, OneParent, Separate

\* No call, or one that goes on while the store only grows.
LEMMA IdleStep ==
  ASSUME nextAddress' \in Nat, nextAddress' > 0, call' = NoCall
  PROVE  CallInv'
<1>0. PICK m \in Nat : nextAddress' = m
  OBVIOUS
<1>1. 0 \in 0 .. (m - 1) /\ 1 \in Nat \ {0}
  <2>1. m > 0
    BY <1>0
  <2>2. QED
    BY <2>1
<1>2. /\ NoCall \in [op : {"none", "append"} \cup Builders, root : 0 .. (m - 1),
                     handle : Handles \cup {Nil}, args : Seq(Argument), at : Nat \ {0}]
      /\ NoCall.op = "none"
  BY <1>1 DEF NoCall, Nil
<1>3. "none" \notin Builders
  BY DEF Builders
<1>4. QED
  BY <1>0, <1>2, <1>3 DEF CallInv

LEMMA CallGoesOn ==
  ASSUME HeapInv, CallInv, nextAddress' \in Nat, nextAddress <= nextAddress',
         nextJsonNodeId \in Nat, nextJsonNodeId' \in Nat, nextJsonNodeId <= nextJsonNodeId',
         \A h \in Handles : jsonNodes[h] # Nil => jsonNodes'[h] # Nil,
         call' = call \/ call' = Next_(call)
  PROVE  CallInv'
<1>0. PICK m \in Nat : nextAddress' = m
  OBVIOUS
<1>1. nextAddress \in Nat /\ nextAddress <= m
  BY <1>0 DEF HeapInv
<1>2. 0 .. (nextAddress - 1) \subseteq 0 .. (m - 1)
  BY <1>1
<1>3. /\ call.op \in {"none", "append"} \cup Builders /\ call.root \in 0 .. (nextAddress - 1)
      /\ call.handle \in Handles \cup {Nil} /\ call.args \in Seq(Argument)
      /\ call.at \in Nat \ {0}
  BY DEF CallInv
<1>4. /\ call' \in [op : {"none", "append"} \cup Builders, root : 0 .. (m - 1),
                    handle : Handles \cup {Nil}, args : Seq(Argument), at : Nat \ {0}]
      /\ call'.op = call.op /\ call'.root = call.root /\ call'.handle = call.handle
      /\ call'.args = call.args
  <2>1. CASE call' = call
    BY <1>2, <2>1 DEF CallInv
  <2>2. CASE call' = Next_(call)
    <3>1. call' = [op |-> call.op, root |-> call.root, handle |-> call.handle,
                   args |-> call.args, at |-> call.at + 1]
      BY <2>2 DEF Next_, CallInv
    <3>2. call.at + 1 \in Nat \ {0}
      BY <1>3
    <3>3. QED
      BY <1>2, <1>3, <3>1, <3>2
  <2>3. QED
    BY <2>1, <2>2
<1>5. \A h \in Handles : Known(h) => Known(h)'
  BY DEF Known
<1>6. call.op \in Builders => call.handle < nextJsonNodeId'
  <2> SUFFICES ASSUME call.op \in Builders PROVE call.handle < nextJsonNodeId'
    OBVIOUS
  <2>1. call.handle < nextJsonNodeId /\ call.handle \in Nat
    BY DEF CallInv, Known, Handles
  <2>2. QED
    BY <2>1
<1>7. QED
  BY <1>0, <1>4, <1>5, <1>6 DEF CallInv, Known

LEMMA MakeNodeStep ==
  ASSUME HeapInv, StoreInv, NEW node \in NodeType, node.children = <<>>, MakeNode(node)
  PROVE  /\ HeapInv' /\ StoreInv' /\ nextAddress' \in Nat /\ nextAddress < nextAddress'
         /\ nextJsonNodeId \in Handles /\ nextJsonNodeId' = nextJsonNodeId + 1
         /\ nextJsonNodeId \in Nat /\ jsonNodes'[nextJsonNodeId] = nextAddress
<1>1. HeapInv' /\ nextAddress' \in Nat /\ nextAddress < nextAddress'
  BY MakeStep DEF MakeNode
<1>2. nextAddress \in Nat /\ nextAddress <= nextAddress'
  BY <1>1 DEF HeapInv
<1>3. StoreJsonNode(jsonNodes, nextAddress)
  BY DEF MakeNode
<1>4. QED
  BY <1>1, <1>2, <1>3, StoreStep

LEMMA InsertStep ==
  ASSUME HeapInv, StoreInv, NEW h \in Handles, Known(h), NEW key \in Keys, SameStore,
         \/ \E g \in Handles : Known(g) /\ InsertCopy(jsonNodes[h], key, jsonNodes[g])
         \/ \E v \in Scalars : InsertScalar(jsonNodes[h], key, v)
  PROVE  HeapInv' /\ StoreInv'
<1>1. jsonNodes[h] \in Addresses /\ jsonNodes[h] < nextAddress
  BY KnownAddress
<1>2. HeapInv' /\ nextAddress' \in Nat /\ nextAddress < nextAddress'
  <2>1. ASSUME NEW g \in Handles, Known(g), InsertCopy(jsonNodes[h], key, jsonNodes[g])
        PROVE  HeapInv' /\ nextAddress' \in Nat /\ nextAddress < nextAddress'
    <3>1. jsonNodes[g] \in Addresses /\ jsonNodes[g] < nextAddress
      BY <2>1, KnownAddress
    <3>2. QED
      BY <1>1, <2>1, <3>1, InsertCopyStep
  <2>2. ASSUME NEW v \in Scalars, InsertScalar(jsonNodes[h], key, v)
        PROVE  HeapInv' /\ nextAddress' \in Nat /\ nextAddress < nextAddress'
    BY <1>1, <2>2, InsertScalarStep
  <2>3. QED
    BY <2>1, <2>2
<1>3. nextAddress <= nextAddress'
  BY <1>2 DEF HeapInv
<1>4. QED
  BY <1>2, <1>3, SameStoreStep

LEMMA GetStep ==
  ASSUME HeapInv, StoreInv, NEW h \in Handles, Known(h),
         NEW i \in DOMAIN heap[jsonNodes[h]].children, GetChild(h, i)
  PROVE  HeapInv' /\ StoreInv'
<1> DEFINE c == heap[jsonNodes[h]].children[i].node
<1>1. jsonNodes[h] \in Addresses
  BY KnownAddress
<1>2. c \in (jsonNodes[h] + 1) .. (nextAddress - 1)
  BY <1>1 DEF HeapInv, Nested
<1>3. StoreJsonNode(jsonNodes, c) /\ heap' = heap /\ nextAddress' = nextAddress /\ origin' = origin
  BY DEF GetChild, SameHeap
<1>4. nextAddress \in Nat /\ jsonNodes[h] \in Nat
  BY <1>1 DEF HeapInv, Addresses
<1> HIDE DEF c
<1>5. c \in Nat /\ c < nextAddress'
  BY <1>2, <1>3, <1>4
<1>6. nextAddress' \in Nat /\ nextAddress <= nextAddress'
  BY <1>3, <1>4
<1>7. StoreInv'
  BY <1>3, <1>5, <1>6, StoreStep
<1>8. QED
  BY <1>3, <1>7 DEF HeapInv, Nested, OneParent, Separate

\* A parsed tree can be cloned.
LEMMA ParsedTree ==
  ASSUME NEW tree \in Trees
  PROVE  Clonable(tree, DOMAIN tree) /\ Cardinality(DOMAIN tree) = Len(tree)
<1> DEFINE S == DOMAIN tree
<1>1. /\ tree \in Seq(NodeType) /\ tree # <<>> /\ Len(tree) \in Nat /\ Len(tree) > 0
      /\ S = 1 .. Len(tree) /\ \A b \in S : tree[b] \in NodeType
  <2>1. tree \in Seq(NodeType) /\ tree # <<>>
    BY TreesAssumption DEF NodeType
  <2>2. Len(tree) \in Nat /\ Len(tree) > 0
    BY <2>1
  <2>3. QED
    BY <2>1, <2>2, ElementOfSeq, LenProperties
<1>2. Cardinality(S) = Len(tree) /\ IsFiniteSet(S)
  <2>1. ~(1 > Len(tree)) /\ Len(tree) - 1 + 1 = Len(tree) /\ Len(tree) \in Int /\ 1 \in Int
    BY <1>1
  <2>2. QED
    BY <1>1, <2>1, FS_Interval
<1>3. Clonable(tree, S)
  <2>1. \A b \in S : \A i \in DOMAIN tree[b].children :
           tree[b].children[i].node \in (b + 1) .. Len(tree)
    <3> TAKE b \in S
    <3> TAKE i \in DOMAIN tree[b].children
    <3>1. ChildrenIn(tree, b) \subseteq (b + 1) .. Len(tree)
      BY TreesAssumption
    <3>2. tree[b].children[i].node \in ChildrenIn(tree, b)
      BY DEF ChildrenIn
    <3>3. QED
      BY <3>1, <3>2
  <2>2. \A b \in S : \A i \in DOMAIN tree[b].children :
           tree[b].children[i].node \in S /\ b < tree[b].children[i].node
    BY <1>1, <2>1
  <2>3. \A b, c \in S : \A i \in DOMAIN tree[b].children, k \in DOMAIN tree[c].children :
           tree[b].children[i].node = tree[c].children[k].node => b = c /\ i = k
    BY TreesAssumption, Zenon
  <2>4. S \subseteq Nat /\ S # {}
    <3> HIDE DEF S
    <3>1. 1 \in S /\ 1 .. Len(tree) \subseteq Nat
      BY <1>1
    <3>2. QED
      BY <1>1, <3>1
  <2>5. QED
    BY <1>1, <1>2, <2>2, <2>3, <2>4 DEF Clonable
<1>4. QED
  BY <1>2, <1>3

LEMMA ParseStep ==
  ASSUME IInv, NEW tree \in Trees, ParseJsonNode(tree)
  PROVE  IInv'
<1> DEFINE S == DOMAIN tree
<1>1. Clonable(tree, S) /\ Cardinality(S) = Len(tree)
  BY ParsedTree
<1> HIDE DEF S
<1>2. /\ Allocate(Cardinality(S), nextAddress) /\ heap' = Clone(tree, S)
      /\ StoreJsonNode(jsonNodes, nextAddress) /\ call' = call
  BY <1>1 DEF ParseJsonNode, S
<1>3. HeapInv' /\ nextAddress' \in Nat /\ nextAddress < nextAddress'
  BY <1>1, <1>2, CloneStep DEF IInv
<1>4. nextAddress \in Nat /\ nextAddress > 0 /\ nextAddress <= nextAddress'
  BY <1>3 DEF IInv, HeapInv
<1>5. /\ StoreInv' /\ nextJsonNodeId \in Nat /\ nextJsonNodeId' = nextJsonNodeId + 1
      /\ jsonNodes'[nextJsonNodeId] = nextAddress
      /\ \A h \in Handles : h # nextJsonNodeId => jsonNodes'[h] = jsonNodes[h]
  BY <1>2, <1>3, <1>4, StoreStep DEF IInv
<1>6. \A h \in Handles : jsonNodes[h] # Nil => jsonNodes'[h] # Nil
  BY <1>4, <1>5 DEF Nil
<1>7. nextJsonNodeId' \in Nat /\ nextJsonNodeId <= nextJsonNodeId'
  BY <1>5
<1>8. CallInv'
  BY <1>2, <1>3, <1>4, <1>5, <1>6, <1>7, CallGoesOn DEF IInv
<1>9. QED
  BY <1>3, <1>5, <1>8 DEF IInv

-----------------------------------------------------------------------------
(* The looping natives.                                                    *)

LEMMA InvFacts ==
  ASSUME IInv
  PROVE  /\ nextAddress \in Nat /\ nextAddress > 0
         /\ nextJsonNodeId \in Nat /\ nextJsonNodeId > 0
         /\ call.op # "none" => call.root \in Addresses /\ call.root < nextAddress
<1>1. nextAddress \in Nat /\ nextAddress > 0 /\ nextAddress <= MaxNodes + 1 /\ MaxNodes \in Nat
  BY BoundsAssumption DEF IInv, HeapInv
<1>2. nextJsonNodeId \in Nat /\ nextJsonNodeId > 0
  BY DEF IInv, StoreInv
<1>3. call.root \in 0 .. (nextAddress - 1) /\ (call.op # "none" => call.root # 0)
  BY DEF IInv, CallInv, Nil
<1>4. QED
  BY <1>1, <1>2, <1>3 DEF Addresses

LEMMA BeginBuilderStep ==
  ASSUME IInv, NEW type \in Builders, NEW args \in ObjectCalls \cup ArrayCalls,
         GivenOut(args), BeginBuilder(type, args)
  PROVE  IInv'
<1>1. EmptyNode(type) \in NodeType /\ EmptyNode(type).children = <<>>
  BY DEF EmptyNode, NodeType, NodeTypes, Builders
<1>2. /\ HeapInv' /\ StoreInv' /\ nextAddress' \in Nat /\ nextAddress < nextAddress'
      /\ nextJsonNodeId \in Handles /\ nextJsonNodeId' = nextJsonNodeId + 1
      /\ nextJsonNodeId \in Nat /\ jsonNodes'[nextJsonNodeId] = nextAddress
  BY <1>1, MakeNodeStep DEF IInv, BeginBuilder
<1>3. call' = [op |-> type, root |-> nextAddress, handle |-> nextJsonNodeId,
               args |-> args, at |-> 1]
  BY DEF BeginBuilder, Call
<1>4. nextAddress \in Nat /\ nextAddress > 0
  BY InvFacts
<1>5. PICK m \in Nat : nextAddress' = m
  BY <1>2
<1>6. nextAddress \in 0 .. (m - 1)
  BY <1>2, <1>4, <1>5
<1>7. args \in Seq(Argument) /\ \A i \in DOMAIN args : args[i].from < nextJsonNodeId
  BY CallsAssumption DEF Argument, GivenOut
<1>8. /\ call' \in [op : {"none", "append"} \cup Builders, root : 0 .. (m - 1),
                    handle : Handles \cup {Nil}, args : Seq(Argument), at : Nat \ {0}]
      /\ call'.op = type /\ call'.root = nextAddress /\ call'.handle = nextJsonNodeId
      /\ call'.args = args
  BY <1>2, <1>3, <1>6, <1>7
<1>9. type # "append" /\ type # "none" /\ nextAddress # Nil
  BY <1>4 DEF Builders, Nil
<1>10. nextJsonNodeId < nextJsonNodeId'
  BY <1>2
<1>11. CallInv'
  <2>1. Known(call.handle)'
    BY <1>2, <1>8, <1>9 DEF Known
  <2>2. call'.handle < nextJsonNodeId'
    BY <1>8, <1>10
  <2>3. QED
    BY <1>5, <1>7, <1>8, <1>9, <2>1, <2>2 DEF CallInv
<1>12. QED
  BY <1>2, <1>11 DEF IInv

LEMMA BeginAppendStep ==
  ASSUME IInv, NEW left \in Handles, NEW right \in Handles, BeginAppend(left, right)
  PROVE  IInv'
<1>1. Known(left) /\ Known(right)
  BY DEF BeginAppend, IsA
<1>2. jsonNodes[left] \in Addresses /\ jsonNodes[left] < nextAddress
  BY <1>1, KnownAddress DEF IInv
<1>3. PICK S \in TreesAt(jsonNodes[left]) :
         Allocate(Cardinality(S), nextAddress) /\ heap' = Clone(heap, S)
  BY DEF BeginAppend
<1>4. HeapInv' /\ nextAddress' \in Nat /\ nextAddress < nextAddress'
  BY <1>2, <1>3, TreeIsClonable, CloneStep DEF IInv
<1>5. SameStore /\ nextAddress \in Nat /\ nextAddress > 0 /\ nextAddress <= nextAddress'
  BY <1>4, InvFacts DEF BeginAppend
<1>6. StoreInv' /\ jsonNodes' = jsonNodes
  BY <1>4, <1>5, SameStoreStep DEF IInv, SameStore
<1> DEFINE args == <<[key |-> EmptyName, from |-> left], [key |-> EmptyName, from |-> right]>>
<1>7. args \in Seq(Argument) /\ Len(args) = 2 /\ args[1].from = left /\ args[2].from = right
  BY DEF Argument, Keys, Handles
<1>8. call' = [op |-> "append", root |-> nextAddress, handle |-> Nil, args |-> args, at |-> 1]
  BY DEF BeginAppend, Call
<1> HIDE DEF args
<1>9. PICK m \in Nat : nextAddress' = m
  BY <1>4
<1>10. nextAddress \in 0 .. (m - 1)
  BY <1>4, <1>5, <1>9
<1>11. /\ call' \in [op : {"none", "append"} \cup Builders, root : 0 .. (m - 1),
                     handle : Handles \cup {Nil}, args : Seq(Argument), at : Nat \ {0}]
       /\ call'.op = "append" /\ call'.root = nextAddress /\ call'.args = args
  BY <1>7, <1>8, <1>10
<1>12. "append" \notin Builders /\ nextAddress # Nil
  BY <1>5 DEF Builders, Nil
<1>13. Known(left)' /\ Known(right)'
  BY <1>1, <1>6 DEF Known
<1>14. CallInv'
  <2>1. Known(call.args[1].from)' /\ Known(call.args[2].from)'
    BY <1>7, <1>11, <1>1, <1>6 DEF Known
  <2>2. QED
    BY <1>7, <1>9, <1>11, <1>12, <2>1 DEF CallInv
<1>15. QED
  BY <1>4, <1>6, <1>14 DEF IInv

\* A step of a loop: a copy goes below the root of the call.
LEMMA LoopStep ==
  ASSUME IInv, call.op # "none", NEW key \in Keys, NEW a \in Addresses, a < nextAddress,
         InsertCopy(call.root, key, a), call' = Next_(call), SameStore
  PROVE  IInv'
<1>1. call.root \in Addresses /\ call.root < nextAddress
      /\ nextAddress \in Nat /\ nextJsonNodeId \in Nat
  BY InvFacts
<1>2. HeapInv' /\ nextAddress' \in Nat /\ nextAddress < nextAddress'
  BY <1>1, InsertCopyStep DEF IInv
<1>3. nextAddress <= nextAddress'
  BY <1>1, <1>2
<1>4. StoreInv'
  BY <1>2, <1>3, SameStoreStep DEF IInv
<1>5. jsonNodes' = jsonNodes /\ nextJsonNodeId' = nextJsonNodeId
  BY DEF SameStore
<1>6. nextJsonNodeId' \in Nat /\ nextJsonNodeId <= nextJsonNodeId'
  BY <1>1, <1>5
<1>7. CallInv'
  BY <1>1, <1>2, <1>3, <1>5, <1>6, CallGoesOn DEF IInv
<1>8. QED
  BY <1>2, <1>4, <1>7 DEF IInv

LEMMA AppendStepKeeps ==
  ASSUME IInv, AppendStep
  PROVE  IInv'
<1> DEFINE h == call.args[2].from
           b == jsonNodes[h]
           s == heap[b].children
           i == call.at
<1>1. call.op = "append" /\ Known(h) /\ h \in Handles
  BY DEF AppendStep, IInv, CallInv, Known
<1>2. b \in Addresses
  BY <1>1, KnownAddress DEF IInv
<1>3. i \in DOMAIN s /\ InsertCopy(call.root, s[i].key, s[i].node)
      /\ call' = Next_(call) /\ SameStore
  BY DEF AppendStep, Right
<1>4. s[i].node \in (b + 1) .. (nextAddress - 1)
  BY <1>2, <1>3 DEF IInv, HeapInv, Nested
<1>5. s \in Seq([key : Keys, node : Nat])
  BY <1>2 DEF IInv, HeapInv, NodeType
<1> HIDE DEF s, i, b
<1>6. s[i] \in [key : Keys, node : Nat]
  BY <1>3, <1>5, Zenon, ElementOfSeq, LenProperties
<1> DEFINE c == s[i].node
<1>7. s[i].key \in Keys /\ c \in Nat
  BY <1>6
<1>8. nextAddress \in Nat /\ nextAddress <= MaxNodes + 1 /\ MaxNodes \in Nat /\ b \in Nat
  BY <1>2, BoundsAssumption DEF IInv, HeapInv, Addresses
<1>9. c \in Addresses /\ c < nextAddress
  <2>1. c \in (b + 1) .. (nextAddress - 1)
    BY <1>4
  <2> HIDE DEF c
  <2>2. QED
    BY <1>7, <1>8, <2>1 DEF Addresses
<1>10. QED
  BY <1>1, <1>3, <1>7, <1>9, LoopStep

LEMMA BuilderStepKeeps ==
  ASSUME IInv, BuilderStep
  PROVE  IInv'
<1>1. call.op # "none" /\ call.at \in DOMAIN call.args /\ call.args \in Seq(Argument)
  BY DEF BuilderStep, Builders, IInv, CallInv
<1>2. Current \in Argument
  BY <1>1, Zenon, ElementOfSeq, LenProperties DEF Current
<1>3. Current.key \in Keys
  BY <1>2 DEF Argument
<1>4. Known(Current.from) /\ Current.from \in Handles
  BY DEF BuilderStep, Fits, Known
<1>5. jsonNodes[Current.from] \in Addresses /\ jsonNodes[Current.from] < nextAddress
  BY <1>4, KnownAddress DEF IInv
<1>6. QED
  BY <1>1, <1>3, <1>5, LoopStep DEF BuilderStep

LEMMA AppendEndsKeeps ==
  ASSUME IInv, AppendEnds
  PROVE  IInv'
<1>1. /\ nextAddress' = nextAddress /\ heap' = heap /\ origin' = origin /\ call' = NoCall
      /\ StoreJsonNode(Without(Consumed(2)), call.root)
  BY DEF AppendEnds, SameHeap
<1>2. HeapInv'
  BY <1>1 DEF IInv, HeapInv, Nested, OneParent, Separate
<1>3. nextAddress \in Nat /\ nextAddress > 0 /\ nextJsonNodeId \in Nat
  BY InvFacts
<1>4. call.root \in 0 .. (nextAddress - 1)
  BY DEF IInv, CallInv
<1>5. Without(Consumed(2)) \in [Handles -> 0 .. (nextAddress - 1)]
  <2>1. \A h \in Handles : Without(Consumed(2))[h] \in 0 .. (nextAddress - 1)
    BY <1>3 DEF Without, IInv, StoreInv, Nil
  <2>2. QED
    BY <2>1 DEF Without
<1>6. jsonNodes' \in [Handles -> 0 .. (nextAddress - 1)]
  BY <1>1, <1>4, <1>5 DEF StoreJsonNode
<1>7. nextJsonNodeId' \in 1 .. MaxHandles + 1
  BY <1>1, BoundsAssumption DEF StoreJsonNode, Handles
<1>8. StoreInv'
  BY <1>1, <1>6, <1>7 DEF StoreInv
<1>9. QED
  BY <1>1, <1>2, <1>3, <1>8, IdleStep DEF IInv

-----------------------------------------------------------------------------
(* The invariant is inductive.                                             *)

LEMMA InitEstablishesIInv == Init => IInv
<1> SUFFICES ASSUME Init PROVE IInv
  OBVIOUS
<1>1. Fresh \in NodeType /\ Fresh.children = <<>>
  BY DEF Fresh, NodeType, NodeTypes
<1>2. heap \in [Addresses -> NodeType] /\ \A a \in Addresses : DOMAIN heap[a].children = {}
  BY <1>1 DEF Init
<1>3. nextAddress \in 1 .. MaxNodes + 1 /\ nextJsonNodeId \in 1 .. MaxHandles + 1
  BY BoundsAssumption DEF Init
<1>4. HeapInv
  BY <1>2, <1>3 DEF Init, HeapInv, Nested, OneParent, Separate
<1>5. StoreInv
  <2>1. Nil \in 0 .. (1 - 1)
    BY DEF Nil
  <2>2. jsonNodes \in [Handles -> 0 .. (nextAddress - 1)]
    BY <2>1 DEF Init
  <2>3. QED
    BY <1>3, <2>2 DEF StoreInv
<1>6. CallInv
  <2>1. NoCall \in [op : {"none", "append"} \cup Builders, root : 0 .. (1 - 1),
                    handle : Handles \cup {Nil}, args : Seq(Argument), at : Nat \ {0}]
        /\ NoCall.op = "none" /\ "none" \notin Builders
    BY DEF NoCall, Nil, Builders
  <2>2. QED
    BY <2>1 DEF Init, CallInv
<1>7. QED
  BY <1>4, <1>5, <1>6 DEF IInv

\* A native that makes, reads or changes a node in one step.
LEMMA IdleKeeps ==
  ASSUME IInv, HeapInv', StoreInv', call' = NoCall
  PROVE  IInv'
<1>1. nextAddress' \in Nat /\ nextAddress' > 0
  BY DEF HeapInv
<1>2. QED
  BY <1>1, IdleStep DEF IInv

LEMMA MakeKeeps ==
  ASSUME IInv, MainIdle, UNCHANGED call,
         NEW node \in NodeType, node.children = <<>>, MakeNode(node)
  PROVE  IInv'
BY MakeNodeStep, IdleKeeps DEF IInv, MainIdle

LEMMA InsertKeeps ==
  ASSUME IInv, MainIdle, UNCHANGED call, NEW h \in Handles, Known(h), NEW key \in Keys, SameStore,
         \/ \E g \in Handles : Known(g) /\ InsertCopy(jsonNodes[h], key, jsonNodes[g])
         \/ \E v \in Scalars : InsertScalar(jsonNodes[h], key, v)
  PROVE  IInv'
<1>1. HeapInv' /\ StoreInv'
  BY InsertStep DEF IInv
<1>2. QED
  BY <1>1, IdleKeeps DEF MainIdle

LEMMA GetKeeps ==
  ASSUME IInv, MainIdle, UNCHANGED call, NEW h \in Handles, Known(h),
         NEW i \in DOMAIN heap[jsonNodes[h]].children, GetChild(h, i)
  PROVE  IInv'
<1>1. HeapInv' /\ StoreInv'
  BY GetStep DEF IInv
<1>2. QED
  BY <1>1, IdleKeeps DEF MainIdle

LEMMA WithoutKeeps ==
  ASSUME IInv, NEW hs, jsonNodes' = Without(hs), nextJsonNodeId' = nextJsonNodeId,
         SameHeap, call' = NoCall
  PROVE  IInv'
<1>1. HeapInv' /\ StoreInv'
  BY WithoutStep DEF IInv
<1>2. QED
  BY <1>1, IdleKeeps

LEMMA NextKeepsIInv == IInv /\ [Next]_vars => IInv'
<1> SUFFICES ASSUME IInv, [Next]_vars PROVE IInv'
  OBVIOUS
<1>1. ASSUME NEW node \in NodeType, node.children = <<>>, MainIdle /\ MakeNode(node) /\ UNCHANGED call
      PROVE  IInv'
  BY <1>1, MakeKeeps
<1>2. CASE JsonNodeObject \/ JsonNodeArray \/ \E v \in Scalars : JsonNodeScalar(v)
  <2>1. /\ EmptyNode("object") \in NodeType /\ EmptyNode("object").children = <<>>
        /\ EmptyNode("array") \in NodeType /\ EmptyNode("array").children = <<>>
        /\ \A v \in Scalars : ScalarNode(v) \in NodeType /\ ScalarNode(v).children = <<>>
    BY DEF EmptyNode, ScalarNode, NodeType, NodeTypes
  <2>2. QED
    BY <1>1, <1>2, <2>1 DEF JsonNodeObject, JsonNodeArray, JsonNodeScalar
<1>3. CASE OddArguments
  <2>1. /\ nextAddress' = nextAddress /\ heap' = heap /\ origin' = origin
        /\ jsonNodes' = jsonNodes /\ call' = NoCall
        /\ nextJsonNodeId \in Handles /\ nextJsonNodeId' = nextJsonNodeId + 1
    BY <1>3 DEF OddArguments, SameHeap, MainIdle
  <2>2. HeapInv'
    BY <2>1 DEF IInv, HeapInv, Nested, OneParent, Separate
  <2>3. nextJsonNodeId' \in 1 .. MaxHandles + 1
    BY <2>1, BoundsAssumption DEF Handles
  <2>4. StoreInv'
    BY <2>1, <2>3 DEF IInv, StoreInv
  <2>5. QED
    BY <2>1, <2>2, <2>4, IdleKeeps
<1>4. CASE Reset
  <2>1. jsonNodes' = Without(Handles)
    BY <1>4 DEF Reset, Without
  <2>2. QED
    BY <1>4, <2>1, WithoutKeeps DEF Reset, MainIdle
<1>5. ASSUME NEW h \in Handles, ReleaseJsonNode(h) PROVE IInv'
  BY <1>5, WithoutKeeps DEF ReleaseJsonNode, MainIdle
<1>6. ASSUME NEW h \in Handles, NEW k \in Keys, JsonNodeGet(h, k) PROVE IInv'
  <2> DEFINE s == heap[jsonNodes[h]].children
             i == PositionOf(s, k)
  <2>1. /\ MainIdle /\ Known(h) /\ i # Nil /\ GetChild(h, i) /\ UNCHANGED call
    BY <1>6 DEF JsonNodeGet, IsA, GetChild
  <2>2. jsonNodes[h] \in Addresses
    BY <2>1, KnownAddress DEF IInv
  <2>3. s \in Seq([key : Keys, node : Nat])
    BY <2>2 DEF IInv, HeapInv, NodeType
  <2>4. DOMAIN s \subseteq Nat
    <3> HIDE DEF s
    <3> QED
      BY <2>3
  <2>5. i \in DOMAIN s
    BY <2>1, <2>4, PositionIsIndex
  <2>6. QED
    BY <2>1, <2>5, GetKeeps
<1>7. ASSUME NEW h \in Handles, NEW i \in Addresses, JsonNodeArrayGet(h, i) PROVE IInv'
  <2>1. /\ MainIdle /\ Known(h) /\ i \in DOMAIN heap[jsonNodes[h]].children
        /\ GetChild(h, i) /\ UNCHANGED call
    BY <1>7 DEF JsonNodeArrayGet, IsA, GetChild
  <2>2. QED
    BY <2>1, GetKeeps
<1>8. ASSUME NEW h \in Handles, NEW k \in Keys, NEW g \in Handles, JsonNodeSet(h, k, g)
      PROVE  IInv'
  BY <1>8, InsertKeeps DEF JsonNodeSet, IsA
<1>9. ASSUME NEW h \in Handles, NEW k \in Keys, NEW v \in Scalars, JsonNodeSetScalar(h, k, v)
      PROVE  IInv'
  BY <1>9, InsertKeeps DEF JsonNodeSetScalar, IsA
<1>10. EmptyName \in Keys
  BY DEF Keys
<1>11. ASSUME NEW h \in Handles, NEW g \in Handles, JsonNodeArrayPush(h, g) PROVE IInv'
  BY <1>10, <1>11, InsertKeeps DEF JsonNodeArrayPush, IsA
<1>12. ASSUME NEW h \in Handles, NEW v \in Scalars, JsonNodeArrayPushScalar(h, v) PROVE IInv'
  BY <1>10, <1>12, InsertKeeps DEF JsonNodeArrayPushScalar, IsA
<1>13. ASSUME NEW h \in Handles, NEW g \in Handles, BeginAppend(h, g) PROVE IInv'
  BY <1>13, BeginAppendStep
<1>14. ASSUME NEW args \in ObjectCalls, GivenOut(args), BeginBuilder("object", args) PROVE IInv'
  BY <1>14, BeginBuilderStep DEF Builders
<1>15. ASSUME NEW args \in ArrayCalls, GivenOut(args), BeginBuilder("array", args) PROVE IInv'
  BY <1>15, BeginBuilderStep DEF Builders
<1>16. CASE BuilderStep
  BY <1>16, BuilderStepKeeps
<1>17. CASE BuilderFails \/ BuilderEnds
  BY <1>17, WithoutKeeps DEF BuilderFails, BuilderEnds
<1>18. CASE AppendStep
  BY <1>18, AppendStepKeeps
<1>19. CASE AppendEnds
  BY <1>19, AppendEndsKeeps
<1>20. ASSUME NEW tree \in Trees, ParseJsonNode(tree) PROVE IInv'
  BY <1>20, ParseStep
<1>21. CASE UNCHANGED vars
  BY <1>21 DEF vars, IInv, HeapInv, StoreInv, CallInv, Nested, OneParent, Separate, Known
<1>22. QED
  BY <1>2, <1>3, <1>4, <1>5, <1>6, <1>7, <1>8, <1>9, <1>11, <1>12, <1>13, <1>14, <1>15,
     <1>16, <1>17, <1>18, <1>19, <1>20, <1>21 DEF Next, Natives

-----------------------------------------------------------------------------
(* The theorems.                                                           *)

\* The invariant holds in every reachable state.
THEOREM InvariantHolds == Spec => []IInv
<1>1. Init => IInv
  BY InitEstablishesIInv
<1>2. IInv /\ [Next]_vars => IInv'
  BY NextKeepsIInv
<1>3. QED
  BY <1>1, <1>2, PTL DEF Spec

\* The heap, the store and the call under way keep their types, for every
\* list of arguments and every parsed tree.
THEOREM TypeIsCorrect == Spec => []TypeOK
<1>1. IInv => TypeOK
  <2> SUFFICES ASSUME IInv PROVE TypeOK
    OBVIOUS
  <2>1. nextAddress \in Nat /\ nextAddress <= MaxNodes + 1 /\ MaxNodes \in Nat
    BY BoundsAssumption DEF IInv, HeapInv
  <2>2. 0 .. (nextAddress - 1) \subseteq Addresses \cup {Nil}
    BY <2>1 DEF Addresses, Nil
  <2>3. jsonNodes \in [Handles -> Addresses \cup {Nil}]
    BY <2>2 DEF IInv, StoreInv
  <2>4. call \in [op : {"none", "append"} \cup Builders, root : Addresses \cup {Nil},
                  handle : Handles \cup {Nil}, args : Seq(Argument), at : Nat \ {0}]
    BY <2>2 DEF IInv, CallInv
  <2>5. QED
    BY <2>3, <2>4 DEF TypeOK, IInv, HeapInv, StoreInv, NodeType
<1>2. QED
  BY <1>1, InvariantHolds, PTL

\* Whatever the script does, nodes form a forest: a child is made after its
\* parent and hangs in one place, so the recursions over a node end.
THEOREM NodesFormAForest == Spec => []Forest
<1>1. IInv => Forest
  <2> SUFFICES ASSUME IInv PROVE Forest
    OBVIOUS
  <2>1. \A a \in Addresses : Children(a) \subseteq (a + 1) .. (nextAddress - 1)
    BY DEF IInv, HeapInv, Nested, Children, ChildrenIn
  <2>2. OneParent(heap)
    BY DEF IInv, HeapInv
  <2>3. QED
    BY <2>1, <2>2 DEF Forest, OneParent
<1>2. QED
  BY <1>1, InvariantHolds, PTL

\* A child belongs to the root its parent belongs to: what was set, pushed or
\* appended is a copy that no other root leads to.
THEOREM CopiesShareNothing == Spec => []CopiesAreSeparate
<1>1. IInv => CopiesAreSeparate
  BY DEF IInv, HeapInv, Separate, CopiesAreSeparate, Children, ChildrenIn
<1>2. QED
  BY <1>1, InvariantHolds, PTL

\* JsonObject and JsonArray consume all their arguments, or those before the
\* one they fail at; nothing else leaves the store.
THEOREM BuildersSettle == Spec => BuilderSettles
<1>1. IInv /\ [Next]_vars => [BuilderOutcome]_vars
  <2> SUFFICES ASSUME IInv, Next, call.op \in Builders, call'.op = "none"
               PROVE  BuilderOutcome
    BY DEF BuilderOutcome, vars
  <2>1. call.op # "none" /\ call.op # "append" /\ ~MainIdle
    BY DEF Builders, MainIdle, NoCall
  <2>2. CASE BuilderFails
    <3>1. call.at \in DOMAIN call.args
          /\ jsonNodes' = Without(Consumed(call.at - 1) \cup {call.handle})
      BY <2>2 DEF BuilderFails
    <3>2. \/ ~Known(call.args[call.at].from)
          \/ call.op = "object" /\ call.args[call.at].key = EmptyName
      BY <2>2 DEF BuilderFails, Fits, Current
    <3>3. \A h \in Handles :
             jsonNodes'[h] = IF h \in Consumed(call.at - 1) \cup {call.handle} THEN Nil
                             ELSE jsonNodes[h]
      BY <3>1 DEF Without
    <3>4. QED
      BY <3>1, <3>2, <3>3 DEF BuilderOutcome
  <2>3. CASE BuilderEnds
    <3>1. jsonNodes' = Without(Consumed(Len(call.args)))
      BY <2>3 DEF BuilderEnds
    <3>2. call.handle \in Handles /\ jsonNodes[call.handle] # Nil
      BY DEF IInv, CallInv, Known
    <3>3. call.handle \notin Consumed(Len(call.args))
      <4>1. call.args \in Seq(Argument)
        BY DEF IInv, CallInv
      <4>2. DOMAIN call.args = 1 .. Len(call.args)
        BY <4>1
      <4>3. \A i \in DOMAIN call.args : call.args[i].from < call.handle
        BY DEF IInv, CallInv
      <4>4. call.handle \in Nat
        BY <3>2 DEF Handles
      <4>5. \A i \in DOMAIN call.args : call.args[i].from # call.handle
        BY <4>3, <4>4
      <4>6. QED
        BY <4>2, <4>5 DEF Consumed
    <3>4. jsonNodes'[call.handle] # Nil
      BY <3>1, <3>2, <3>3 DEF Without
    <3>5. \A h \in Handles :
             jsonNodes'[h] = IF h \in Consumed(Len(call.args)) THEN Nil ELSE jsonNodes[h]
      BY <3>1 DEF Without
    <3>6. QED
      BY <3>4, <3>5 DEF BuilderOutcome
  <2>4. CASE BuilderStep
    <3>1. call'.op = call.op
      BY <2>4 DEF BuilderStep, Next_, IInv, CallInv
    <3>2. QED
      BY <2>1, <3>1
  <2>5. CASE AppendStep \/ AppendEnds
    BY <2>1, <2>5 DEF AppendStep, AppendEnds
  <2>6. CASE \E tree \in Trees : ParseJsonNode(tree)
    BY <2>1, <2>6 DEF ParseJsonNode
  <2>7. BuilderFails \/ BuilderEnds \/ BuilderStep \/ AppendStep \/ AppendEnds
        \/ \E tree \in Trees : ParseJsonNode(tree)
    BY <2>1 DEF Next, Natives, JsonNodeObject, JsonNodeArray, OddArguments, Reset, JsonNodeScalar,
       JsonNodeGet, JsonNodeSet, JsonNodeSetScalar, ReleaseJsonNode, JsonNodeArrayPush,
       BeginAppend, JsonNodeArrayPushScalar, JsonNodeArrayGet, BeginBuilder
  <2>8. QED
    BY <2>2, <2>3, <2>4, <2>5, <2>6, <2>7
<1>2. QED
  BY <1>1, InvariantHolds, PTL DEF Spec, BuilderSettles

-----------------------------------------------------------------------------
(* Values.                                                                 *)

\* What ValueAt builds for the node at b of a heap h, from the values v.
ValueOf(h, v, b) ==
    [type |-> h[b].type, value |-> h[b].value,
     children |-> [i \in DOMAIN h[b].children |->
         <<h[b].children[i].key, v[h[b].children[i].node]>>]]
Values(h, v) == v = [b \in Addresses |-> ValueOf(h, v, b)]

\* Children come later than their parents, so the values of a heap exist.
LEMMA ValuesExist ==
  ASSUME NEW h, NEW n \in Nat, n <= MaxNodes + 1, Nested(h, n)
  PROVE  \E v : Values(h, v)
<1> DEFINE From(v, m) ==
             /\ DOMAIN v = Addresses /\ v = [b \in Addresses |-> v[b]]
             /\ \A b \in Addresses : b >= m => v[b] = ValueOf(h, v, b)
           T == {m \in 1 .. MaxNodes + 1 : \E v : From(v, m)}
<1>1. MaxNodes \in Nat /\ Addresses = 1 .. MaxNodes
  BY BoundsAssumption DEF Addresses
<1>2. MaxNodes + 1 \in T
  <2>1. From([b \in Addresses |-> 0], MaxNodes + 1)
    BY <1>1
  <2>2. MaxNodes + 1 \in 1 .. MaxNodes + 1
    BY <1>1
  <2> HIDE DEF From
  <2>3. QED
    BY <2>1, <2>2
<1>3. ASSUME NEW m \in T, m # 1 PROVE m - 1 \in T
  <2>1. m \in 1 .. MaxNodes + 1 /\ m - 1 \in Addresses /\ m - 1 \in 1 .. MaxNodes + 1
    BY <1>1, <1>3
  <2>2. PICK v : From(v, m)
    OBVIOUS
  <2> DEFINE w == [b \in Addresses |-> IF b = m - 1 THEN ValueOf(h, v, b) ELSE v[b]]
  <2>3. ASSUME NEW b \in Addresses, b >= m - 1
        PROVE  ValueOf(h, w, b) = ValueOf(h, v, b)
    <3>1. ASSUME NEW i \in DOMAIN h[b].children
          PROVE  w[h[b].children[i].node] = v[h[b].children[i].node]
      <4> DEFINE c == h[b].children[i].node
      <4>1. c \in (b + 1) .. (n - 1)
        BY DEF Nested
      <4> HIDE DEF c
      <4>2. c # m - 1
        BY <1>1, <2>1, <2>3, <4>1
      <4>3. c \in Addresses
        BY <1>1, <2>3, <4>1
      <4>4. QED
        BY <4>2, <4>3 DEF c
    <3> HIDE DEF w
    <3>2. QED
      BY <3>1 DEF ValueOf
  <2>4. From(w, m - 1)
    <3>1. ASSUME NEW b \in Addresses, b >= m - 1 PROVE w[b] = ValueOf(h, v, b)
      BY <1>1, <2>1, <2>2, <3>1
    <3>2. DOMAIN w = Addresses /\ w = [b \in Addresses |-> w[b]]
      OBVIOUS
    <3> HIDE DEF w
    <3>3. QED
      BY <2>3, <3>1, <3>2
  <2> HIDE DEF From
  <2>5. QED
    BY <2>1, <2>4
<1>4. 1 \in T
  <2>1. T \in SUBSET Nat /\ T # {}
    BY <1>2
  <2>2. PICK m \in T : \A k \in T : m <= k
    BY <2>1, LeastOf
  <2>3. m \in Nat
    BY <2>1
  <2> HIDE DEF T
  <2>4. ~(m <= m - 1)
    BY <2>3
  <2>5. QED
    BY <1>3, <2>2, <2>4
<1>5. PICK v : From(v, 1)
  BY <1>4
<1>6. \A b \in Addresses : v[b] = ValueOf(h, v, b)
  BY <1>1, <1>5
<1>7. QED
  BY <1>5, <1>6 DEF Values

\* ValueAt gives the values of the heap.
LEMMA ValueAtIs ==
  HeapInv => \E v : Values(heap, v) /\ \A a \in Addresses : ValueAt(a) = v[a]
<1> SUFFICES ASSUME HeapInv
             PROVE  \E v : Values(heap, v) /\ \A a \in Addresses : ValueAt(a) = v[a]
  OBVIOUS
<1>1. \E v : Values(heap, v)
  <2>1. nextAddress \in Nat /\ nextAddress <= MaxNodes + 1 /\ Nested(heap, nextAddress)
    BY BoundsAssumption DEF HeapInv
  <2>2. QED
    BY <2>1, ValuesExist
<1>2. Values(heap, CHOOSE v : Values(heap, v))
  BY <1>1
<1>3. \A a : ValueAt(a) = (CHOOSE v : Values(heap, v))[a]
  BY DEF ValueAt, Values, ValueOf
<1>4. QED
  BY <1>2, <1>3

\* The nodes of S in one heap and their images under m in another differ only
\* in where they are, and so do their children, which are in S.
Image(h, g, S, m) ==
    \A b \in S :
       /\ m[b] \in Addresses
       /\ g[m[b]].type = h[b].type /\ g[m[b]].value = h[b].value
       /\ DOMAIN g[m[b]].children = DOMAIN h[b].children
       /\ \A i \in DOMAIN h[b].children :
             /\ g[m[b]].children[i].key = h[b].children[i].key
             /\ g[m[b]].children[i].node = m[h[b].children[i].node]
             /\ h[b].children[i].node \in S /\ b < h[b].children[i].node

\* The trees at S in one heap have the values of their images in another.
LEMMA SameValues ==
  ASSUME NEW h, NEW g, NEW v, NEW w, Values(h, v), Values(g, w),
         NEW S \in SUBSET Addresses, NEW m, Image(h, g, S, m)
  PROVE  \A b \in S : w[m[b]] = v[b]
<1> DEFINE T == {n \in Nat : \E b \in S : n = MaxNodes - b /\ w[m[b]] # v[b]}
<1>1. MaxNodes \in Nat /\ \A b \in S : b \in Nat /\ MaxNodes - b \in Nat
  BY BoundsAssumption DEF Addresses
<1>2. ASSUME NEW b \in S, \A c \in S : b < c => w[m[c]] = v[c]
      PROVE  w[m[b]] = v[b]
  <2>1. w[m[b]] = ValueOf(g, w, m[b]) /\ v[b] = ValueOf(h, v, b)
    BY DEF Values, Image
  <2>2. \A i \in DOMAIN h[b].children :
           w[g[m[b]].children[i].node] = v[h[b].children[i].node]
    BY <1>2 DEF Image
  <2>3. ValueOf(g, w, m[b]) = ValueOf(h, v, b)
    BY <2>2 DEF ValueOf, Image
  <2>4. QED
    BY <2>1, <2>3
<1>3. ASSUME T # {} PROVE FALSE
  <2>1. T \in SUBSET Nat
    OBVIOUS
  <2>2. PICK n \in T : \A k \in T : n <= k
    BY <1>3, <2>1, LeastOf
  <2>3. PICK b \in S : n = MaxNodes - b /\ w[m[b]] # v[b]
    BY <2>2
  <2>4. ASSUME NEW c \in S, b < c PROVE w[m[c]] = v[c]
    <3>1. MaxNodes - c \in Nat /\ ~(n <= MaxNodes - c)
      BY <1>1, <2>3, <2>4
    <3>2. MaxNodes - c \notin T
      BY <2>2, <3>1
    <3>3. QED
      BY <3>1, <3>2
  <2>5. QED
    BY <1>2, <2>3, <2>4
<1>4. QED
  BY <1>1, <1>3

\* The members of the node at a: what ValueAt has as its children.
Members(h, v, a) ==
    [i \in DOMAIN h[a].children |-> <<h[a].children[i].key, v[h[a].children[i].node]>>]

LEMMA SameMembers ==
  ASSUME NEW h, NEW g, NEW v, NEW w, Values(h, v), Values(g, w),
         NEW a \in Addresses, NEW b \in Addresses, w[b] = v[a]
  PROVE  g[b].type = h[a].type /\ Members(g, w, b) = Members(h, v, a)
<1>1. w[b] = ValueOf(g, w, b) /\ v[a] = ValueOf(h, v, a)
  BY DEF Values
<1>2. /\ ValueOf(g, w, b).type = g[b].type /\ ValueOf(g, w, b).children = Members(g, w, b)
      /\ ValueOf(h, v, a).type = h[a].type /\ ValueOf(h, v, a).children = Members(h, v, a)
  BY DEF ValueOf, Members
<1>3. QED
  BY <1>1, <1>2

\* Old nodes keep their values when the heap grows and changes at most at a
\* node that nothing leads to.
LEMMA FrameValues ==
  ASSUME HeapInv, NEW g, NEW v, NEW w, Values(heap, v), Values(g, w),
         NEW root, Unused(heap, root),
         \A x \in Addresses : x < nextAddress /\ x # root => g[x] = heap[x]
  PROVE  \A x \in Addresses : x < nextAddress /\ x # root => w[x] = v[x]
<1> DEFINE S == {x \in Addresses : x < nextAddress /\ x # root}
           m == [x \in S |-> x]
<1>1. nextAddress \in Nat /\ nextAddress <= MaxNodes + 1 /\ MaxNodes \in Nat
  BY BoundsAssumption DEF HeapInv
<1>2. ASSUME NEW b \in S, NEW i \in DOMAIN heap[b].children
      PROVE  heap[b].children[i].node \in S /\ b < heap[b].children[i].node
  <2> DEFINE c == heap[b].children[i].node
  <2>1. c \in (b + 1) .. (nextAddress - 1) /\ c # root
    BY DEF HeapInv, Nested, Unused
  <2>2. b \in Nat
    BY DEF Addresses
  <2> HIDE DEF c
  <2>3. c \in Addresses /\ c < nextAddress /\ b < c
    BY <1>1, <2>1, <2>2 DEF Addresses
  <2>4. QED
    BY <2>1, <2>3 DEF c
<1>3. ASSUME NEW b \in S, NEW i \in DOMAIN heap[b].children
      PROVE  m[heap[b].children[i].node] = heap[b].children[i].node
  BY <1>2
<1>4. S \in SUBSET Addresses /\ \A b \in S : m[b] = b /\ m[b] \in Addresses /\ g[b] = heap[b]
  OBVIOUS
<1> HIDE DEF S, m
<1>5. Image(heap, g, S, m)
  BY <1>2, <1>3, <1>4 DEF Image
<1>6. \A b \in S : w[m[b]] = v[b]
  BY <1>4, <1>5, SameValues
<1>7. QED
  BY <1>4, <1>6 DEF S

\* A clone is in its place, and what was below the block is as it was.
LEMMA CloneAt ==
  ASSUME nextAddress \in Nat, NEW h, NEW S, Clonable(h, S)
  PROVE  /\ \A b \in S : Place(S, b) \in Addresses => Clone(h, S)[Place(S, b)] = Moved(h[b], S)
         /\ \A a \in Addresses : a < nextAddress => Clone(h, S)[a] = heap[a]
<1>1. S \in SUBSET Nat /\ IsFiniteSet(S)
  BY DEF Clonable
<1>2. ASSUME NEW b \in S, Place(S, b) \in Addresses
      PROVE  Clone(h, S)[Place(S, b)] = Moved(h[b], S)
  <2> DEFINE c == CHOOSE x \in S : Place(S, x) = Place(S, b)
  <2>1. c \in S /\ Place(S, c) = Place(S, b)
    OBVIOUS
  <2>2. c = b
    BY <1>1, <2>1, PlaceIsInjective
  <2>3. Clone(h, S)[Place(S, b)] = Moved(h[c], S)
    BY <1>2 DEF Clone
  <2>4. QED
    BY <2>2, <2>3
<1>3. ASSUME NEW a \in Addresses, a < nextAddress PROVE Clone(h, S)[a] = heap[a]
  <2>1. ASSUME NEW b \in S PROVE Place(S, b) # a
    <3>1. Cardinality(S) \in Nat
          /\ Place(S, b) \in nextAddress .. (nextAddress + Cardinality(S) - 1)
      BY <1>1, PlaceInBlock
    <3>2. a \in Nat
      BY DEF Addresses
    <3>3. QED
      BY <1>3, <3>1, <3>2
  <2>2. QED
    BY <2>1 DEF Clone
<1>4. QED
  BY <1>2, <1>3

LEMMA MovedKeeps ==
  ASSUME NEW node \in NodeType, NEW S
  PROVE  /\ Moved(node, S).type = node.type /\ Moved(node, S).value = node.value
         /\ DOMAIN Moved(node, S).children = DOMAIN node.children
         /\ \A i \in DOMAIN node.children :
               /\ Moved(node, S).children[i].key = node.children[i].key
               /\ Moved(node, S).children[i].node = Place(S, node.children[i].node)
<1>1. /\ Moved(node, S).type = node.type /\ Moved(node, S).value = node.value
      /\ Moved(node, S).children =
            [i \in DOMAIN node.children |->
                [key |-> node.children[i].key, node |-> Place(S, node.children[i].node)]]
  BY DEF Moved, NodeType
<1>2. QED
  BY <1>1

\* The root of a tree comes first, so its copy is at nextAddress.
LEMMA TreePlace ==
  ASSUME HeapInv, NEW a \in Addresses, a < nextAddress, NEW S \in TreesAt(a)
  PROVE  /\ a \in S /\ S \in SUBSET Addresses /\ Place(S, a) = nextAddress
         /\ \A x \in S : x < nextAddress
<1>1. nextAddress \in Nat /\ nextAddress <= MaxNodes + 1 /\ MaxNodes \in Nat
      /\ a \in Nat /\ a > 0
  BY BoundsAssumption DEF HeapInv, Addresses
<1>2. PICK T \in SUBSET (Held \cap (a + 1) .. (nextAddress - 1)) : S = {a} \cup T
  BY DEF TreesAt
<1>3. a \in S /\ \A x \in S : x \in Nat /\ a <= x /\ x < nextAddress
  BY <1>1, <1>2
<1>4. S \in SUBSET Addresses
  BY <1>1, <1>3 DEF Addresses
<1>5. {x \in S : x < a} = {}
  <2>1. \A x \in S : ~(x < a)
    BY <1>1, <1>3
  <2>2. QED
    BY <2>1
<1>6. Place(S, a) = nextAddress + 0
  BY <1>5, FS_EmptySet DEF Place
<1>7. QED
  BY <1>1, <1>3, <1>4, <1>6

\* The copy of a tree has its value.
LEMMA CopyValues ==
  ASSUME HeapInv, NEW a \in Addresses, a < nextAddress, NEW S \in TreesAt(a),
         Cardinality(S) \in Nat, nextAddress + Cardinality(S) <= MaxNodes + 1,
         NEW g, NEW v, NEW w, Values(heap, v), Values(g, w),
         \A x \in Addresses : x >= nextAddress => g[x] = Clone(heap, S)[x]
  PROVE  nextAddress \in Addresses /\ w[nextAddress] = v[a]
<1> DEFINE m == [b \in S |-> Place(S, b)]
<1>1. nextAddress \in Nat /\ nextAddress > 0 /\ MaxNodes \in Nat
  BY BoundsAssumption DEF HeapInv
<1>2. Clonable(heap, S)
  BY TreeIsClonable
<1>3. a \in S /\ S \in SUBSET Addresses /\ Place(S, a) = nextAddress
  BY TreePlace
<1>4. S \in SUBSET Nat /\ IsFiniteSet(S)
  BY <1>2 DEF Clonable
<1>5. ASSUME NEW b \in S
      PROVE  Place(S, b) \in Addresses /\ g[Place(S, b)] = Moved(heap[b], S)
  <2>1. Place(S, b) \in nextAddress .. (nextAddress + Cardinality(S) - 1)
    BY <1>1, <1>4, PlaceInBlock
  <2>2. Place(S, b) \in Addresses /\ Place(S, b) >= nextAddress
    BY <1>1, <2>1 DEF Addresses
  <2>3. QED
    BY <1>1, <1>2, <2>2, CloneAt
<1>6. Image(heap, g, S, m)
  <2> SUFFICES ASSUME NEW b \in S
               PROVE  /\ m[b] \in Addresses
                      /\ g[m[b]].type = heap[b].type /\ g[m[b]].value = heap[b].value
                      /\ DOMAIN g[m[b]].children = DOMAIN heap[b].children
                      /\ \A i \in DOMAIN heap[b].children :
                            /\ g[m[b]].children[i].key = heap[b].children[i].key
                            /\ g[m[b]].children[i].node = m[heap[b].children[i].node]
                            /\ heap[b].children[i].node \in S
                            /\ b < heap[b].children[i].node
    BY DEF Image
  <2>1. /\ heap[b] \in NodeType
        /\ \A i \in DOMAIN heap[b].children :
              heap[b].children[i].node \in S /\ b < heap[b].children[i].node
    BY <1>2 DEF Clonable
  <2>2. g[m[b]] = Moved(heap[b], S) /\ m[b] \in Addresses
    BY <1>5
  <2>3. \A i \in DOMAIN heap[b].children :
           m[heap[b].children[i].node] = Place(S, heap[b].children[i].node)
    BY <2>1
  <2> HIDE DEF m
  <2>4. QED
    BY <2>1, <2>2, <2>3, MovedKeeps
<1>8. m[a] = nextAddress /\ nextAddress \in Addresses
  BY <1>3, <1>5
<1> HIDE DEF m
<1>9. \A b \in S : w[m[b]] = v[b]
  BY <1>3, <1>6, SameValues
<1>10. QED
  BY <1>3, <1>8, <1>9

-----------------------------------------------------------------------------
(* What an append has done so far.  Here p, m, l and r are members: pairs  *)
(* of a key and a value.                                                   *)

KeyAt(p, k, i)     == i \in DOMAIN p /\ p[i][1] = k
FirstAt(p, k, i)   == KeyAt(p, k, i) /\ \A j \in DOMAIN p : KeyAt(p, k, j) => i <= j
LastAt(p, k, n, i) == i \in 1 .. n /\ KeyAt(p, k, i) /\ \A j \in 1 .. n : KeyAt(p, k, j) => j <= i

\* m has the elements of l and behind them the first n of r.
MergedArray(m, l, r, n) ==
    \E c \in Nat :
       /\ DOMAIN l = 1 .. c /\ DOMAIN m = 1 .. (c + n)
       /\ \A i \in 1 .. c : m[i][2] = l[i][2]
       /\ \A i \in 1 .. n : m[c + i][2] = r[i][2]

\* m has under k the last of the first n members of r with that key, or if
\* there is none the first of l.
MergedKey(m, l, r, n, k) ==
    /\ (\E i : KeyAt(m, k, i)) <=> (\E i : KeyAt(l, k, i)) \/ \E i \in 1 .. n : KeyAt(r, k, i)
    /\ \A i, j : FirstAt(m, k, i) /\ LastAt(r, k, n, j) => m[i][2] = r[j][2]
    /\ \A i, j : /\ FirstAt(m, k, i) /\ FirstAt(l, k, j)
                 /\ \A x \in 1 .. n : ~KeyAt(r, k, x)
                 => m[i][2] = l[j][2]
Merged(type, m, l, r, n) ==
    /\ type = "array" => MergedArray(m, l, r, n)
    /\ type = "object" => \A k \in Names : MergedKey(m, l, r, n, k)

\* m2 is m with one more member, or with another value for its key.
Behind(m, m2, val) ==
    \E c \in Nat :
       /\ DOMAIN m = 1 .. c /\ DOMAIN m2 = 1 .. (c + 1)
       /\ \A i \in 1 .. c : m2[i] = m[i]
       /\ m2[c + 1][2] = val
Instead(m, m2, key, val) ==
    \E x : /\ FirstAt(m, key, x) /\ DOMAIN m2 = DOMAIN m /\ m2[x] = <<key, val>>
           /\ \A i \in DOMAIN m : i # x => m2[i] = m[i]
Member(m, m2, key, val) ==
    \E c \in Nat :
       /\ DOMAIN m = 1 .. c /\ DOMAIN m2 = 1 .. (c + 1)
       /\ \A i \in 1 .. c : m2[i] = m[i] /\ m[i][1] # key
       /\ m2[c + 1] = <<key, val>>
Added(type, m, m2, key, val) ==
    /\ type = "array" => Behind(m, m2, val)
    /\ type = "object" =>
          \/ key = EmptyName /\ m2 = m
          \/ key # EmptyName /\ (Instead(m, m2, key, val) \/ Member(m, m2, key, val))

LEMMA SameLength ==
  ASSUME NEW c \in Nat, NEW d \in Nat, 1 .. c = 1 .. d
  PROVE  c = d
<1>1. ~(c < d)
  <2>1. c < d => d \in 1 .. d /\ d \notin 1 .. c
    OBVIOUS
  <2>2. QED
    BY <2>1
<1>2. ~(d < c)
  <2>1. d < c => c \in 1 .. c /\ c \notin 1 .. d
    OBVIOUS
  <2>2. QED
    BY <2>1
<1>3. QED
  BY <1>1, <1>2

\* Nothing of the right node is in a copy of the left one.
LEMMA MergeBegins ==
  ASSUME NEW type, NEW l, NEW r, NEW c \in Nat, DOMAIN l = 1 .. c
  PROVE  Merged(type, l, l, r, 0)
<1>1. MergedArray(l, l, r, 0)
  <2>1. 1 .. (c + 0) = 1 .. c /\ 1 .. 0 = {}
    OBVIOUS
  <2>2. QED
    BY <2>1 DEF MergedArray
<1>2. ASSUME NEW k \in Names PROVE MergedKey(l, l, r, 0, k)
  <2>1. 1 .. 0 = {}
    OBVIOUS
  <2>2. ASSUME NEW i, NEW j, FirstAt(l, k, i), FirstAt(l, k, j) PROVE l[i][2] = l[j][2]
    <3>1. i \in 1 .. c /\ j \in 1 .. c /\ i <= j /\ j <= i
      BY <2>2 DEF FirstAt, KeyAt
    <3>2. i = j
      BY <3>1
    <3>3. QED
      BY <3>2
  <2>3. QED
    BY <2>1, <2>2 DEF MergedKey, LastAt
<1>3. QED
  BY <1>1, <1>2 DEF Merged

\* The next element of an array.
LEMMA ArrayGrows ==
  ASSUME NEW m, NEW m2, NEW l, NEW r, NEW n \in Nat, MergedArray(m, l, r, n),
         Behind(m, m2, r[n + 1][2])
  PROVE  MergedArray(m2, l, r, n + 1)
<1>1. PICK c \in Nat : /\ DOMAIN l = 1 .. c /\ DOMAIN m = 1 .. (c + n)
                       /\ \A i \in 1 .. c : m[i][2] = l[i][2]
                       /\ \A i \in 1 .. n : m[c + i][2] = r[i][2]
  BY DEF MergedArray
<1>2. PICK d \in Nat : /\ DOMAIN m = 1 .. d /\ DOMAIN m2 = 1 .. (d + 1)
                       /\ \A i \in 1 .. d : m2[i] = m[i]
                       /\ m2[d + 1][2] = r[n + 1][2]
  BY DEF Behind
<1>3. d = c + n
  <2>1. c + n \in Nat
    OBVIOUS
  <2>2. QED
    BY <1>1, <1>2, <2>1, SameLength
<1>4. DOMAIN m2 = 1 .. (c + (n + 1))
  BY <1>2, <1>3
<1>5. \A i \in 1 .. c : m2[i][2] = l[i][2]
  BY <1>1, <1>2, <1>3
<1>6. ASSUME NEW i \in 1 .. n + 1 PROVE m2[c + i][2] = r[i][2]
  <2>1. CASE i = n + 1
    <3>1. c + i = d + 1
      BY <1>3, <2>1
    <3>2. QED
      BY <1>2, <2>1, <3>1
  <2>2. CASE i # n + 1
    <3>1. i \in 1 .. n /\ c + i \in 1 .. d
      BY <1>3, <2>2
    <3>2. QED
      BY <1>1, <1>2, <3>1
  <2>3. QED
    BY <2>1, <2>2
<1>7. QED
  BY <1>1, <1>4, <1>5, <1>6 DEF MergedArray

\* The next member of an object, for the keys it does not have.
LEMMA OtherKeys ==
  ASSUME NEW m, NEW m2, NEW l, NEW r, NEW n \in Nat, NEW k, MergedKey(m, l, r, n, k),
         r[n + 1][1] # k,
         \A i : KeyAt(m2, k, i) <=> KeyAt(m, k, i),
         \A i : KeyAt(m, k, i) => m2[i] = m[i]
  PROVE  MergedKey(m2, l, r, n + 1, k)
<1>1. \A i : i \in 1 .. n + 1 <=> i \in 1 .. n \/ i = n + 1
  OBVIOUS
<1>2. ~KeyAt(r, k, n + 1)
  BY DEF KeyAt
<1>3. (\E i \in 1 .. n + 1 : KeyAt(r, k, i)) <=> \E i \in 1 .. n : KeyAt(r, k, i)
  BY <1>1, <1>2, Zenon
<1>4. \A j : LastAt(r, k, n + 1, j) => LastAt(r, k, n, j)
  BY <1>1, <1>2 DEF LastAt
<1>5. \A i : FirstAt(m2, k, i) => FirstAt(m, k, i) /\ m2[i] = m[i]
  BY DEF FirstAt, KeyAt
<1>6. (\A x \in 1 .. n + 1 : ~KeyAt(r, k, x)) => \A x \in 1 .. n : ~KeyAt(r, k, x)
  BY <1>1, Zenon
<1>7. QED
  BY <1>3, <1>4, <1>5, <1>6 DEF MergedKey

\* The next member of an object, for its own key: the first member with the
\* key, which the left node may have had, takes the value.
LEMMA OwnKey ==
  ASSUME NEW m, NEW m2, NEW l, NEW r, NEW n \in Nat, n + 1 \in DOMAIN r, NEW k, r[n + 1][1] = k,
         NEW x, FirstAt(m2, k, x), m2[x][2] = r[n + 1][2],
         x \in Nat, DOMAIN m2 \subseteq Nat
  PROVE  MergedKey(m2, l, r, n + 1, k)
<1>1. n + 1 \in 1 .. n + 1 /\ KeyAt(r, k, n + 1) /\ KeyAt(m2, k, x)
  BY DEF KeyAt, FirstAt
<1>2. ASSUME NEW i, FirstAt(m2, k, i) PROVE i = x
  <2>1. i \in Nat /\ x \in Nat /\ i <= x /\ x <= i
    BY <1>2 DEF FirstAt, KeyAt
  <2>2. QED
    BY <2>1
<1>3. ASSUME NEW j, LastAt(r, k, n + 1, j) PROVE j = n + 1
  <2>1. j \in 1 .. n + 1 /\ n + 1 <= j
    BY <1>1, <1>3 DEF LastAt
  <2>2. QED
    BY <2>1
<1>4. QED
  BY <1>1, <1>2, <1>3 DEF MergedKey

LEMMA MergeGoesOn ==
  ASSUME NEW type, NEW m, NEW m2, NEW l, NEW r, NEW n \in Nat, n + 1 \in DOMAIN r,
         DOMAIN m \subseteq Nat, Merged(type, m, l, r, n),
         Added(type, m, m2, r[n + 1][1], r[n + 1][2])
  PROVE  Merged(type, m2, l, r, n + 1)
<1> DEFINE key == r[n + 1][1]
           val == r[n + 1][2]
<1>1. CASE type = "array"
  BY <1>1, ArrayGrows DEF Merged, Added
<1>2. ASSUME type = "object", NEW k \in Names PROVE MergedKey(m2, l, r, n + 1, k)
  <2>1. MergedKey(m, l, r, n, k) /\ k # EmptyName
    BY <1>2, NamesAssumption DEF Merged
  <2>2. CASE key = EmptyName /\ m2 = m
    BY <2>1, <2>2, OtherKeys
  <2>3. ASSUME NEW x, FirstAt(m, key, x), DOMAIN m2 = DOMAIN m, m2[x] = <<key, val>>,
               \A i \in DOMAIN m : i # x => m2[i] = m[i]
        PROVE  MergedKey(m2, l, r, n + 1, k)
    <3>1. \A i, j : KeyAt(m2, j, i) <=> KeyAt(m, j, i)
      BY <2>3 DEF FirstAt, KeyAt
    <3>2. CASE k # key
      <4>1. \A i : KeyAt(m, k, i) => m2[i] = m[i]
        BY <2>3, <3>2 DEF FirstAt, KeyAt
      <4>2. QED
        BY <2>1, <3>1, <3>2, <4>1, OtherKeys
    <3>3. CASE k = key
      <4>1. FirstAt(m2, key, x) /\ m2[x][2] = val /\ x \in Nat /\ DOMAIN m2 \subseteq Nat
        BY <2>3, <3>1 DEF FirstAt, KeyAt
      <4>2. QED
        BY <3>3, <4>1, OwnKey
    <3>4. QED
      BY <3>2, <3>3
  <2>4. ASSUME NEW c \in Nat, DOMAIN m = 1 .. c, DOMAIN m2 = 1 .. (c + 1),
               \A i \in 1 .. c : m2[i] = m[i] /\ m[i][1] # key, m2[c + 1] = <<key, val>>
        PROVE  MergedKey(m2, l, r, n + 1, k)
    <3>1. \A i : i \in 1 .. (c + 1) <=> i \in 1 .. c \/ i = c + 1
      BY <2>4
    <3>2. m2[c + 1][1] = key /\ m2[c + 1][2] = val
      BY <2>4
    <3>3. CASE k # key
      <4>1. c + 1 \notin DOMAIN m
        BY <2>4
      <4>2. \A i : KeyAt(m2, k, i) <=> KeyAt(m, k, i)
        BY <2>4, <3>1, <3>2, <3>3, <4>1 DEF KeyAt
      <4>3. \A i : KeyAt(m, k, i) => m2[i] = m[i]
        BY <2>4 DEF KeyAt
      <4>4. QED
        BY <2>1, <3>3, <4>2, <4>3, OtherKeys
    <3>4. CASE k = key
      <4>1. \A j \in DOMAIN m2 : KeyAt(m2, key, j) => j = c + 1
        BY <2>4, <3>1 DEF KeyAt
      <4>2. c + 1 \in DOMAIN m2 /\ c + 1 \in Nat
        BY <2>4
      <4>3. FirstAt(m2, key, c + 1)
        BY <3>2, <4>1, <4>2 DEF FirstAt, KeyAt
      <4>4. DOMAIN m2 \subseteq Nat
        BY <2>4
      <4>5. QED
        BY <3>2, <3>4, <4>2, <4>3, <4>4, OwnKey
    <3>5. QED
      BY <3>3, <3>4
  <2>5. QED
    BY <1>2, <2>2, <2>3, <2>4 DEF Added, Instead, Member
<1>3. QED
  BY <1>1, <1>2 DEF Merged

-----------------------------------------------------------------------------
(* The append under way.                                                   *)

Merges(h, root, a, b, n) ==
    \A v : Values(h, v) =>
        Merged(h[a].type, Members(h, v, root), Members(h, v, a), Members(h, v, b), n)
\* The new node at root has merged the node at a with n children of the one
\* at b; nothing leads to it yet.
AppendOK(h, root, a, b, n) ==
    /\ h[a].type \in {"object", "array"} /\ h[root].type = h[a].type
    /\ a # root /\ b # root /\ Unused(h, root)
    /\ n <= Len(h[b].children) /\ Merges(h, root, a, b, n)
AppendInv ==
    call.op = "append" =>
       AppendOK(heap, call.root, jsonNodes[call.args[1].from], jsonNodes[call.args[2].from],
                call.at - 1)

\* The position of a key is that of its first member.
LEMMA PositionIsFirst ==
  ASSUME NEW s, DOMAIN s \subseteq Nat \ {0}, NEW key
  PROVE  LET i == PositionOf(s, key) IN
         \/ i = Nil /\ \A j \in DOMAIN s : s[j].key # key
         \/ /\ i # Nil /\ i \in DOMAIN s /\ s[i].key = key
            /\ \A j \in DOMAIN s : s[j].key = key => i <= j
<1> DEFINE found == {i \in DOMAIN s : s[i].key = key}
<1>1. CASE found = {}
  BY <1>1 DEF PositionOf
<1>2. CASE found # {}
  <2>1. PositionOf(s, key) = CHOOSE i \in found : \A k \in found : i <= k
    BY <1>2 DEF PositionOf
  <2>2. found \in SUBSET Nat
    OBVIOUS
  <2>3. \E i \in found : \A k \in found : i <= k
    <3> HIDE DEF found
    <3> QED
      BY <1>2, <2>2, LeastOf
  <2>4. PositionOf(s, key) \in found /\ \A k \in found : PositionOf(s, key) <= k
    BY <2>1, <2>3
  <2>5. QED
    BY <2>4 DEF Nil
<1>3. QED
  BY <1>1, <1>2

\* The node at root has its children in g, and one more that is linked there.
Links(g, root, key, v, w) ==
    /\ heap[root].type \in {"object", "array"}
    /\ heap[root].children \in Seq([key : Keys, node : Nat])
    /\ g[root].children = Linked(root, heap[root].children, key, nextAddress)
    /\ \A i \in DOMAIN heap[root].children :
          w[heap[root].children[i].node] = v[heap[root].children[i].node]

\* A link adds a member to those of the parent.
LEMMA LinkAdds ==
  ASSUME NEW root, NEW g, NEW key \in Keys, NEW v, NEW w, Links(g, root, key, v, w)
  PROVE  Added(heap[root].type, Members(heap, v, root), Members(g, w, root), key, w[nextAddress])
<1> DEFINE s == heap[root].children
           t == g[root].children
           m == Members(heap, v, root)
           m2 == Members(g, w, root)
           a == nextAddress
           C == [key : Keys, node : Nat]
<1>1. s \in Seq(C) /\ Len(s) \in Nat /\ DOMAIN s = 1 .. Len(s)
  <2>1. s \in Seq(C)
    BY DEF Links
  <2> HIDE DEF s
  <2>2. QED
    BY <2>1
<1>2. /\ DOMAIN m = DOMAIN s /\ \A i \in DOMAIN s : m[i] = <<s[i].key, v[s[i].node]>>
      /\ DOMAIN m2 = DOMAIN t /\ \A i \in DOMAIN t : m2[i] = <<t[i].key, w[t[i].node]>>
      /\ \A i \in DOMAIN s : w[s[i].node] = v[s[i].node]
  BY DEF Members, Links
<1>3. \A i \in DOMAIN s : m[i][1] = s[i].key
  BY DEF Members
<1>4. t = Linked(root, s, key, a) /\ heap[root].type \in {"object", "array"}
  BY DEF Links
<1> HIDE DEF m, m2, t, s, a
<1>5. ASSUME NEW k, t = Append(s, [key |-> k, node |-> a])
      PROVE  /\ DOMAIN m = 1 .. Len(s) /\ DOMAIN m2 = 1 .. (Len(s) + 1)
             /\ \A i \in 1 .. Len(s) : m2[i] = m[i]
             /\ m2[Len(s) + 1] = <<k, w[a]>>
  <2>1. /\ DOMAIN t = 1 .. (Len(s) + 1) /\ \A i \in 1 .. Len(s) : t[i] = s[i]
        /\ t[Len(s) + 1] = [key |-> k, node |-> a]
    BY <1>1, <1>5
  <2>2. Len(s) + 1 \in 1 .. (Len(s) + 1) /\ \A i \in 1 .. Len(s) : i \in 1 .. (Len(s) + 1)
    BY <1>1
  <2>3. ASSUME NEW i \in 1 .. Len(s) PROVE m2[i] = m[i]
    <3>1. i \in DOMAIN s /\ i \in DOMAIN t /\ t[i] = s[i]
      BY <1>1, <2>1, <2>2
    <3>2. m2[i] = <<s[i].key, w[s[i].node]>> /\ m[i] = <<s[i].key, v[s[i].node]>>
      BY <1>2, <3>1
    <3>3. QED
      BY <1>2, <3>1, <3>2
  <2>4. m2[Len(s) + 1] = <<k, w[a]>>
    <3>1. Len(s) + 1 \in DOMAIN t
      BY <2>1, <2>2
    <3>2. m2[Len(s) + 1] = <<t[Len(s) + 1].key, w[t[Len(s) + 1].node]>>
      BY <1>2, <3>1
    <3>3. QED
      BY <2>1, <3>2
  <2>5. QED
    BY <1>1, <1>2, <2>1, <2>3, <2>4
<1>6. CASE heap[root].type = "array"
  <2>1. t = Append(s, [key |-> EmptyName, node |-> a])
    BY <1>4, <1>6 DEF Linked
  <2>2. m2[Len(s) + 1][2] = w[a]
    BY <1>5, <2>1
  <2>3. Behind(m, m2, w[a])
    BY <1>1, <1>5, <2>1, <2>2 DEF Behind
  <2>4. QED
    BY <1>6, <2>3 DEF Added, m, m2, a
<1>7. CASE heap[root].type = "object"
  <2>1. t = SetObjectMember(s, key, a)
    BY <1>4, <1>7 DEF Linked
  <2>2. CASE key = EmptyName
    <3>1. t = s
      BY <2>1, <2>2 DEF SetObjectMember
    <3>2. m2 = m
      <4>1. /\ m = [i \in DOMAIN s |-> <<s[i].key, v[s[i].node]>>]
            /\ m2 = [i \in DOMAIN t |-> <<t[i].key, w[t[i].node]>>]
        BY DEF m, m2, Members, s, t
      <4>2. QED
        BY <1>2, <3>1, <4>1
    <3>3. QED
      BY <1>7, <2>2, <3>2 DEF Added, m, m2, a
  <2>3. CASE key # EmptyName
    <3> DEFINE x == PositionOf(s, key)
    <3>1. \/ x = Nil /\ \A j \in DOMAIN s : s[j].key # key
          \/ /\ x # Nil /\ x \in DOMAIN s /\ s[x].key = key
             /\ \A j \in DOMAIN s : s[j].key = key => x <= j
      <4>1. DOMAIN s \subseteq Nat \ {0}
        BY <1>1
      <4>2. QED
        BY <4>1, PositionIsFirst
    <3>2. t = IF x # Nil THEN [s EXCEPT ![x].node = a]
              ELSE Append(s, [key |-> key, node |-> a])
      BY <2>1, <2>3 DEF SetObjectMember
    <3> HIDE DEF x
    <3>3. CASE x = Nil
      <4>1. /\ DOMAIN m = 1 .. Len(s) /\ DOMAIN m2 = 1 .. (Len(s) + 1)
            /\ \A i \in 1 .. Len(s) : m2[i] = m[i]
            /\ m2[Len(s) + 1] = <<key, w[a]>>
        BY <1>5, <3>2, <3>3
      <4>2. \A i \in 1 .. Len(s) : m[i][1] # key
        BY <1>1, <1>3, <3>1, <3>3
      <4>3. Member(m, m2, key, w[a])
        BY <1>1, <4>1, <4>2 DEF Member
      <4>4. QED
        BY <1>7, <2>3, <4>3 DEF Added, m, m2, a
    <3>4. CASE x # Nil
      <4>1. /\ x \in DOMAIN s /\ s[x].key = key
            /\ \A j \in DOMAIN s : s[j].key = key => x <= j
            /\ t = [s EXCEPT ![x].node = a]
        BY <3>1, <3>2, <3>4
      <4>2. s[x] \in C
        BY <1>1, <4>1, ElementOfSeq
      <4>3. /\ DOMAIN t = DOMAIN s /\ t[x].key = key /\ t[x].node = a
            /\ \A i \in DOMAIN s : i # x => t[i] = s[i]
        BY <4>1, <4>2
      <4>4. m2[x] = <<key, w[a]>> /\ \A i \in DOMAIN m : i # x => m2[i] = m[i]
        <5>1. x \in DOMAIN t /\ \A i \in DOMAIN s : i \in DOMAIN t
          BY <4>1, <4>3
        <5>2. m2[x] = <<t[x].key, w[t[x].node]>>
          BY <1>2, <5>1
        <5>3. ASSUME NEW i \in DOMAIN s, i # x PROVE m2[i] = m[i]
          <6>1. t[i] = s[i] /\ i \in DOMAIN t
            BY <4>3, <5>1, <5>3
          <6>2. m2[i] = <<s[i].key, w[s[i].node]>> /\ m[i] = <<s[i].key, v[s[i].node]>>
            BY <1>2, <6>1
          <6>3. QED
            BY <1>2, <6>2
        <5>4. QED
          BY <1>2, <4>3, <5>2, <5>3
      <4>5. FirstAt(m, key, x)
        BY <1>2, <1>3, <4>1 DEF FirstAt, KeyAt
      <4>6. Instead(m, m2, key, w[a])
        BY <1>2, <4>3, <4>4, <4>5 DEF Instead
      <4>7. QED
        BY <1>7, <2>3, <4>6 DEF Added, m, m2, a
    <3>5. QED
      BY <3>3, <3>4
  <2>4. QED
    BY <2>2, <2>3
<1>8. QED
  BY <1>4, <1>6, <1>7

\* The lengths of an object or array and of its members.
LEMMA MembersLength ==
  ASSUME HeapInv, NEW a \in Addresses, NEW v
  PROVE  /\ heap[a].children \in Seq([key : Keys, node : Nat])
         /\ Len(heap[a].children) \in Nat
         /\ DOMAIN Members(heap, v, a) = 1 .. Len(heap[a].children)
<1> DEFINE s == heap[a].children
<1>1. s \in Seq([key : Keys, node : Nat])
  BY DEF HeapInv, NodeType
<1>2. DOMAIN Members(heap, v, a) = DOMAIN s
  BY DEF Members
<1> HIDE DEF s
<1>3. Len(s) \in Nat /\ DOMAIN s = 1 .. Len(s)
  BY <1>1
<1>4. QED
  BY <1>1, <1>2, <1>3 DEF s

\* What an append has at hand.
LEMMA AppendFacts ==
  ASSUME IInv, call.op = "append"
  PROVE  LET a == jsonNodes[call.args[1].from]
             b == jsonNodes[call.args[2].from] IN
         /\ call.args[1].from \in Handles /\ call.args[2].from \in Handles
         /\ Known(call.args[1].from) /\ Known(call.args[2].from)
         /\ a \in Addresses /\ a < nextAddress /\ b \in Addresses /\ b < nextAddress
         /\ call.root \in Addresses /\ call.root < nextAddress
         /\ call.at \in Nat /\ call.at > 0
<1>1. Known(call.args[1].from) /\ Known(call.args[2].from) /\ call.at \in Nat \ {0}
  BY DEF IInv, CallInv
<1>2. call.args[1].from \in Handles /\ call.args[2].from \in Handles
  BY <1>1 DEF Known
<1>3. call.root \in Addresses /\ call.root < nextAddress
  BY InvFacts
<1>4. \A h \in Handles : Known(h) => jsonNodes[h] \in Addresses /\ jsonNodes[h] < nextAddress
  BY KnownAddress DEF IInv
<1>5. QED
  BY <1>1, <1>2, <1>3, <1>4

\* What was there keeps its value while something is made that nothing leads to.
LEMMA OldValues ==
  ASSUME HeapInv, NEW g, NEW v, NEW w, Values(heap, v), Values(g, w),
         \A x \in Addresses : x < nextAddress => g[x] = heap[x]
  PROVE  \A x \in Addresses : x < nextAddress => w[x] = v[x]
<1>1. Unused(heap, 0)
  <2>1. \A a \in Addresses : 0 \notin (a + 1) .. (nextAddress - 1)
    BY DEF Addresses
  <2>2. QED
    BY <2>1 DEF HeapInv, Nested, Unused
<1>2. \A x \in Addresses : x # 0
  BY DEF Addresses
<1>3. \A x \in Addresses : x < nextAddress /\ x # 0 => w[x] = v[x]
  BY <1>1, FrameValues
<1>4. QED
  BY <1>2, <1>3

\* No copy leads to a node that nothing led to.
LEMMA CloneUnused ==
  ASSUME HeapInv, NEW h, NEW S, Clonable(h, S), NEW x \in Addresses, x < nextAddress,
         Unused(heap, x)
  PROVE  Unused(Clone(h, S), x)
<1> SUFFICES ASSUME NEW a \in Addresses, NEW i \in DOMAIN Clone(h, S)[a].children
             PROVE  Clone(h, S)[a].children[i].node # x
  BY DEF Unused
<1> DEFINE c == Clone(h, S)[a].children[i].node
<1>1. nextAddress \in Nat /\ x \in Nat /\ S \in SUBSET Nat /\ IsFiniteSet(S)
  BY DEF HeapInv, Addresses, Clonable
<1>2. CASE Kept(h, S, a, i)
  BY <1>2 DEF Kept, Unused
<1>3. CASE \E b \in S : Copied(h, S, a, i, b)
  <2>1. PICK b \in S : Copied(h, S, a, i, b)
    BY <1>3
  <2>2. /\ a \in nextAddress .. ((nextAddress + Cardinality(S)) - 1)
        /\ c \in (a + 1) .. ((nextAddress + Cardinality(S)) - 1)
    BY <2>1 DEF Copied
  <2> HIDE DEF c
  <2>3. c # x
    BY <1>1, <2>2
  <2>4. QED
    BY <2>3 DEF c
<1>4. QED
  BY <1>2, <1>3, CloneChild

LEMMA AppendBegins ==
  ASSUME IInv, NEW left \in Handles, NEW right \in Handles, BeginAppend(left, right)
  PROVE  AppendInv'
<1> DEFINE a == jsonNodes[left]
           b == jsonNodes[right]
           root == nextAddress
<1>1. /\ Known(left) /\ Known(right) /\ jsonNodes' = jsonNodes
      /\ heap[a].type \in {"object", "array"}
  BY DEF BeginAppend, IsA, SameStore
<1>2. a \in Addresses /\ a < nextAddress /\ b \in Addresses /\ b < nextAddress
  BY <1>1, KnownAddress DEF IInv
<1>3. PICK S \in TreesAt(a) : Allocate(Cardinality(S), nextAddress) /\ heap' = Clone(heap, S)
  BY DEF BeginAppend
<1>4. PICK g : g = Clone(heap, S)
  OBVIOUS
<1>5. HeapInv /\ nextAddress \in Nat
  BY DEF IInv, HeapInv
<1> HIDE DEF a, b
<1>6. Clonable(heap, S) /\ nextAddress + Cardinality(S) <= MaxNodes + 1
  BY <1>2, <1>3, <1>5, TreeIsClonable DEF Allocate
<1>7. /\ Cardinality(S) \in Nat /\ nextAddress + Cardinality(S) \in Nat
      /\ Nested(g, nextAddress + Cardinality(S)) /\ Unused(g, root)
  <2> DEFINE n == nextAddress + Cardinality(S)
             o == [x \in Addresses |-> IF x \in nextAddress .. (n - 1) THEN Nil ELSE origin[x]]
  <2>1. /\ Cardinality(S) \in Nat /\ nextAddress < n
        /\ Clone(heap, S) \in [Addresses -> NodeType]
        /\ Nested(Clone(heap, S), n) /\ OneParent(Clone(heap, S))
        /\ Separate(Clone(heap, S), o) /\ Unused(Clone(heap, S), nextAddress)
    BY <1>5, <1>6, CloneHeap
  <2>2. QED
    BY <1>4, <1>5, <2>1
<1>8. \A x \in Addresses : x < nextAddress => g[x] = heap[x]
  BY <1>4, <1>5, <1>6, CloneAt
<1>9. \E v : Values(heap, v)
  BY <1>5, ValueAtIs
<1>10. PICK v : Values(heap, v)
  BY <1>9
<1>11. ASSUME NEW w, Values(g, w)
       PROVE  /\ g[root].type = g[a].type
              /\ Merged(g[a].type, Members(g, w, root), Members(g, w, a), Members(g, w, b), 0)
  <2>1. root \in Addresses /\ w[root] = v[a]
    <3>1. \A x \in Addresses : x >= nextAddress => g[x] = Clone(heap, S)[x]
      BY <1>4
    <3>2. QED
      BY <1>2, <1>5, <1>6, <1>7, <1>10, <1>11, <3>1, CopyValues
  <2>2. w[a] = v[a]
    BY <1>2, <1>5, <1>8, <1>10, <1>11, OldValues
  <2>3. g[root].type = g[a].type /\ Members(g, w, root) = Members(g, w, a)
    BY <1>2, <1>11, <2>1, <2>2, SameMembers
  <2>4. /\ Len(heap[a].children) \in Nat
        /\ DOMAIN Members(g, w, a) = 1 .. Len(heap[a].children)
    <3>1. Members(g, w, a) = Members(heap, v, a)
      BY <1>2, <1>10, <1>11, <2>2, SameMembers
    <3>2. QED
      BY <1>2, <1>5, <3>1, MembersLength
  <2>5. Merged(g[a].type, Members(g, w, a), Members(g, w, a), Members(g, w, b), 0)
    BY <2>4, MergeBegins
  <2>6. QED
    BY <2>3, <2>5
<1>12. \E w : Values(g, w)
  BY <1>6, <1>7, ValuesExist
<1>13. 0 <= Len(g[b].children)
  <2>1. g[b] = heap[b] /\ Len(heap[b].children) \in Nat
    BY <1>2, <1>5, <1>8, MembersLength
  <2>2. QED
    BY <2>1
<1>14. a # root /\ b # root /\ g[a].type \in {"object", "array"}
  BY <1>1, <1>2, <1>5, <1>8 DEF Addresses, a
<1>15. AppendOK(g, root, a, b, 0)
  BY <1>7, <1>11, <1>12, <1>13, <1>14 DEF AppendOK, Merges
<1>16. call' = [op |-> "append", root |-> nextAddress, handle |-> Nil,
                args |-> <<[key |-> EmptyName, from |-> left],
                           [key |-> EmptyName, from |-> right]>>, at |-> 1]
  BY DEF BeginAppend, Call
<1>17. /\ call'.root = root /\ call'.args[1].from = left /\ call'.args[2].from = right
       /\ call'.at - 1 = 0
  BY <1>16
<1>18. AppendOK(heap', call'.root, jsonNodes'[call'.args[1].from],
                jsonNodes'[call'.args[2].from], call'.at - 1)
  BY <1>1, <1>3, <1>4, <1>15, <1>17 DEF a, b
<1>19. QED
  BY <1>18 DEF AppendInv

\* A text that a worker parses meanwhile changes nothing the append looks at.
LEMMA AppendUndisturbed ==
  ASSUME HeapInv, NEW g, NEW root \in Addresses, NEW a \in Addresses, NEW b \in Addresses, NEW n,
         root < nextAddress, a < nextAddress, b < nextAddress,
         AppendOK(heap, root, a, b, n), Unused(g, root),
         \A x \in Addresses : x < nextAddress => g[x] = heap[x]
  PROVE  AppendOK(g, root, a, b, n)
<1>1. PICK v : Values(heap, v)
  BY ValueAtIs
<1>2. ASSUME NEW w, Values(g, w)
      PROVE  Merged(g[a].type, Members(g, w, root), Members(g, w, a), Members(g, w, b), n)
  <2>1. w[root] = v[root] /\ w[a] = v[a] /\ w[b] = v[b]
    BY <1>1, <1>2, OldValues
  <2>2. /\ Members(g, w, root) = Members(heap, v, root)
        /\ Members(g, w, a) = Members(heap, v, a) /\ Members(g, w, b) = Members(heap, v, b)
    BY <1>1, <1>2, <2>1, SameMembers
  <2>3. Merged(heap[a].type, Members(heap, v, root), Members(heap, v, a), Members(heap, v, b), n)
    BY <1>1 DEF AppendOK, Merges
  <2>4. QED
    BY <2>2, <2>3
<1>3. g[a] = heap[a] /\ g[b] = heap[b] /\ g[root] = heap[root]
  OBVIOUS
<1>4. QED
  BY <1>2, <1>3 DEF AppendOK, Merges

\* Handles not given out yet lead nowhere.
FreshHandles == \A h \in Handles : h >= nextJsonNodeId => jsonNodes[h] = Nil

LEMMA FreshHandlesStay == IInv /\ FreshHandles /\ [Next]_vars => FreshHandles'
<1> SUFFICES ASSUME IInv, FreshHandles, [Next]_vars PROVE FreshHandles'
  OBVIOUS
<1>1. nextJsonNodeId \in Nat /\ jsonNodes = [h \in Handles |-> jsonNodes[h]]
  BY DEF IInv, StoreInv
<1>2. \/ \E store, a : StoreJsonNode(store, a) /\ (store = jsonNodes \/ \E hs : store = Without(hs))
      \/ /\ nextJsonNodeId' = nextJsonNodeId \/ nextJsonNodeId' = nextJsonNodeId + 1
         /\ jsonNodes' = jsonNodes \/ \E hs : jsonNodes' = Without(hs)
  <2>1. CASE \/ JsonNodeObject \/ JsonNodeArray \/ \E v \in Scalars : JsonNodeScalar(v)
             \/ \E h, k, i : JsonNodeGet(h, k) \/ JsonNodeArrayGet(h, i)
             \/ \E type, args : BeginBuilder(type, args)
             \/ AppendEnds \/ \E tree \in Trees : ParseJsonNode(tree)
    BY <2>1 DEF JsonNodeObject, JsonNodeArray, JsonNodeScalar, JsonNodeGet, JsonNodeArrayGet,
       GetChild, BeginBuilder, AppendEnds, ParseJsonNode, MakeNode
  <2>2. CASE \/ OddArguments \/ UNCHANGED vars \/ BuilderStep \/ AppendStep
             \/ \E h, g : JsonNodeArrayPush(h, g) \/ BeginAppend(h, g)
             \/ \E h, k, g : JsonNodeSet(h, k, g) \/ JsonNodeSetScalar(h, k, g)
             \/ \E h, g : JsonNodeArrayPushScalar(h, g)
    BY <2>2 DEF OddArguments, vars, BuilderStep, AppendStep, JsonNodeArrayPush, BeginAppend,
       JsonNodeSet, JsonNodeSetScalar, JsonNodeArrayPushScalar, SameStore
  <2>3. CASE BuilderFails \/ BuilderEnds \/ \E h : ReleaseJsonNode(h)
    BY <2>3 DEF BuilderFails, BuilderEnds, ReleaseJsonNode
  <2>4. CASE Reset
    <3>1. jsonNodes' = Without(Handles) /\ nextJsonNodeId' = nextJsonNodeId
      BY <2>4 DEF Reset, Without
    <3>2. QED
      BY <3>1
  <2>5. QED
    BY <2>1, <2>2, <2>3, <2>4 DEF Next, Natives
<1>3. ASSUME NEW store, NEW a, StoreJsonNode(store, a),
             store = jsonNodes \/ \E hs : store = Without(hs)
      PROVE  FreshHandles'
  <2>1. \A h \in Handles : h >= nextJsonNodeId => store[h] = Nil
    BY <1>3 DEF FreshHandles, Without
  <2>2. store = [h \in Handles |-> store[h]]
    BY <1>1, <1>3 DEF Without
  <2>3. \A h \in Handles : h # nextJsonNodeId => jsonNodes'[h] = store[h]
    BY <1>3, <2>2 DEF StoreJsonNode
  <2>4. nextJsonNodeId' = nextJsonNodeId + 1
    BY <1>3 DEF StoreJsonNode
  <2>5. \A h \in Handles : h >= nextJsonNodeId + 1 => h >= nextJsonNodeId /\ h # nextJsonNodeId
    BY <1>1 DEF Handles
  <2>6. QED
    BY <2>1, <2>3, <2>4, <2>5 DEF FreshHandles
<1>4. ASSUME nextJsonNodeId' = nextJsonNodeId \/ nextJsonNodeId' = nextJsonNodeId + 1,
             jsonNodes' = jsonNodes \/ \E hs : jsonNodes' = Without(hs)
      PROVE  FreshHandles'
  <2>1. \A h \in Handles : h >= nextJsonNodeId' => h >= nextJsonNodeId
    BY <1>1, <1>4 DEF Handles
  <2>2. \A h \in Handles : jsonNodes[h] = Nil => jsonNodes'[h] = Nil
    BY <1>4 DEF Without
  <2>3. QED
    BY <2>1, <2>2 DEF FreshHandles
<1>5. QED
  BY <1>2, <1>3, <1>4

LEMMA ParseKeepsAppend ==
  ASSUME IInv, FreshHandles, AppendInv, NEW tree \in Trees, ParseJsonNode(tree)
  PROVE  AppendInv'
<1> SUFFICES ASSUME call'.op = "append" PROVE AppendInv'
  BY DEF AppendInv
<1> DEFINE x == call.args[1].from
           y == call.args[2].from
<1>1. /\ call' = call /\ heap' = Clone(tree, DOMAIN tree)
      /\ StoreJsonNode(jsonNodes, nextAddress)
  BY DEF ParseJsonNode
<1>2. /\ x \in Handles /\ y \in Handles /\ Known(x) /\ Known(y)
      /\ jsonNodes[x] \in Addresses /\ jsonNodes[x] < nextAddress
      /\ jsonNodes[y] \in Addresses /\ jsonNodes[y] < nextAddress
      /\ call.root \in Addresses /\ call.root < nextAddress
  BY <1>1, AppendFacts
<1>3. AppendOK(heap, call.root, jsonNodes[x], jsonNodes[y], call.at - 1)
  BY <1>1 DEF AppendInv
<1>4. HeapInv /\ nextAddress \in Nat
  BY DEF IInv, HeapInv
<1>5. Clonable(tree, DOMAIN tree)
  BY ParsedTree
<1>6. Unused(Clone(tree, DOMAIN tree), call.root)
  BY <1>2, <1>3, <1>4, <1>5, CloneUnused DEF AppendOK
<1>7. \A z \in Addresses : z < nextAddress => Clone(tree, DOMAIN tree)[z] = heap[z]
  BY <1>4, <1>5, CloneAt
<1> HIDE DEF x, y
<1>8. AppendOK(Clone(tree, DOMAIN tree), call.root, jsonNodes[x], jsonNodes[y], call.at - 1)
  BY <1>2, <1>3, <1>4, <1>6, <1>7, AppendUndisturbed
<1>9. jsonNodes'[x] = jsonNodes[x] /\ jsonNodes'[y] = jsonNodes[y]
  <2>1. /\ nextJsonNodeId \in Handles
        /\ jsonNodes' = [jsonNodes EXCEPT ![nextJsonNodeId] = nextAddress]
    BY <1>1 DEF StoreJsonNode
  <2>2. x # nextJsonNodeId /\ y # nextJsonNodeId
    <3>1. nextJsonNodeId \in Nat
      BY DEF IInv, StoreInv
    <3>2. QED
      BY <1>2, <2>1, <3>1 DEF FreshHandles, Known
  <2>3. QED
    BY <1>2, <2>1, <2>2 DEF IInv, StoreInv
<1>10. QED
  BY <1>1, <1>8, <1>9 DEF AppendInv, x, y

LEMMA AppendHolds ==
  ASSUME NEW h, NEW root, NEW a, NEW b, NEW n,
         h[a].type \in {"object", "array"} /\ h[root].type = h[a].type,
         a # root /\ b # root, Unused(h, root), n <= Len(h[b].children), Merges(h, root, a, b, n)
  PROVE  AppendOK(h, root, a, b, n)
BY DEF AppendOK

\* A link leads to the new child only.
LEMMA StillUnused ==
  ASSUME NEW root \in Addresses, NEW f, NEW g, NEW s, NEW j, NEW c,
         Unused(f, root), s = f[root].children, c # root,
         \A x \in Addresses : x # root => g[x] = f[x],
         PutAt(s, g[root].children, j, c)
  PROVE  Unused(g, root)
<1> SUFFICES ASSUME NEW x \in Addresses, NEW i \in DOMAIN g[x].children
             PROVE  g[x].children[i].node # root
  BY DEF Unused
<1>1. CASE x # root
  BY <1>1 DEF Unused
<1>2. CASE x = root
  <2>1. \/ g[root].children[i].node = c
        \/ i \in DOMAIN s /\ g[root].children[i].node = s[i].node
    BY <1>2 DEF PutAt
  <2>2. \A k \in DOMAIN s : s[k].node # root
    BY DEF Unused
  <2>3. QED
    BY <1>2, <2>1, <2>2
<1>3. QED
  BY <1>1, <1>2

\* A copy of the right node's next child is linked to the new node.
LEMMA AppendLinks ==
  ASSUME HeapInv, NEW root \in Addresses, NEW a \in Addresses, NEW b \in Addresses,
         root < nextAddress, a < nextAddress, b < nextAddress,
         NEW n \in Nat, AppendOK(heap, root, a, b, n),
         NEW s, s = heap[b].children, n + 1 \in DOMAIN s,
         NEW key, key = s[n + 1].key, NEW c, c = s[n + 1].node,
         NEW S \in TreesAt(c), nextAddress + Cardinality(S) <= MaxNodes + 1,
         NEW g, g = Link(Clone(heap, S), root, key)
  PROVE  AppendOK(g, root, a, b, n + 1)
<1>1. nextAddress \in Nat /\ nextAddress <= MaxNodes + 1 /\ MaxNodes \in Nat
  BY BoundsAssumption DEF HeapInv
<1>2. s \in Seq([key : Keys, node : Nat]) /\ Len(s) \in Nat /\ DOMAIN s = 1 .. Len(s)
  <2>1. s \in Seq([key : Keys, node : Nat])
    BY MembersLength
  <2>2. QED
    BY <2>1
<1>3. c \in Addresses /\ c < nextAddress /\ key \in Keys
  <2>1. c \in (b + 1) .. (nextAddress - 1)
    BY DEF HeapInv, Nested
  <2>2. s[n + 1] \in [key : Keys, node : Nat]
    BY <1>2, ElementOfSeq
  <2>3. key \in Keys
    BY <2>2
  <2>4. b \in Nat
    BY DEF Addresses
  <2>5. QED
    BY <1>1, <2>1, <2>3, <2>4 DEF Addresses
<1>4. Clonable(heap, S) /\ nextAddress + Cardinality(S) <= MaxNodes + 1
  BY <1>1, <1>3, TreeIsClonable
<1> DEFINE f == Clone(heap, S)
           e == nextAddress + Cardinality(S)
<1>5. /\ Cardinality(S) \in Nat /\ e \in Nat
       /\ f \in [Addresses -> NodeType] /\ Unused(f, nextAddress)
  <2> DEFINE o == [x \in Addresses |-> IF x \in nextAddress .. (e - 1) THEN Nil ELSE origin[x]]
  <2>1. /\ Cardinality(S) \in Nat /\ nextAddress < e
        /\ Clone(heap, S) \in [Addresses -> NodeType]
        /\ Nested(Clone(heap, S), e) /\ OneParent(Clone(heap, S))
        /\ Separate(Clone(heap, S), o) /\ Unused(Clone(heap, S), nextAddress)
    BY <1>1, <1>4, CloneHeap
  <2>2. QED
    BY <1>1, <2>1
<1>6. /\ \A x \in Addresses : x < nextAddress => f[x] = heap[x]
       /\ Unused(f, root)
  BY <1>1, <1>4, CloneAt, CloneUnused DEF AppendOK
<1> HIDE DEF f, e
<1> DEFINE l == Linked(root, heap[root].children, key, nextAddress)
<1>7. /\ \A x \in Addresses : x # root => g[x] = f[x]
      /\ g[root] = [heap[root] EXCEPT !.children = l]
  <2>1. f[root] = heap[root]
    BY <1>6
  <2>2. g = [f EXCEPT ![root].children = Linked(root, @, key, nextAddress)]
    BY DEF Link, f
  <2>3. QED
    BY <1>5, <2>1, <2>2
<1>8. /\ heap[root] \in NodeType /\ heap[root].children \in Seq([key : Keys, node : Nat])
      /\ g[root].type = heap[root].type /\ g[root].children = l
  <2>1. heap[root] \in NodeType
    BY <1>1 DEF HeapInv
  <2>2. PICK d, k : /\ d = heap[root] /\ k = l
                    /\ g[root] = [d EXCEPT !.children = k]
    BY <1>7
  <2>3. d \in NodeType
    BY <2>1, <2>2
  <2>4. /\ d.children \in Seq([key : Keys, node : Nat])
        /\ [d EXCEPT !.children = k].type = d.type
        /\ [d EXCEPT !.children = k].children = k
    BY <2>3 DEF NodeType
  <2> HIDE DEF l
  <2>5. QED
    BY <2>1, <2>2, <2>4
<1>9. Unused(g, root)
  <2>1. PICK t : t = heap[root].children
    OBVIOUS
  <2>2. \E j : PutAt(t, Linked(root, t, key, nextAddress), j, nextAddress)
    BY <1>1, <1>3, <1>8, <2>1, LinkedChildren
  <2>3. PICK j : PutAt(t, g[root].children, j, nextAddress)
    BY <1>8, <2>1, <2>2 DEF l
  <2>4. t = f[root].children
    BY <1>6, <2>1
  <2>5. nextAddress # root
    BY <1>1 DEF Addresses
  <2>6. Unused(f, root) /\ \A x \in Addresses : x # root => g[x] = f[x]
    BY <1>6, <1>7
  <2> HIDE DEF l
  <2>7. QED
    BY <2>3, <2>4, <2>5, <2>6, StillUnused
<1>10. \A x \in Addresses : x < nextAddress /\ x # root => g[x] = heap[x]
  BY <1>6, <1>7
<1>11. PICK v : Values(heap, v)
  BY <1>1, ValueAtIs
<1>12. ASSUME NEW w, Values(g, w)
       PROVE  Merged(g[a].type, Members(g, w, root), Members(g, w, a), Members(g, w, b), n + 1)
  <2>1. \A x \in Addresses : x < nextAddress /\ x # root => w[x] = v[x]
    BY <1>1, <1>10, <1>11, <1>12, FrameValues DEF AppendOK
  <2>2. w[nextAddress] = v[c]
    <3>1. ASSUME NEW x \in Addresses, x >= nextAddress PROVE g[x] = Clone(heap, S)[x]
      <4>1. x # root
        BY <1>1, <3>1 DEF Addresses
      <4>2. QED
        BY <1>7, <4>1 DEF f
    <3>2. QED
      BY <1>1, <1>3, <1>4, <1>5, <1>11, <1>12, <3>1, CopyValues
  <2>3. w[a] = v[a] /\ w[b] = v[b]
    BY <2>1 DEF AppendOK
  <2>4. /\ Members(g, w, a) = Members(heap, v, a) /\ g[a].type = heap[a].type
        /\ Members(g, w, b) = Members(heap, v, b)
    BY <1>11, <1>12, <2>3, SameMembers
  <2>5. ASSUME NEW i \in DOMAIN heap[root].children
        PROVE  w[heap[root].children[i].node] = v[heap[root].children[i].node]
    <3> DEFINE d == heap[root].children[i].node
    <3>1. d \in (root + 1) .. (nextAddress - 1) /\ d # root
      BY <1>1 DEF HeapInv, Nested, AppendOK, Unused
    <3>2. root \in Nat
      BY DEF Addresses
    <3> HIDE DEF d
    <3>3. d \in Addresses /\ d < nextAddress
      BY <1>1, <3>1, <3>2 DEF Addresses
    <3>4. QED
      BY <2>1, <3>1, <3>3 DEF d
  <2>6. heap[root].type = heap[a].type /\ heap[root].type \in {"object", "array"}
    BY DEF AppendOK
  <2>7. Added(heap[root].type, Members(heap, v, root), Members(g, w, root), key, w[nextAddress])
    <3>1. g[root].children = Linked(root, heap[root].children, key, nextAddress)
      BY <1>8 DEF l
    <3>2. Links(g, root, key, v, w)
      <4>1. /\ heap[root].children \in Seq([key : Keys, node : Nat])
            /\ heap[root].type \in {"object", "array"}
        BY <1>8, <2>6
      <4> HIDE DEF l
      <4>2. QED
        BY <2>5, <3>1, <4>1, Zenon DEF Links
    <3> HIDE DEF l
    <3>3. QED
      BY <1>3, <3>2, LinkAdds
  <2> DEFINE r == Members(heap, v, b)
  <2>8. n + 1 \in DOMAIN r /\ r[n + 1][1] = key /\ r[n + 1][2] = v[c]
    BY DEF Members
  <2> HIDE DEF r
  <2>9. Merged(heap[a].type, Members(heap, v, root), Members(heap, v, a), r, n)
    BY <1>11 DEF AppendOK, Merges, r
  <2>10. DOMAIN Members(heap, v, root) \subseteq Nat
    <3>1. /\ Len(heap[root].children) \in Nat
          /\ DOMAIN Members(heap, v, root) = 1 .. Len(heap[root].children)
      BY <1>1, MembersLength
    <3>2. QED
      BY <3>1
  <2>11. Added(heap[a].type, Members(heap, v, root), Members(g, w, root), r[n + 1][1], r[n + 1][2])
    BY <2>2, <2>6, <2>7, <2>8
  <2>12. Merged(heap[a].type, Members(g, w, root), Members(heap, v, a), r, n + 1)
    BY <2>8, <2>9, <2>10, <2>11, MergeGoesOn
  <2>13. QED
    BY <2>4, <2>12 DEF r
<1>13. AppendOK(g, root, a, b, n + 1)
  <2>1. a # root /\ b # root /\ heap[a].type \in {"object", "array"}
        /\ heap[root].type = heap[a].type
    BY DEF AppendOK
  <2>2. g[a] = heap[a] /\ g[b] = heap[b]
    BY <1>10, <2>1
  <2>3. n + 1 <= Len(g[b].children)
    BY <1>2, <2>2
  <2>4. Merges(g, root, a, b, n + 1)
    BY <1>12 DEF Merges
  <2>5. g[a].type \in {"object", "array"} /\ g[root].type = g[a].type
    BY <1>8, <2>1, <2>2
  <2>6. g[root].type = g[a].type /\ a # root /\ b # root
    BY <2>1, <2>5
  <2> HIDE DEF l
  <2>7. QED
    BY <1>9, <2>3, <2>4, <2>5, <2>6, AppendHolds
<1>14. QED
  BY <1>13

\* One more child of the right node is copied and set or pushed.
LEMMA AppendGoesOn ==
  ASSUME IInv, AppendInv, AppendStep
  PROVE  AppendInv'
<1>1. call.op = "append" /\ jsonNodes' = jsonNodes /\ call' = Next_(call)
  BY DEF AppendStep, SameStore
<1>2. LET a == jsonNodes[call.args[1].from]
          b == jsonNodes[call.args[2].from] IN
      /\ call.args[1].from \in Handles /\ call.args[2].from \in Handles
      /\ Known(call.args[1].from) /\ Known(call.args[2].from)
      /\ a \in Addresses /\ a < nextAddress /\ b \in Addresses /\ b < nextAddress
      /\ call.root \in Addresses /\ call.root < nextAddress
      /\ call.at \in Nat /\ call.at > 0
  BY <1>1, AppendFacts
<1>3. AppendOK(heap, call.root, jsonNodes[call.args[1].from], jsonNodes[call.args[2].from],
               call.at - 1)
  BY <1>1 DEF AppendInv
<1>4. /\ call.at \in DOMAIN Right
      /\ InsertCopy(call.root, Right[call.at].key, Right[call.at].node)
  BY DEF AppendStep
<1>5. PICK root, a, b, n, at :
         /\ root = call.root /\ a = jsonNodes[call.args[1].from]
         /\ b = jsonNodes[call.args[2].from] /\ at = call.at /\ n = call.at - 1
  OBVIOUS
<1>6. PICK s : s = Right
  OBVIOUS
<1> DEFINE key == s[at].key
           c == s[at].node
<1>7. /\ root \in Addresses /\ a \in Addresses /\ b \in Addresses
      /\ root < nextAddress /\ a < nextAddress /\ b < nextAddress
      /\ at \in Nat /\ at > 0 /\ AppendOK(heap, root, a, b, n)
  BY <1>2, <1>3, <1>5
<1>8. s = heap[b].children
  BY <1>5, <1>6 DEF Right
<1>9. at \in DOMAIN s
  BY <1>4, <1>5, <1>6
<1>10. InsertCopy(root, key, c)
  BY <1>4, <1>5, <1>6
<1> HIDE DEF key, c
<1>11. n \in Nat /\ n + 1 = at
  BY <1>5, <1>7
<1>12. PICK S \in TreesAt(c) : /\ Allocate(Cardinality(S), origin[root])
                              /\ heap' = Link(Clone(heap, S), root, key)
  BY <1>10 DEF InsertCopy
<1>13. PICK g : g = Link(Clone(heap, S), root, key)
  OBVIOUS
<1>14. nextAddress + Cardinality(S) <= MaxNodes + 1 /\ HeapInv
  BY <1>12 DEF Allocate, IInv
<1>15. AppendOK(g, root, a, b, n + 1)
  <2>1. n + 1 \in DOMAIN s /\ key = s[n + 1].key /\ c = s[n + 1].node
    BY <1>9, <1>11 DEF key, c
  <2>2. QED
    BY <1>7, <1>8, <1>11, <1>12, <1>13, <1>14, <2>1, AppendLinks
<1>16. call'.root = root /\ call'.args = call.args /\ call'.at - 1 = n + 1
  <2>1. call'.root = call.root /\ call'.args = call.args /\ call'.at = call.at + 1
    BY <1>1 DEF Next_, IInv, CallInv
  <2>2. QED
    BY <1>5, <1>7, <1>11, <2>1
<1>17. AppendOK(heap', call'.root, jsonNodes'[call'.args[1].from],
                jsonNodes'[call'.args[2].from], call'.at - 1)
  BY <1>1, <1>5, <1>12, <1>13, <1>15, <1>16
<1>18. QED
  BY <1>17 DEF AppendInv

\* What the loop of an append has reached is kept by every step.
LEMMA AppendInvStays == IInv /\ FreshHandles /\ AppendInv /\ [Next]_vars => AppendInv'
<1> SUFFICES ASSUME IInv, FreshHandles, AppendInv, [Next]_vars PROVE AppendInv'
  OBVIOUS
<1>1. CASE call'.op # "append"
  BY <1>1 DEF AppendInv
<1>2. CASE UNCHANGED vars
  BY <1>2 DEF vars, AppendInv
<1>3. CASE \E left, right \in Handles : BeginAppend(left, right)
  BY <1>3, AppendBegins
<1>4. CASE AppendStep
  BY <1>4, AppendGoesOn
<1>5. CASE \E tree \in Trees : ParseJsonNode(tree)
  BY <1>5, ParseKeepsAppend
<1>6. CASE \/ \E h, k, i : JsonNodeGet(h, k) \/ JsonNodeArrayGet(h, i)
           \/ \E h, k, g : \/ JsonNodeSet(h, k, g) \/ JsonNodeSetScalar(h, k, g)
                           \/ JsonNodeArrayPush(h, g) \/ JsonNodeArrayPushScalar(h, g)
           \/ JsonNodeObject \/ JsonNodeArray \/ OddArguments \/ Reset
           \/ \E v : JsonNodeScalar(v) \/ ReleaseJsonNode(v)
  <2>1. MainIdle /\ call' = call
    BY <1>6 DEF JsonNodeGet, JsonNodeArrayGet, GetChild, JsonNodeSet, JsonNodeSetScalar,
       JsonNodeArrayPush, JsonNodeArrayPushScalar, JsonNodeObject, JsonNodeArray, OddArguments,
       Reset, JsonNodeScalar, ReleaseJsonNode
  <2>2. call'.op # "append"
    BY <2>1 DEF MainIdle, NoCall
  <2>3. QED
    BY <1>1, <2>2
<1>7. CASE \E args : BeginBuilder("object", args) \/ BeginBuilder("array", args)
  <2>1. call'.op # "append"
    BY <1>7 DEF BeginBuilder, Call
  <2>2. QED
    BY <1>1, <2>1
<1>8. CASE BuilderStep
  <2>1. call.op \in Builders /\ call' = Next_(call)
    BY <1>8 DEF BuilderStep
  <2>2. call'.op = call.op
    BY <2>1 DEF Next_, IInv, CallInv
  <2>3. call'.op # "append"
    BY <2>1, <2>2 DEF Builders
  <2>4. QED
    BY <1>1, <2>3
<1>9. CASE BuilderFails \/ BuilderEnds \/ AppendEnds
  <2>1. call'.op # "append"
    BY <1>9 DEF BuilderFails, BuilderEnds, AppendEnds, NoCall
  <2>2. QED
    BY <1>1, <2>1
<1>10. QED
  BY <1>2, <1>3, <1>4, <1>5, <1>6, <1>7, <1>8, <1>9 DEF Next, Natives

-----------------------------------------------------------------------------
(* What an append has done when it ends.                                   *)

GreatestOf(T, i) == i \in T /\ \A k \in T : i >= k

LEMMA GreatestExists ==
  ASSUME NEW n \in Nat, NEW T \in SUBSET (1 .. n), T # {}
  PROVE  \E i : GreatestOf(T, i)
<1> DEFINE D == {d \in Nat : n - d \in T}
<1>1. \A i \in T : n - i \in Nat /\ n - (n - i) = i
  OBVIOUS
<1>2. PICK j : j \in T
  OBVIOUS
<1>3. n - j \in D
  BY <1>1, <1>2
<1>4. D \in SUBSET Nat /\ D # {}
  BY <1>3
<1>5. PICK d \in D : \A k \in D : d <= k
  BY <1>4, LeastOf
<1>6. d \in Nat /\ n - d \in T
  BY <1>5
<1>7. ASSUME NEW k \in T PROVE n - d >= k
  <2>1. n - k \in D /\ n - k \in Nat /\ k \in Nat
    BY <1>1
  <2>2. d <= n - k
    BY <1>5, <2>1
  <2> HIDE DEF D
  <2>3. QED
    BY <1>6, <2>1, <2>2
<1>8. QED
  BY <1>6, <1>7 DEF GreatestOf

\* The members of a node hold the values that AppendMerges looks at.
LEMMA MemberValues ==
  ASSUME HeapInv, NEW a \in Addresses, NEW v, \A x \in Addresses : ValueAt(x) = v[x]
  PROVE  /\ ChildValues(a) = [i \in DOMAIN Members(heap, v, a) |-> Members(heap, v, a)[i][2]]
         /\ \A k, i : KeyAt(Members(heap, v, a), k, i) <=> i \in With(a, k)
<1>1. nextAddress \in Nat /\ nextAddress <= MaxNodes + 1 /\ MaxNodes \in Nat /\ a \in Nat
  BY BoundsAssumption DEF HeapInv, Addresses
<1>2. ASSUME NEW i \in DOMAIN heap[a].children
      PROVE  heap[a].children[i].node \in Addresses
  <2> DEFINE c == heap[a].children[i].node
  <2>1. c \in (a + 1) .. (nextAddress - 1)
    BY DEF HeapInv, Nested
  <2> HIDE DEF c
  <2>2. c \in Addresses
    BY <1>1, <2>1 DEF Addresses
  <2>3. QED
    BY <2>2 DEF c
<1>3. \A i \in DOMAIN heap[a].children :
         ValueAt(heap[a].children[i].node) = v[heap[a].children[i].node]
  BY <1>2
<1>4. ChildValues(a) = [i \in DOMAIN Members(heap, v, a) |-> Members(heap, v, a)[i][2]]
  BY <1>3 DEF ChildValues, Members
<1>5. \A k, i : KeyAt(Members(heap, v, a), k, i) <=> i \in With(a, k)
  BY DEF KeyAt, With, Members
<1>6. QED
  BY <1>4, <1>5

LEMMA FirstMember ==
  ASSUME HeapInv, NEW a \in Addresses, NEW v, \A x \in Addresses : ValueAt(x) = v[x],
         NEW k, With(a, k) # {}
  PROVE  \E i : /\ FirstAt(Members(heap, v, a), k, i)
                /\ FirstWith(a, k) = Members(heap, v, a)[i][2]
<1> DEFINE m == Members(heap, v, a)
           T == With(a, k)
<1>1. /\ ChildValues(a) = [i \in DOMAIN m |-> m[i][2]]
      /\ \A j : KeyAt(m, k, j) <=> j \in T
  BY MemberValues
<1>2. DOMAIN m = 1 .. Len(heap[a].children) /\ Len(heap[a].children) \in Nat
  BY MembersLength
<1> HIDE DEF m, T
<1>3. T \in SUBSET (DOMAIN m)
  BY <1>1 DEF KeyAt
<1>4. T \in SUBSET Nat /\ T # {}
  BY <1>2, <1>3 DEF T
<1>5. \E i \in T : \A j \in T : i <= j
  BY <1>4, LeastOf
<1>6. PICK i : i = CHOOSE x \in T : \A j \in T : x <= j
  OBVIOUS
<1>7. i \in T /\ \A j \in T : i <= j
  BY <1>5, <1>6
<1>8. FirstAt(m, k, i)
  BY <1>1, <1>7 DEF FirstAt
<1>9. FirstWith(a, k) = m[i][2]
  BY <1>1, <1>3, <1>6, <1>7 DEF FirstWith, T
<1>10. QED
  BY <1>8, <1>9 DEF m

LEMMA LastMember ==
  ASSUME HeapInv, NEW a \in Addresses, NEW v, \A x \in Addresses : ValueAt(x) = v[x],
         NEW k, With(a, k) # {}
  PROVE  \E i : /\ LastAt(Members(heap, v, a), k, Len(heap[a].children), i)
                /\ LastWith(a, k) = Members(heap, v, a)[i][2]
<1> DEFINE m == Members(heap, v, a)
           T == With(a, k)
           n == Len(heap[a].children)
<1>1. /\ ChildValues(a) = [i \in DOMAIN m |-> m[i][2]]
      /\ \A j : KeyAt(m, k, j) <=> j \in T
  BY MemberValues
<1>2. DOMAIN m = 1 .. n /\ n \in Nat
  BY MembersLength
<1> HIDE DEF m, T, n
<1>3. T \in SUBSET (1 .. n) /\ T # {}
  BY <1>1, <1>2 DEF KeyAt, T
<1>4. PICK g : GreatestOf(T, g)
  BY <1>2, <1>3, GreatestExists
<1>5. \E i \in T : \A j \in T : i >= j
  BY <1>4 DEF GreatestOf
<1>6. PICK i : i = CHOOSE x \in T : \A j \in T : x >= j
  OBVIOUS
<1>7. i \in T /\ \A j \in T : i >= j
  BY <1>5, <1>6
<1>8. LastAt(m, k, n, i)
  <2>1. i \in 1 .. n /\ KeyAt(m, k, i)
    BY <1>1, <1>3, <1>7
  <2>2. ASSUME NEW j \in 1 .. n, KeyAt(m, k, j) PROVE j <= i
    BY <1>1, <1>2, <1>7, <2>1, <2>2
  <2>3. QED
    BY <2>1, <2>2 DEF LastAt
<1>9. LastWith(a, k) = m[i][2]
  BY <1>1, <1>2, <1>3, <1>6, <1>7 DEF LastWith, T
<1>10. QED
  BY <1>8, <1>9 DEF m, n

MergedArrays(root, a, b) == ChildValues(root) = ChildValues(a) \o ChildValues(b)
MergedMember(root, a, b, k) ==
    /\ With(root, k) = {} <=> With(a, k) \cup With(b, k) = {}
    /\ With(b, k) # {} => FirstWith(root, k) = LastWith(b, k)
    /\ With(b, k) = {} /\ With(a, k) # {} => FirstWith(root, k) = FirstWith(a, k)

\* x has the values of the members l.
AreValues(x, l) == x = [i \in DOMAIN l |-> l[i][2]]

LEMMA ArraysMerged ==
  ASSUME NEW m, NEW l, NEW r, NEW n \in Nat, DOMAIN r = 1 .. n, MergedArray(m, l, r, n),
         NEW x, AreValues(x, l), NEW y, AreValues(y, r), NEW z, AreValues(z, m)
  PROVE  z = x \o y
<1>1. PICK c \in Nat : /\ DOMAIN l = 1 .. c /\ DOMAIN m = 1 .. (c + n)
                       /\ \A i \in 1 .. c : m[i][2] = l[i][2]
                       /\ \A i \in 1 .. n : m[c + i][2] = r[i][2]
  BY DEF MergedArray
<1>2. /\ x = [i \in DOMAIN l |-> l[i][2]] /\ y = [i \in DOMAIN r |-> r[i][2]]
      /\ z = [i \in DOMAIN m |-> m[i][2]]
  BY DEF AreValues
<1> DEFINE V == {x[i] : i \in 1 .. c} \cup {y[i] : i \in 1 .. n}
<1>3. x \in [1 .. c -> V] /\ y \in [1 .. n -> V]
  BY <1>1, <1>2
<1>4. \A i \in 1 .. (c + n) : z[i] = IF i <= c THEN x[i] ELSE y[i - c]
  <2> TAKE i \in 1 .. (c + n)
  <2>1. z[i] = m[i][2]
    BY <1>1, <1>2
  <2>2. CASE i <= c
    <3>1. i \in 1 .. c
      BY <2>2
    <3>2. QED
      BY <1>1, <1>2, <2>1, <2>2, <3>1
  <2>3. CASE ~(i <= c)
    <3>1. i - c \in 1 .. n /\ c + (i - c) = i
      BY <2>3
    <3>2. m[c + (i - c)][2] = r[i - c][2] /\ y[i - c] = r[i - c][2]
      BY <1>1, <1>2, <3>1
    <3>3. QED
      BY <2>1, <2>3, <3>1, <3>2
  <2>4. QED
    BY <2>2, <2>3
<1>5. z \in [1 .. (c + n) -> V]
  <2>1. \A i \in 1 .. (c + n) : i <= c => x[i] \in V
    BY <1>3
  <2>2. ASSUME NEW i \in 1 .. (c + n), ~(i <= c) PROVE y[i - c] \in V
    <3>1. i - c \in 1 .. n
      BY <2>2
    <3>2. QED
      BY <1>3, <3>1
  <2>3. z = [i \in 1 .. (c + n) |-> z[i]]
    BY <1>1, <1>2
  <2> HIDE DEF V
  <2>4. \A i \in 1 .. (c + n) : z[i] \in V
    BY <1>4, <2>1, <2>2
  <2>5. QED
    BY <2>3, <2>4
<1> HIDE DEF V
<1>6. /\ x \in Seq(V) /\ Len(x) = c /\ y \in Seq(V) /\ Len(y) = n
      /\ z \in Seq(V) /\ Len(z) = c + n
  BY <1>3, <1>5
<1>7. /\ x \o y \in Seq(V) /\ Len(x \o y) = c + n
      /\ \A i \in 1 .. (c + n) : (x \o y)[i] = IF i <= c THEN x[i] ELSE y[i - c]
  BY <1>6, ConcatProperties
<1>8. \A i \in 1 .. Len(z) : z[i] = (x \o y)[i]
  BY <1>4, <1>6, <1>7
<1>9. QED
  BY <1>6, <1>7, <1>8, SeqEqual

\* An append that has merged every child of the right node has merged the two.
LEMMA MergedNode ==
  ASSUME HeapInv, NEW root \in Addresses, NEW a \in Addresses, NEW b \in Addresses,
         AppendOK(heap, root, a, b, Len(heap[b].children))
  PROVE  /\ heap[root].type = heap[a].type
         /\ heap[a].type = "array" => MergedArrays(root, a, b)
         /\ heap[a].type = "object" => \A k \in Names : MergedMember(root, a, b, k)
<1>1. PICK v : Values(heap, v) /\ \A x \in Addresses : ValueAt(x) = v[x]
  BY ValueAtIs
<1> DEFINE m == Members(heap, v, root)
           l == Members(heap, v, a)
           r == Members(heap, v, b)
           n == Len(heap[b].children)
<1>2. heap[root].type = heap[a].type /\ Merged(heap[a].type, m, l, r, n)
  BY <1>1 DEF AppendOK, Merges
<1>3. DOMAIN r = 1 .. n /\ n \in Nat
  BY MembersLength
<1>4. /\ ChildValues(root) = [i \in DOMAIN m |-> m[i][2]]
      /\ \A k, i : KeyAt(m, k, i) <=> i \in With(root, k)
  BY <1>1, MemberValues
<1>5. /\ ChildValues(a) = [i \in DOMAIN l |-> l[i][2]]
      /\ \A k, i : KeyAt(l, k, i) <=> i \in With(a, k)
  BY <1>1, MemberValues
<1>6. /\ ChildValues(b) = [i \in DOMAIN r |-> r[i][2]]
      /\ \A k, i : KeyAt(r, k, i) <=> i \in With(b, k)
  BY <1>1, MemberValues
<1>7. \A k : /\ With(root, k) # {} => \E i : FirstAt(m, k, i) /\ FirstWith(root, k) = m[i][2]
             /\ With(a, k) # {} => \E i : FirstAt(l, k, i) /\ FirstWith(a, k) = l[i][2]
             /\ With(b, k) # {} => \E i : LastAt(r, k, n, i) /\ LastWith(b, k) = r[i][2]
  BY <1>1, FirstMember, LastMember
<1> HIDE DEF m, l, r, n
<1>8. ASSUME heap[a].type = "array" PROVE MergedArrays(root, a, b)
  <2>1. MergedArray(m, l, r, n)
    BY <1>2, <1>8 DEF Merged
  <2>2. /\ AreValues(ChildValues(root), m) /\ AreValues(ChildValues(a), l)
        /\ AreValues(ChildValues(b), r)
    BY <1>4, <1>5, <1>6 DEF AreValues
  <2>3. QED
    BY <1>3, <2>1, <2>2, ArraysMerged DEF MergedArrays
<1>9. ASSUME heap[a].type = "object", NEW k \in Names PROVE MergedMember(root, a, b, k)
  <2>1. /\ (\E i : KeyAt(m, k, i)) <=> (\E i : KeyAt(l, k, i)) \/ \E i \in 1 .. n : KeyAt(r, k, i)
        /\ \A i, j : FirstAt(m, k, i) /\ LastAt(r, k, n, j) => m[i][2] = r[j][2]
        /\ \A i, j : /\ FirstAt(m, k, i) /\ FirstAt(l, k, j)
                     /\ \A x \in 1 .. n : ~KeyAt(r, k, x)
                     => m[i][2] = l[j][2]
    BY <1>2, <1>9 DEF Merged, MergedKey
  <2>2. (\E i \in 1 .. n : KeyAt(r, k, i)) <=> With(b, k) # {}
    <3>1. \A i : KeyAt(r, k, i) => i \in 1 .. n
      BY <1>3 DEF KeyAt
    <3>2. QED
      BY <1>6, <3>1
  <2>3. With(root, k) = {} <=> With(a, k) \cup With(b, k) = {}
    BY <1>4, <1>5, <2>1, <2>2
  <2>4. ASSUME With(b, k) # {} PROVE FirstWith(root, k) = LastWith(b, k)
    <3>1. With(root, k) # {}
      BY <2>3, <2>4
    <3>2. QED
      BY <1>7, <2>1, <2>4, <3>1
  <2>5. ASSUME With(b, k) = {}, With(a, k) # {} PROVE FirstWith(root, k) = FirstWith(a, k)
    <3>1. With(root, k) # {}
      BY <2>3, <2>5
    <3>2. \A x \in 1 .. n : ~KeyAt(r, k, x)
      BY <2>2, <2>5
    <3>3. QED
      BY <1>7, <2>1, <2>5, <3>1, <3>2
  <2>6. QED
    BY <2>3, <2>4, <2>5 DEF MergedMember
<1>10. QED
  BY <1>2, <1>8, <1>9

LEMMA OnlyAppendEnds ==
  ASSUME IInv, Next, call.op = "append", call'.op = "none"
  PROVE  AppendEnds
<1>1. ~MainIdle /\ call.op \notin Builders /\ call' # call
  BY DEF MainIdle, NoCall, Builders
<1>2. ~BuilderStep /\ ~BuilderFails /\ ~BuilderEnds
  BY <1>1 DEF BuilderStep, BuilderFails, BuilderEnds
<1>3. \A tree : ~ParseJsonNode(tree)
  BY <1>1 DEF ParseJsonNode
<1>4. ~AppendStep
  <2> SUFFICES ASSUME AppendStep PROVE FALSE
    OBVIOUS
  <2>1. call' = Next_(call)
    BY DEF AppendStep
  <2>2. call'.op = call.op
    BY <2>1 DEF Next_, IInv, CallInv
  <2>3. QED
    BY <2>2
<1>5. /\ ~JsonNodeObject /\ ~JsonNodeArray /\ ~OddArguments /\ ~Reset
      /\ \A v : ~JsonNodeScalar(v) /\ ~ReleaseJsonNode(v)
      /\ \A h, k, g : /\ ~JsonNodeGet(h, k) /\ ~JsonNodeArrayGet(h, k)
                      /\ ~JsonNodeSet(h, k, g) /\ ~JsonNodeSetScalar(h, k, g)
                      /\ ~JsonNodeArrayPush(h, g) /\ ~JsonNodeArrayPushScalar(h, g)
                      /\ ~BeginAppend(h, g) /\ ~BeginBuilder(h, g)
  BY <1>1 DEF JsonNodeGet, JsonNodeArrayGet, JsonNodeSet, JsonNodeSetScalar, JsonNodeArrayPush,
     JsonNodeArrayPushScalar, JsonNodeObject, JsonNodeArray, OddArguments, Reset, JsonNodeScalar,
     ReleaseJsonNode, BeginAppend, BeginBuilder
<1>6. QED
  BY <1>2, <1>3, <1>4, <1>5 DEF Next, Natives

\* JsonAppend consumes its two arguments and touches no other handle, and what
\* it gives has merged them, whatever else is parsed meanwhile.
THEOREM AppendsMerge == Spec => AppendMerges
<1>1. Init => FreshHandles /\ AppendInv
  BY DEF Init, FreshHandles, AppendInv, NoCall
<1>2. IInv /\ FreshHandles /\ AppendInv /\ [Next]_vars => FreshHandles' /\ AppendInv'
  BY FreshHandlesStay, AppendInvStays
<1>3. IInv /\ AppendInv /\ [Next]_vars => [AppendOutcome]_vars
  <2> SUFFICES ASSUME IInv, AppendInv, Next, call.op = "append", call'.op = "none"
               PROVE  AppendOutcome
    BY DEF AppendOutcome, vars
  <2>1. /\ call.at = Len(Right) + 1 /\ nextJsonNodeId \in Handles
        /\ jsonNodes' = [Without(Consumed(2)) EXCEPT ![nextJsonNodeId] = call.root]
    BY OnlyAppendEnds DEF AppendEnds, StoreJsonNode
  <2>2. /\ jsonNodes'[nextJsonNodeId] = call.root
        /\ \A h \in Handles \ {nextJsonNodeId} :
              jsonNodes'[h] = IF h \in Consumed(2) THEN Nil ELSE jsonNodes[h]
    BY <2>1 DEF Without
  <2>3. LET a == jsonNodes[call.args[1].from]
            b == jsonNodes[call.args[2].from] IN
        /\ call.args[1].from \in Handles /\ call.args[2].from \in Handles
        /\ Known(call.args[1].from) /\ Known(call.args[2].from)
        /\ a \in Addresses /\ a < nextAddress /\ b \in Addresses /\ b < nextAddress
        /\ call.root \in Addresses /\ call.root < nextAddress
        /\ call.at \in Nat /\ call.at > 0
    BY AppendFacts
  <2>4. PICK root, a, b, n : /\ root = call.root /\ a = jsonNodes[call.args[1].from]
                             /\ b = jsonNodes[call.args[2].from] /\ n = call.at - 1
    OBVIOUS
  <2>5. root \in Addresses /\ a \in Addresses /\ b \in Addresses
    BY <2>3, <2>4
  <2>6. Right = heap[b].children
    BY <2>4 DEF Right
  <2>7. n = Len(heap[b].children)
    <3>1. Len(heap[b].children) \in Nat
      BY <2>5, MembersLength DEF IInv
    <3>2. QED
      BY <2>1, <2>4, <2>6, <3>1
  <2>8. AppendOK(heap, root, a, b, Len(heap[b].children))
    <3>1. AppendOK(heap, root, a, b, n)
      BY <2>4 DEF AppendInv
    <3>2. QED
      BY <2>7, <3>1
  <2>9. /\ heap[root].type = heap[a].type
        /\ heap[a].type = "array" => MergedArrays(root, a, b)
        /\ heap[a].type = "object" => \A k \in Names : MergedMember(root, a, b, k)
    BY <2>5, <2>8, MergedNode DEF IInv
  <2>10. jsonNodes'[nextJsonNodeId] = root
    BY <2>2, <2>4
  <2>11. QED
    BY <2>2, <2>4, <2>9, <2>10 DEF AppendOutcome, MergedArrays, MergedMember
<1>4. QED
  BY <1>1, <1>2, <1>3, InvariantHolds, PTL DEF Spec, AppendMerges

-----------------------------------------------------------------------------
(* Reading a text.  A function gives Fail or a position further on.        *)

Texts == Seq(STRING)
Ahead(s, pos, next) == next = Fail \/ next \in pos + 1 .. Len(s) + 1

\* A property of positions that passes on to a position from all those behind
\* it holds everywhere.
LEMMA Backwards ==
  ASSUME NEW n \in Nat, NEW P, \A p \in 1 .. n : (\A q \in p + 1 .. n : q \in P) => p \in P
  PROVE  1 .. n \subseteq P
<1> SUFFICES ASSUME ~(1 .. n \subseteq P) PROVE FALSE
  OBVIOUS
<1> DEFINE T == {p \in 1 .. n : p \notin P}
<1>1. PICK p : GreatestOf(T, p)
  <2>1. T \in SUBSET (1 .. n) /\ T # {}
    OBVIOUS
  <2> HIDE DEF T
  <2>2. QED
    BY <2>1, GreatestExists
<1>2. p \in 1 .. n /\ p \notin P /\ \A q \in 1 .. n : q \notin P => p >= q
  BY <1>1 DEF GreatestOf
<1>3. \A q \in p + 1 .. n : q \in P
  BY <1>2
<1>4. QED
  BY <1>2, <1>3

LEMMA Upwards ==
  ASSUME NEW P, 0 \in P, \A m \in P : m + 1 \in P
  PROVE  Nat \subseteq P
<1> SUFFICES ASSUME ~(Nat \subseteq P) PROVE FALSE
  OBVIOUS
<1> DEFINE T == {m \in Nat : m \notin P}
<1>1. PICK m \in T : \A k \in T : m <= k
  <2>1. T \in SUBSET Nat /\ T # {}
    OBVIOUS
  <2> HIDE DEF T
  <2>2. QED
    BY <2>1, LeastOf
<1>2. m \in Nat /\ m \notin P /\ m # 0 /\ \A k \in Nat : k \notin P => m <= k
  BY <1>1
<1> DEFINE k == m - 1
<1>3. k \in Nat /\ ~(m <= k) /\ k + 1 = m
  BY <1>2
<1> HIDE DEF k
<1>4. k \in P
  BY <1>2, <1>3
<1>5. k + 1 \in P
  BY <1>4
<1>6. QED
  BY <1>2, <1>3, <1>5

IsFirstNot(s, pos, symbols, q) ==
    /\ q \in pos .. Len(s) + 1 /\ At(s, q) \notin symbols
    /\ \A k \in pos .. q - 1 : At(s, k) \in symbols

LEMMA FirstNotIs ==
  ASSUME NEW s \in Texts, NEW pos \in 0 .. Len(s) + 1, NEW symbols, "end" \notin symbols
  PROVE  IsFirstNot(s, pos, symbols, FirstNot(s, pos, symbols))
<1> DEFINE T == {q \in pos .. Len(s) + 1 : At(s, q) \notin symbols}
<1>1. Len(s) \in Nat /\ DOMAIN s = 1 .. Len(s)
  BY DEF Texts
<1>2. At(s, Len(s) + 1) = "end"
  BY <1>1 DEF At
<1>3. T \in SUBSET Nat /\ T # {}
  BY <1>1, <1>2
<1>4. PICK q \in T : \A k \in T : q <= k
  BY <1>3, LeastOf
<1>5. \A k \in pos .. q - 1 : At(s, k) \in symbols
  <2>1. \A k \in pos .. q - 1 : k \in pos .. Len(s) + 1 /\ ~(q <= k)
    BY <1>1, <1>4
  <2>2. QED
    BY <1>4, <2>1
<1>6. \E x \in pos .. Len(s) + 1 : At(s, x) \notin symbols /\ \A k \in pos .. x - 1 : At(s, k) \in symbols
  BY <1>4, <1>5
<1>7. QED
  BY <1>6 DEF FirstNot, IsFirstNot

LEMMA FirstNotIsOne ==
  ASSUME NEW s \in Texts, NEW pos \in 0 .. Len(s) + 1, NEW symbols, "end" \notin symbols,
         NEW q, IsFirstNot(s, pos, symbols, q)
  PROVE  FirstNot(s, pos, symbols) = q
<1> DEFINE f == FirstNot(s, pos, symbols)
<1>1. IsFirstNot(s, pos, symbols, f)
  BY FirstNotIs
<1> HIDE DEF f
<1>2. f \in Int /\ q \in Int
  BY <1>1 DEF IsFirstNot, Texts
<1>3. ~(f < q) /\ ~(q < f)
  BY <1>1, <1>2 DEF IsFirstNot
<1>4. f = q
  BY <1>2, <1>3
<1>5. QED
  BY <1>4 DEF f

\* White space is skipped once.
LEMMA Solids ==
  ASSUME NEW s \in Texts, NEW pos \in 0 .. Len(s) + 1
  PROVE  /\ SkipWhitespace(s, pos) \in pos .. Len(s) + 1
         /\ At(s, SkipWhitespace(s, pos)) \notin Whitespace
         /\ SkipWhitespace(s, SkipWhitespace(s, pos)) = SkipWhitespace(s, pos)
         /\ At(s, pos) \notin Whitespace => SkipWhitespace(s, pos) = pos
         /\ pos = Fail => SkipWhitespace(s, pos) = Fail
<1> DEFINE q == SkipWhitespace(s, pos)
<1>1. "end" \notin Whitespace /\ Len(s) \in Nat
  BY DEF Whitespace, Texts
<1>2. IsFirstNot(s, pos, Whitespace, q)
  BY <1>1, FirstNotIs DEF SkipWhitespace
<1> HIDE DEF q
<1>3. q \in pos .. Len(s) + 1 /\ q \in 0 .. Len(s) + 1 /\ At(s, q) \notin Whitespace
  BY <1>1, <1>2 DEF IsFirstNot
<1>4. IsFirstNot(s, q, Whitespace, q)
  BY <1>1, <1>3 DEF IsFirstNot
<1>5. SkipWhitespace(s, q) = q
  BY <1>1, <1>3, <1>4, FirstNotIsOne DEF SkipWhitespace
<1>6. ASSUME At(s, pos) \notin Whitespace PROVE q = pos
  BY <1>1, <1>2, <1>6 DEF IsFirstNot
<1>7. ASSUME pos = Fail PROVE q = Fail
  <2>1. At(s, pos) = "end"
    BY <1>7, <1>1 DEF At, Fail, Texts
  <2>2. QED
    BY <1>1, <1>6, <1>7, <2>1
<1>8. QED
  BY <1>3, <1>5, <1>6, <1>7 DEF q

\* What can be read at the positions of a text.
LEMMA SomethingAt ==
  ASSUME NEW s \in Texts, NEW pos, At(s, pos) # "end"
  PROVE  pos \in 1 .. Len(s) /\ pos + 1 \in Positions(s) /\ At(s, pos) = s[pos]
BY DEF At, Texts, Positions

LEMMA AfterIs ==
  ASSUME NEW s \in Texts, NEW pos \in 0 .. Len(s) + 1, NEW symbol, symbol # "end"
  PROVE  Ahead(s, pos, After(s, pos, symbol)) /\ (pos = Fail => After(s, pos, symbol) = Fail)
<1> DEFINE q == SkipWhitespace(s, pos)
<1>1. q \in pos .. Len(s) + 1 /\ (pos = Fail => q = Fail) /\ Len(s) \in Nat
  BY Solids DEF Texts
<1> HIDE DEF q
<1>2. At(s, Fail) = "end"
  BY DEF At, Fail, Texts
<1>3. At(s, q) = symbol => q \in 1 .. Len(s)
  BY SomethingAt
<1>4. After(s, pos, symbol) = Past(s, q, symbol)
  BY DEF After, q
<1>5. CASE At(s, q) = symbol
  <2>1. After(s, pos, symbol) = q + 1 /\ q + 1 \in pos + 1 .. Len(s) + 1
    BY <1>1, <1>3, <1>4, <1>5 DEF Past
  <2>2. pos # Fail
    BY <1>1, <1>2, <1>5
  <2>3. QED
    BY <2>1, <2>2 DEF Ahead
<1>6. CASE At(s, q) # symbol
  BY <1>4, <1>6 DEF Past, Ahead
<1>7. QED
  BY <1>5, <1>6

-----------------------------------------------------------------------------
(* Strings.                                                                *)

\* What is found at one position is made of what is found behind it, so the
\* recursion has a solution.
LEMMA StringRestIs ==
  ASSUME NEW s \in Texts
  PROVE  StringRest(s) = [pos \in Positions(s) |-> CharsFrom(s, StringRest(s), pos)]
<1> DEFINE n == Len(s) + 1
           All(f) == [pos \in 1 .. n |-> CharsFrom(s, f, pos)]
           From(f, m) == \A pos \in m .. n : f[pos] = CharsFrom(s, f, pos)
           T == {m \in 1 .. n + 1 : \E f : f = [pos \in 1 .. n |-> f[pos]] /\ From(f, m)}
<1>1. n \in Nat /\ Positions(s) = 1 .. n /\ n >= 1
  BY DEF Texts, Positions
<1>2. n + 1 \in T
  <2>1. From([pos \in 1 .. n |-> 0], n + 1)
    BY <1>1
  <2>2. n + 1 \in 1 .. n + 1 /\ [pos \in 1 .. n |-> 0] = [pos \in 1 .. n |-> [p \in 1 .. n |-> 0][pos]]
    BY <1>1
  <2> HIDE DEF From
  <2>3. QED
    BY <2>1, <2>2
<1>3. ASSUME NEW m \in T, m # 1 PROVE m - 1 \in T
  <2>1. m \in 1 .. n + 1 /\ m - 1 \in 1 .. n + 1
    BY <1>1, <1>3
  <2>2. PICK f : From(f, m)
    OBVIOUS
  <2> DEFINE g == All(f)
  <2>3. \A pos \in m .. n : g[pos] = f[pos]
    BY <1>1, <2>1, <2>2
  <2>4. \A pos \in m - 1 .. n : g[pos] = CharsFrom(s, f, pos)
    BY <1>1, <2>1
  <2>5. g = [pos \in 1 .. n |-> g[pos]]
    OBVIOUS
  <2> HIDE DEF g
  <2>6. ASSUME NEW pos \in m - 1 .. n PROVE CharsFrom(s, f, pos) = CharsFrom(s, g, pos)
    <3>1. pos < Len(s) => pos + 2 \in m .. n
      BY <1>1, <2>1
    <3>2. At(s, pos) # "end" => pos + 1 \in m .. n
      BY <1>1, <2>1, SomethingAt
    <3>3. QED
      BY <2>3, <3>1, <3>2 DEF CharsFrom
  <2>7. From(g, m - 1)
    BY <2>4, <2>6
  <2> HIDE DEF From
  <2>8. QED
    BY <2>1, <2>5, <2>7
<1>4. 1 \in T
  <2>1. T \in SUBSET Nat /\ T # {}
    BY <1>1, <1>2
  <2>2. PICK m \in T : \A k \in T : m <= k
    BY <2>1, LeastOf
  <2>3. m \in Nat
    BY <2>1
  <2> HIDE DEF T
  <2>4. ~(m <= m - 1)
    BY <2>3
  <2>5. QED
    BY <1>3, <2>2, <2>4
<1>5. \E f : f = [pos \in Positions(s) |-> CharsFrom(s, f, pos)]
  BY <1>1, <1>4
<1> HIDE DEF All, From, T
<1>6. QED
  BY <1>5 DEF StringRest

\* What a reader gives at a position: nothing, or what ends further on.
IsParsed(s, pos, r) ==
    r = NotParsed \/ (r = Parsed(r.next, r.value) /\ r.next \in pos + 1 .. Len(s) + 1)

LEMMA ParsedAhead ==
  ASSUME NEW s, NEW pos, NEW r, IsParsed(s, pos, r)
  PROVE  Ahead(s, pos, r.next) /\ (r.next = Fail <=> r = NotParsed \/ r.next = 0)
BY DEF IsParsed, Ahead, NotParsed, Parsed, Fail

LEMMA JoinedIs ==
  ASSUME NEW s, NEW pos, NEW r, NEW item, IsParsed(s, pos, r)
  PROVE  IsParsed(s, pos, Joined(item, r))
<1>1. CASE r = NotParsed
  BY <1>1 DEF IsParsed, Joined, NotParsed, Parsed
<1>2. CASE r.next = Fail
  BY <1>2 DEF IsParsed, Joined
<1>3. CASE r # NotParsed /\ r.next # Fail
  BY <1>3 DEF IsParsed, Joined, Parsed
<1>4. QED
  BY <1>1, <1>2, <1>3

LEMMA MadeIs ==
  ASSUME NEW s, NEW pos, NEW r, NEW node, IsParsed(s, pos, r)
  PROVE  IsParsed(s, pos, Made(r, node))
<1>1. CASE r = NotParsed
  BY <1>1 DEF IsParsed, Made, NotParsed, Parsed
<1>2. CASE r.next = Fail
  BY <1>2 DEF IsParsed, Made
<1>3. CASE r # NotParsed /\ r.next # Fail
  BY <1>3 DEF IsParsed, Made, Parsed
<1>4. QED
  BY <1>1, <1>2, <1>3

LEMMA ParsedFurther ==
  ASSUME NEW s \in Texts, NEW pos \in 0 .. Len(s) + 1, NEW q \in pos .. Len(s) + 1, NEW r,
         IsParsed(s, q, r)
  PROVE  IsParsed(s, pos, r)
BY DEF IsParsed, Texts

LEMMA NewParsed ==
  ASSUME NEW s, NEW pos, NEW next \in pos + 1 .. Len(s) + 1, NEW value
  PROVE  IsParsed(s, pos, Parsed(next, value))
BY DEF IsParsed, Parsed

LEMMA RestAhead ==
  ASSUME NEW s \in Texts, NEW pos \in Positions(s)
  PROVE  IsParsed(s, pos, StringRest(s)[pos])
<1> DEFINE n == Len(s) + 1
           f == StringRest(s)
           P == {p \in 1 .. n : IsParsed(s, p, f[p])}
<1>1. n \in Nat /\ Positions(s) = 1 .. n
  BY DEF Texts, Positions
<1>2. \A p \in 1 .. n : f[p] = CharsFrom(s, f, p)
  BY <1>1, StringRestIs
<1> HIDE DEF f
<1>3. ASSUME NEW p \in 1 .. n, \A q \in p + 1 .. n : q \in P
      PROVE  p \in P
  <2>1. CASE At(s, p) = "end"
    BY <1>2, <2>1 DEF CharsFrom, IsParsed
  <2>2. CASE At(s, p) = "quote"
    <3>1. p + 1 \in p + 1 .. n
      BY <1>1, <2>2, SomethingAt
    <3>2. f[p] = Parsed(p + 1, <<>>)
      BY <1>2, <2>2 DEF CharsFrom
    <3>3. QED
      BY <3>1, <3>2, NewParsed
  <2>3. CASE At(s, p) = "bs" /\ p < Len(s)
    <3>1. p + 2 \in p + 1 .. n /\ p + 2 \in p .. n /\ p \in 0 .. n
      BY <1>1, <2>3
    <3>2. IsParsed(s, p + 2, f[p + 2])
      BY <1>3, <3>1
    <3>3. IsParsed(s, p, f[p + 2])
      BY <3>1, <3>2, ParsedFurther
    <3>4. f[p] = Joined(Unescaped(s[p + 1]), f[p + 2])
      BY <1>2, <2>3 DEF CharsFrom
    <3>5. QED
      BY <3>3, <3>4, JoinedIs
  <2>4. CASE At(s, p) \notin {"end", "quote"} /\ ~(At(s, p) = "bs" /\ p < Len(s))
    <3>1. p + 1 \in p + 1 .. n /\ p + 1 \in p .. n /\ p \in 0 .. n
      BY <1>1, <2>4, SomethingAt
    <3>2. IsParsed(s, p + 1, f[p + 1])
      BY <1>3, <3>1
    <3>3. IsParsed(s, p, f[p + 1])
      BY <3>1, <3>2, ParsedFurther
    <3>4. f[p] = Joined(s[p], f[p + 1])
      BY <1>2, <2>4 DEF CharsFrom
    <3>5. QED
      BY <3>3, <3>4, JoinedIs
  <2>5. QED
    BY <2>1, <2>2, <2>3, <2>4
<1> HIDE DEF P
<1>4. 1 .. n \subseteq P
  BY <1>1, <1>3, Backwards
<1>5. QED
  BY <1>1, <1>4 DEF f, P

\* A scalar is read from the first solid position on.
LEMMA ScalarsAhead ==
  ASSUME NEW s \in Texts, NEW pos \in 0 .. Len(s) + 1
  PROVE  LET w == SkipWhitespace(s, pos) IN
         /\ IsParsed(s, w, ParseString(s, pos)) /\ ParseString(s, pos) = ParseString(s, w)
         /\ IsParsed(s, w, ParseNumber(s, pos)) /\ ParseNumber(s, pos) = ParseNumber(s, w)
         /\ IsParsed(s, w, ParseBool(s, pos)) /\ ParseBool(s, pos) = ParseBool(s, w)
         /\ IsParsed(s, w, ParseNull(s, pos)) /\ ParseNull(s, pos) = ParseNull(s, w)
<1> DEFINE w == SkipWhitespace(s, pos)
<1>1. w \in 0 .. Len(s) + 1 /\ SkipWhitespace(s, w) = w /\ Len(s) \in Nat
  BY Solids DEF Texts
<1>2. /\ ParseString(s, pos) = ParseString(s, w) /\ ParseNumber(s, pos) = ParseNumber(s, w)
      /\ ParseBool(s, pos) = ParseBool(s, w) /\ ParseNull(s, pos) = ParseNull(s, w)
  BY <1>1 DEF ParseString, After, ParseNumber, ParseBool, ParseNull
<1> HIDE DEF w
<1>3. IsParsed(s, w, ParseString(s, w))
  <2>1. CASE At(s, w) = "quote"
    <3>1. w + 1 \in Positions(s) /\ w + 1 \in w .. Len(s) + 1
      BY <1>1, <2>1, SomethingAt
    <3>2. IsParsed(s, w + 1, StringRest(s)[w + 1])
      BY <3>1, RestAhead
    <3>3. w + 1 # Fail /\ After(s, w, "quote") = w + 1
      BY <1>1, <2>1 DEF After, Past, Fail
    <3>4. ParseString(s, w) = StringRest(s)[w + 1]
      BY <3>3 DEF ParseString, OpenString
    <3>5. QED
      BY <1>1, <3>1, <3>2, <3>4, ParsedFurther
  <2>2. CASE At(s, w) # "quote"
    BY <1>1, <2>2 DEF ParseString, OpenString, After, Past, IsParsed
  <2>3. QED
    BY <2>1, <2>2
<1>4. IsParsed(s, w, ParseNumber(s, w))
  <2> DEFINE first == IF At(s, w) = "minus" THEN w + 1 ELSE w
             p == FirstNot(s, first, Digits)
  <2>1. first \in w .. Len(s) + 1 /\ first \in 0 .. Len(s) + 1
    BY <1>1, SomethingAt
  <2>2. p \in first .. Len(s) + 1
    <3>1. "end" \notin Digits
      BY DEF Digits
    <3> HIDE DEF first
    <3>2. QED
      BY <2>1, <3>1, FirstNotIs DEF IsFirstNot
  <2> DEFINE size == Decimal(SubSeq(s, first, p - 1))
             value == IF first > w THEN -size ELSE size
  <2>3. ParseNumber(s, w) = IF p = w THEN NotParsed ELSE Parsed(p, value)
    BY <1>1 DEF ParseNumber
  <2> HIDE DEF first, p, value
  <2>4. p # w => p \in w + 1 .. Len(s) + 1
    BY <1>1, <2>1, <2>2
  <2>5. QED
    BY <2>3, <2>4, NewParsed DEF IsParsed
<1>5. IsParsed(s, w, ParseBool(s, w))
  <2>1. "end" \notin Booleans
    BY DEF Booleans
  <2>2. At(s, w) \in Booleans => w + 1 \in w + 1 .. Len(s) + 1
    BY <1>1, <2>1, SomethingAt
  <2>3. At(s, w) \in Booleans => IsParsed(s, w, Parsed(w + 1, At(s, w) = "true"))
    BY <2>2, NewParsed
  <2>4. QED
    BY <1>1, <2>3 DEF ParseBool, IsParsed
<1>6. IsParsed(s, w, ParseNull(s, w))
  <2>1. At(s, w) = "null" => w + 1 \in w + 1 .. Len(s) + 1
    BY <1>1, SomethingAt
  <2>2. At(s, w) = "null" => IsParsed(s, w, Parsed(w + 1, TRUE))
    BY <2>1, NewParsed
  <2>3. QED
    BY <1>1, <2>2 DEF ParseNull, IsParsed
<1>7. QED
  BY <1>2, <1>3, <1>4, <1>5, <1>6 DEF w

\* The first symbol tells what can be read.
LEMMA FirstSymbol ==
  ASSUME NEW s \in Texts, NEW w \in 0 .. Len(s) + 1, SkipWhitespace(s, w) = w
  PROVE  /\ At(s, w) # "quote" => ParseString(s, w) = NotParsed
         /\ At(s, w) \notin Booleans => ParseBool(s, w) = NotParsed
         /\ At(s, w) # "null" => ParseNull(s, w) = NotParsed
         /\ At(s, w) \notin {"minus"} \cup Digits => ParseNumber(s, w) = NotParsed
<1>1. At(s, w) # "quote" => ParseString(s, w) = NotParsed
  BY DEF ParseString, OpenString, After, Past
<1>2. At(s, w) \notin Booleans => ParseBool(s, w) = NotParsed
  BY DEF ParseBool
<1>3. At(s, w) # "null" => ParseNull(s, w) = NotParsed
  BY DEF ParseNull
<1>4. ASSUME At(s, w) \notin {"minus"} \cup Digits PROVE ParseNumber(s, w) = NotParsed
  <2>1. IsFirstNot(s, w, Digits, w) /\ "end" \notin Digits
    BY <1>4 DEF IsFirstNot, Digits, Texts
  <2>2. FirstNot(s, w, Digits) = w
    BY <2>1, FirstNotIsOne
  <2>3. QED
    BY <1>4, <2>2 DEF ParseNumber
<1>5. QED
  BY <1>1, <1>2, <1>3, <1>4

-----------------------------------------------------------------------------
(* The walk over the text, and the parser, as recursions.                  *)

\* Two walks that are the same behind a position.
SameBehind(s, f, g, pos) ==
    \A q \in pos + 1 .. Len(s) + 1 :
        f[q] = g[q] /\ \A part \in Parts : Ahead(s, q, f[q][part])

LEMMA AheadFurther ==
  ASSUME NEW s \in Texts, NEW pos \in 0 .. Len(s) + 1, NEW q \in pos .. Len(s) + 1, NEW next,
         Ahead(s, q, next)
  PROVE  Ahead(s, pos, next)
BY DEF Ahead, Texts

LEMMA SkipItemsStep ==
  ASSUME NEW s \in Texts, NEW pos \in Positions(s), NEW f, NEW g, SameBehind(s, f, g, pos),
         NEW first \in pos + 1 .. Len(s) + 1, NEW part \in Parts, NEW close, close # "end"
  PROVE  /\ SkipItems(s, f, first, part, close) = SkipItems(s, g, first, part, close)
         /\ Ahead(s, pos, SkipItems(s, f, first, part, close))
<1>1. f[first] = g[first] /\ Ahead(s, first, f[first][part])
  BY DEF SameBehind
<1>2. pos \in 0 .. Len(s) + 1 /\ first \in pos .. Len(s) + 1 /\ Len(s) \in Nat
  BY DEF Positions, Texts
<1>3. Ahead(s, pos, f[first][part])
  BY <1>1, <1>2, AheadFurther
<1>4. At(s, first) = close => first + 1 \in pos + 1 .. Len(s) + 1
  BY <1>2, SomethingAt
<1>5. QED
  BY <1>1, <1>3, <1>4 DEF SkipItems, Ahead

LEMMA SkipMoreStep ==
  ASSUME NEW s \in Texts, NEW pos \in Positions(s), NEW f, NEW g, SameBehind(s, f, g, pos),
         NEW next, Ahead(s, pos, next), NEW part \in Parts, NEW close, close # "end",
         close # "comma"
  PROVE  LET w == SkipWhitespace(s, next) IN
         /\ SkipMore(s, f, w, part, close) = SkipMore(s, g, w, part, close)
         /\ Ahead(s, pos, SkipMore(s, f, w, part, close))
<1> DEFINE w == SkipWhitespace(s, next)
<1>1. pos \in 1 .. Len(s) + 1 /\ next \in 0 .. Len(s) + 1 /\ Len(s) \in Nat
  BY DEF Positions, Texts, Ahead, Fail
<1>2. w \in next .. Len(s) + 1 /\ (next = Fail => w = Fail)
  BY <1>1, Solids
<1>3. Ahead(s, pos, w)
  BY <1>1, <1>2 DEF Ahead
<1> HIDE DEF w
<1>4. ASSUME At(s, w) # "end" PROVE w \in pos + 1 .. Len(s) /\ w + 1 \in pos + 1 .. Len(s) + 1
  <2>1. w \in 1 .. Len(s)
    BY <1>4, SomethingAt
  <2>2. QED
    BY <1>1, <1>3, <2>1 DEF Ahead, Fail
<1>5. CASE At(s, w) = close
  <2>1. \A h : SkipMore(s, h, w, part, close) = w + 1
    BY <1>5 DEF SkipMore
  <2>2. w + 1 \in pos + 1 .. Len(s) + 1
    BY <1>4, <1>5
  <2>3. QED
    BY <2>1, <2>2 DEF Ahead, w
<1>6. CASE At(s, w) = "comma"
  <2>1. w + 1 \in pos + 1 .. Len(s) + 1
    BY <1>4, <1>6
  <2>2. f[w + 1] = g[w + 1] /\ Ahead(s, w + 1, f[w + 1][part])
    BY <2>1 DEF SameBehind
  <2>3. Ahead(s, pos, f[w + 1][part])
    <3>1. pos \in 0 .. Len(s) + 1 /\ w + 1 \in pos .. Len(s) + 1
      BY <1>1, <2>1
    <3>2. QED
      BY <2>2, <3>1, AheadFurther
  <2>4. \A h : SkipMore(s, h, w, part, close) = h[w + 1][part]
    BY <1>6 DEF SkipMore
  <2>5. QED
    BY <2>2, <2>3, <2>4 DEF w
<1>7. CASE At(s, w) \notin {close, "comma"}
  <2>1. \A h : SkipMore(s, h, w, part, close) = Fail
    BY <1>7 DEF SkipMore
  <2>2. QED
    BY <2>1 DEF Ahead, w
<1>8. QED
  BY <1>5, <1>6, <1>7 DEF w

LEMMA SkipValueStep ==
  ASSUME NEW s \in Texts, NEW pos \in Positions(s), NEW f, NEW g, SameBehind(s, f, g, pos)
  PROVE  /\ SkipValueFrom(s, f, pos) = SkipValueFrom(s, g, pos)
         /\ Ahead(s, pos, SkipValueFrom(s, f, pos))
<1> DEFINE w == SkipWhitespace(s, pos)
<1>1. pos \in 0 .. Len(s) + 1 /\ Len(s) \in Nat /\ pos >= 1
  BY DEF Positions, Texts
<1>2. w \in pos .. Len(s) + 1 /\ w \in 0 .. Len(s) + 1 /\ SkipWhitespace(s, w) = w
  BY <1>1, Solids
<1>3. \A h : SkipValueFrom(s, h, pos) = SkipFrom(s, h, w)
  BY DEF SkipValueFrom
<1> HIDE DEF w
<1>4. SameBehind(s, f, g, w)
  BY <1>1, <1>2 DEF SameBehind
<1>5. SkipFrom(s, f, w) = SkipFrom(s, g, w) /\ Ahead(s, w, SkipFrom(s, f, w))
  <2>1. CASE At(s, w) \in {"lbrace", "lbracket"}
    <3> DEFINE first == SkipWhitespace(s, w + 1)
    <3>1. w + 1 \in 0 .. Len(s) + 1 /\ w \in Positions(s)
      <4>1. w \in 1 .. Len(s)
        BY <2>1, SomethingAt
      <4>2. QED
        BY <1>1, <4>1 DEF Positions
    <3>2. first \in w + 1 .. Len(s) + 1
      BY <3>1, Solids
    <3> HIDE DEF first
    <3>3. /\ SkipItems(s, f, first, "members", "rbrace") = SkipItems(s, g, first, "members", "rbrace")
          /\ Ahead(s, w, SkipItems(s, f, first, "members", "rbrace"))
      BY <1>4, <3>1, <3>2, SkipItemsStep DEF Parts
    <3>4. /\ SkipItems(s, f, first, "elements", "rbracket") = SkipItems(s, g, first, "elements", "rbracket")
          /\ Ahead(s, w, SkipItems(s, f, first, "elements", "rbracket"))
      BY <1>4, <3>1, <3>2, SkipItemsStep DEF Parts
    <3>5. CASE At(s, w) = "lbrace"
      <4>1. \A h : SkipFrom(s, h, w) = SkipItems(s, h, first, "members", "rbrace")
        BY <3>5 DEF SkipFrom, first, Booleans
      <4>2. QED
        BY <3>3, <4>1
    <3>6. CASE At(s, w) = "lbracket"
      <4>1. \A h : SkipFrom(s, h, w) = SkipItems(s, h, first, "elements", "rbracket")
        BY <3>6 DEF SkipFrom, first, Booleans
      <4>2. QED
        BY <3>4, <4>1
    <3>7. QED
      BY <2>1, <3>5, <3>6
  <2>2. CASE At(s, w) \notin {"lbrace", "lbracket"}
    <3>1. /\ Ahead(s, w, ParseString(s, w).next) /\ Ahead(s, w, ParseNumber(s, w).next)
          /\ Ahead(s, w, ParseBool(s, w).next) /\ Ahead(s, w, ParseNull(s, w).next)
      BY <1>2, ScalarsAhead, ParsedAhead
    <3>2. \A h : SkipFrom(s, h, w) =
            CASE At(s, w) = "end"   -> Fail
              [] At(s, w) = "quote" -> ParseString(s, w).next
              [] At(s, w) \in Booleans      -> ParseBool(s, w).next
              [] At(s, w) \in {"null", "n"} -> ParseNull(s, w).next
              [] OTHER                -> ParseNumber(s, w).next
      BY <2>2 DEF SkipFrom, Booleans
    <3>3. SkipFrom(s, f, w) \in {Fail, ParseString(s, w).next, ParseBool(s, w).next,
                                 ParseNull(s, w).next, ParseNumber(s, w).next}
      BY <3>2 DEF Booleans
    <3>4. SkipFrom(s, f, w) = SkipFrom(s, g, w)
      BY <3>2, Zenon
    <3>5. QED
      BY <3>1, <3>3, <3>4 DEF Ahead
  <2>3. QED
    BY <2>1, <2>2
<1>6. QED
  BY <1>1, <1>2, <1>3, <1>5, AheadFurther

LEMMA SkipStep ==
  ASSUME NEW s \in Texts, NEW pos \in Positions(s), NEW f, NEW g, SameBehind(s, f, g, pos),
         NEW part \in Parts
  PROVE  /\ SkipPartFrom(s, f, pos, part) = SkipPartFrom(s, g, pos, part)
         /\ Ahead(s, pos, SkipPartFrom(s, f, pos, part))
<1>1. CASE part = "value"
  <2>1. \A h : SkipPartFrom(s, h, pos, part) = SkipValueFrom(s, h, pos)
    BY <1>1 DEF SkipPartFrom
  <2>2. QED
    BY <2>1, SkipValueStep
<1>2. CASE part = "members"
  <2> DEFINE name == ParseString(s, pos)
             colon == After(s, name.next, "colon")
  <2>1. pos \in 0 .. Len(s) + 1 /\ Len(s) \in Nat /\ pos >= 1
    BY DEF Positions, Texts
  <2>2. Ahead(s, pos, name.next)
    <3>1. IsParsed(s, SkipWhitespace(s, pos), name) /\ SkipWhitespace(s, pos) \in pos .. Len(s) + 1
      BY <2>1, ScalarsAhead, Solids
    <3>2. QED
      BY <2>1, <3>1, ParsedAhead, AheadFurther
  <2>3. Ahead(s, pos, colon)
    <3> HIDE DEF name
    <3>1. name.next \in 0 .. Len(s) + 1
      BY <2>1, <2>2 DEF Ahead, Fail
    <3>2. Ahead(s, name.next, colon) /\ (name.next = Fail => colon = Fail)
      BY <3>1, AfterIs
    <3>3. QED
      BY <2>1, <2>2, <3>2 DEF Ahead, Fail
  <2> HIDE DEF colon
  <2>4. SkipPart(f, colon, "value") = SkipPart(g, colon, "value") /\ Ahead(s, pos, SkipPart(f, colon, "value"))
    <3>1. CASE colon = Fail
      BY <3>1 DEF SkipPart, Ahead
    <3>2. CASE colon # Fail
      <4>1. colon \in pos + 1 .. Len(s) + 1 /\ colon \in pos .. Len(s) + 1
        BY <2>1, <2>3, <3>2 DEF Ahead
      <4>2. f[colon] = g[colon] /\ Ahead(s, colon, f[colon]["value"])
        BY <4>1 DEF SameBehind, Parts
      <4>3. QED
        BY <2>1, <3>2, <4>1, <4>2, AheadFurther DEF SkipPart
    <3>3. QED
      BY <3>1, <3>2
  <2> DEFINE next == SkipPart(f, colon, "value")
             w == SkipWhitespace(s, next)
  <2>5. /\ SkipMore(s, f, w, "members", "rbrace") = SkipMore(s, g, w, "members", "rbrace")
        /\ Ahead(s, pos, SkipMore(s, f, w, "members", "rbrace"))
    BY <2>4, SkipMoreStep DEF Parts
  <2>6. \A h : SkipPartFrom(s, h, pos, part) = SkipMembersFrom(s, h, pos)
    BY <1>2 DEF SkipPartFrom
  <2>7. /\ SkipMembersFrom(s, f, pos) = SkipMore(s, f, w, "members", "rbrace")
        /\ SkipMembersFrom(s, g, pos) = SkipMore(s, g, w, "members", "rbrace")
    BY <2>4 DEF SkipMembersFrom, colon
  <2>8. QED
    BY <2>5, <2>6, <2>7
<1>3. CASE part = "elements"
  <2> DEFINE next == SkipValueFrom(s, f, pos)
             w == SkipWhitespace(s, next)
  <2>1. next = SkipValueFrom(s, g, pos) /\ Ahead(s, pos, next)
    BY SkipValueStep
  <2>2. /\ SkipMore(s, f, w, "elements", "rbracket") = SkipMore(s, g, w, "elements", "rbracket")
        /\ Ahead(s, pos, SkipMore(s, f, w, "elements", "rbracket"))
    BY <2>1, SkipMoreStep DEF Parts
  <2>3. \A h : SkipPartFrom(s, h, pos, part) = SkipElementsFrom(s, h, pos)
    BY <1>3 DEF SkipPartFrom
  <2>4. /\ SkipElementsFrom(s, f, pos) = SkipMore(s, f, w, "elements", "rbracket")
        /\ SkipElementsFrom(s, g, pos) = SkipMore(s, g, w, "elements", "rbracket")
    BY <2>1 DEF SkipElementsFrom
  <2>5. QED
    BY <2>2, <2>3, <2>4
<1>4. QED
  BY <1>1, <1>2, <1>3 DEF Parts

LEMMA SkipIs ==
  ASSUME NEW s \in Texts
  PROVE  /\ Skip(s) = [pos \in Positions(s) |-> [part \in Parts |-> SkipPartFrom(s, Skip(s), pos, part)]]
         /\ \A pos \in Positions(s) : \A part \in Parts : Ahead(s, pos, Skip(s)[pos][part])
<1> DEFINE n == Len(s) + 1
           All(f, pos) == [part \in Parts |-> SkipPartFrom(s, f, pos, part)]
           From(f, m) == \A pos \in m .. n :
                            f[pos] = All(f, pos) /\ \A part \in Parts : Ahead(s, pos, f[pos][part])
           T == {m \in 1 .. n + 1 : \E f : f = [pos \in 1 .. n |-> f[pos]] /\ From(f, m)}
<1>1. n \in Nat /\ Positions(s) = 1 .. n /\ n >= 1
  BY DEF Texts, Positions
<1>2. n + 1 \in T
  <2>1. From([pos \in 1 .. n |-> 0], n + 1)
    BY <1>1
  <2>2. n + 1 \in 1 .. n + 1 /\ [pos \in 1 .. n |-> 0] = [pos \in 1 .. n |-> [p \in 1 .. n |-> 0][pos]]
    BY <1>1
  <2> HIDE DEF From
  <2>3. QED
    BY <2>1, <2>2
<1>3. ASSUME NEW m \in T, m # 1 PROVE m - 1 \in T
  <2>1. m \in 1 .. n + 1 /\ m - 1 \in 1 .. n + 1
    BY <1>1, <1>3
  <2>2. PICK f : From(f, m)
    OBVIOUS
  <2> DEFINE g == [pos \in 1 .. n |-> All(f, pos)]
  <2>3. \A pos \in m .. n : g[pos] = f[pos]
    BY <1>1, <2>1, <2>2
  <2>4. \A pos \in m - 1 .. n : g[pos] = All(f, pos)
    BY <1>1, <2>1
  <2>5. g = [pos \in 1 .. n |-> g[pos]]
    OBVIOUS
  <2> HIDE DEF g
  <2>6. ASSUME NEW pos \in m - 1 .. n
        PROVE  All(f, pos) = All(g, pos) /\ \A part \in Parts : Ahead(s, pos, All(f, pos)[part])
    <3>1. pos \in Positions(s) /\ \A q \in pos + 1 .. n : q \in m .. n
      BY <1>1, <2>1
    <3>2. SameBehind(s, f, g, pos)
      BY <2>2, <2>3, <3>1 DEF SameBehind
    <3>3. \A part \in Parts : /\ SkipPartFrom(s, f, pos, part) = SkipPartFrom(s, g, pos, part)
                              /\ Ahead(s, pos, SkipPartFrom(s, f, pos, part))
      BY <3>1, <3>2, SkipStep
    <3>4. QED
      BY <3>3
  <2> HIDE DEF All
  <2>7. From(g, m - 1)
    BY <2>4, <2>6
  <2> HIDE DEF From
  <2>8. QED
    BY <2>1, <2>5, <2>7
<1>4. 1 \in T
  <2>1. T \in SUBSET Nat /\ T # {}
    BY <1>1, <1>2
  <2>2. PICK m \in T : \A k \in T : m <= k
    BY <2>1, LeastOf
  <2>3. m \in Nat
    BY <2>1
  <2> HIDE DEF T
  <2>4. ~(m <= m - 1)
    BY <2>3
  <2>5. QED
    BY <1>3, <2>2, <2>4
<1>5. PICK f : f = [pos \in 1 .. n |-> f[pos]] /\ From(f, 1)
  BY <1>4
<1>6. f = [pos \in Positions(s) |-> All(f, pos)]
  BY <1>1, <1>5
<1> HIDE DEF From, T
<1>7. Skip(s) = [pos \in Positions(s) |-> All(Skip(s), pos)]
  BY <1>6 DEF Skip
<1>8. 1 .. n \subseteq {pos \in 1 .. n : \A part \in Parts : Ahead(s, pos, Skip(s)[pos][part])}
  <2> DEFINE P == {pos \in 1 .. n : \A part \in Parts : Ahead(s, pos, Skip(s)[pos][part])}
  <2>1. ASSUME NEW pos \in 1 .. n, \A q \in pos + 1 .. n : q \in P
        PROVE  pos \in P
    <3>1. SameBehind(s, Skip(s), Skip(s), pos)
      BY <2>1 DEF SameBehind
    <3>2. \A part \in Parts : Ahead(s, pos, SkipPartFrom(s, Skip(s), pos, part))
      BY <1>1, <3>1, SkipStep
    <3>3. Skip(s)[pos] = All(Skip(s), pos)
      BY <1>1, <1>7
    <3>4. QED
      BY <3>2, <3>3
  <2> HIDE DEF P
  <2>2. 1 .. n \subseteq P
    BY <1>1, <2>1, Backwards
  <2>3. QED
    BY <2>2 DEF P
<1>9. QED
  BY <1>1, <1>7, <1>8

SameRead(s, f, g, pos) ==
    \A q \in pos + 1 .. Len(s) + 1 :
        f[q] = g[q] /\ \A part \in Parts : IsParsed(s, q, f[q][part])

LEMMA ReadItemsStep ==
  ASSUME NEW s \in Texts, NEW pos \in Positions(s), NEW f, NEW g, SameRead(s, f, g, pos),
         NEW first \in pos + 1 .. Len(s) + 1
  PROVE  /\ ParseObjectNode(s, f, first) = ParseObjectNode(s, g, first)
         /\ IsParsed(s, pos, ParseObjectNode(s, f, first))
         /\ ParseArrayNode(s, f, first) = ParseArrayNode(s, g, first)
         /\ IsParsed(s, pos, ParseArrayNode(s, f, first))
<1>1. pos \in 0 .. Len(s) + 1 /\ first \in pos .. Len(s) + 1 /\ Len(s) \in Nat
  BY DEF Positions, Texts
<1>2. f[first] = g[first] /\ \A part \in Parts : IsParsed(s, pos, f[first][part])
  BY <1>1, ParsedFurther DEF SameRead
<1>3. \A node : /\ IsParsed(s, pos, Made(f[first]["members"], node))
                /\ IsParsed(s, pos, Made(f[first]["elements"], node))
  BY <1>2, MadeIs DEF Parts
<1>4. At(s, first) # "end" => first + 1 \in pos + 1 .. Len(s) + 1
  <2>1. At(s, first) # "end" => first \in 1 .. Len(s)
    BY SomethingAt
  <2>2. QED
    BY <1>1, <2>1
<1>5. At(s, first) # "end" => \A node : IsParsed(s, pos, Parsed(first + 1, node))
  BY <1>4, NewParsed
<1>6. QED
  BY <1>2, <1>3, <1>5 DEF ParseObjectNode, ParseArrayNode

LEMMA MoreStep ==
  ASSUME NEW s \in Texts, NEW pos \in Positions(s), NEW f, NEW g, SameRead(s, f, g, pos),
         NEW next, Ahead(s, pos, next), NEW part \in Parts, NEW close, close # "end",
         close # "comma"
  PROVE  /\ More(s, f, SkipWhitespace(s, next), part, close)
              = More(s, g, SkipWhitespace(s, next), part, close)
         /\ IsParsed(s, pos, More(s, f, SkipWhitespace(s, next), part, close))
<1> DEFINE w == SkipWhitespace(s, next)
<1>1. pos \in 1 .. Len(s) + 1 /\ next \in 0 .. Len(s) + 1 /\ Len(s) \in Nat
  BY DEF Positions, Texts, Ahead, Fail
<1>2. w \in next .. Len(s) + 1 /\ (next = Fail => w = Fail)
  BY <1>1, Solids
<1>3. Ahead(s, pos, w)
  BY <1>1, <1>2 DEF Ahead
<1> HIDE DEF w
<1>4. ASSUME At(s, w) # "end" PROVE w + 1 \in pos + 1 .. Len(s) + 1
  <2>1. w \in 1 .. Len(s)
    BY <1>4, SomethingAt
  <2>2. QED
    BY <1>1, <1>3, <2>1 DEF Ahead, Fail
<1>5. CASE At(s, w) = close
  <2>1. \A h : More(s, h, w, part, close) = Parsed(w + 1, <<>>)
    BY <1>5 DEF More
  <2>2. IsParsed(s, pos, Parsed(w + 1, <<>>))
    BY <1>4, <1>5, NewParsed
  <2>3. QED
    BY <2>1, <2>2 DEF w
<1>6. CASE At(s, w) = "comma"
  <2>1. w + 1 \in pos + 1 .. Len(s) + 1
    BY <1>4, <1>6
  <2>2. f[w + 1] = g[w + 1] /\ IsParsed(s, w + 1, f[w + 1][part])
    BY <2>1 DEF SameRead
  <2>3. IsParsed(s, pos, f[w + 1][part])
    <3>1. pos \in 0 .. Len(s) + 1 /\ w + 1 \in pos .. Len(s) + 1
      BY <1>1, <2>1
    <3>2. QED
      BY <2>2, <3>1, ParsedFurther
  <2>4. \A h : More(s, h, w, part, close) = h[w + 1][part]
    BY <1>6 DEF More
  <2>5. QED
    BY <2>2, <2>3, <2>4 DEF w
<1>7. CASE At(s, w) \notin {close, "comma"}
  <2>1. \A h : More(s, h, w, part, close) = NotParsed
    BY <1>7 DEF More
  <2>2. QED
    BY <2>1 DEF IsParsed, w
<1>8. QED
  BY <1>5, <1>6, <1>7 DEF w

LEMMA ReadValueStep ==
  ASSUME NEW s \in Texts, NEW pos \in Positions(s), NEW f, NEW g, SameRead(s, f, g, pos)
  PROVE  /\ ValueFrom(s, f, pos) = ValueFrom(s, g, pos)
         /\ IsParsed(s, pos, ValueFrom(s, f, pos))
<1> DEFINE w == SkipWhitespace(s, pos)
<1>1. pos \in 0 .. Len(s) + 1 /\ Len(s) \in Nat /\ pos >= 1
  BY DEF Positions, Texts
<1>2. w \in pos .. Len(s) + 1 /\ w \in 0 .. Len(s) + 1 /\ SkipWhitespace(s, w) = w
  BY <1>1, Solids
<1>3. \A h : ValueFrom(s, h, pos) = NodeFrom(s, h, w)
  BY DEF ValueFrom
<1> HIDE DEF w
<1>4. SameRead(s, f, g, w)
  BY <1>1, <1>2 DEF SameRead
<1>5. NodeFrom(s, f, w) = NodeFrom(s, g, w) /\ IsParsed(s, w, NodeFrom(s, f, w))
  <2>1. CASE At(s, w) \in {"lbrace", "lbracket"}
    <3> DEFINE first == SkipWhitespace(s, w + 1)
    <3>1. w + 1 \in 0 .. Len(s) + 1 /\ w \in Positions(s)
      <4>1. w \in 1 .. Len(s)
        BY <2>1, SomethingAt
      <4>2. QED
        BY <1>1, <4>1 DEF Positions
    <3>2. first \in w + 1 .. Len(s) + 1
      BY <3>1, Solids
    <3> HIDE DEF first
    <3>3. /\ ParseObjectNode(s, f, first) = ParseObjectNode(s, g, first)
          /\ IsParsed(s, w, ParseObjectNode(s, f, first))
          /\ ParseArrayNode(s, f, first) = ParseArrayNode(s, g, first)
          /\ IsParsed(s, w, ParseArrayNode(s, f, first))
      BY <1>4, <3>1, <3>2, ReadItemsStep
    <3>4. CASE At(s, w) = "lbrace"
      <4>1. \A h : NodeFrom(s, h, w) = ParseObjectNode(s, h, first)
        BY <3>4 DEF NodeFrom, first, Booleans
      <4>2. QED
        BY <3>3, <4>1
    <3>5. CASE At(s, w) = "lbracket"
      <4>1. \A h : NodeFrom(s, h, w) = ParseArrayNode(s, h, first)
        BY <3>5 DEF NodeFrom, first, Booleans
      <4>2. QED
        BY <3>3, <4>1
    <3>6. QED
      BY <2>1, <3>4, <3>5
  <2>2. CASE At(s, w) \notin {"lbrace", "lbracket"}
    <3> DEFINE string == Made(ParseString(s, w), MakeString(ParseString(s, w).value))
               bool   == Made(ParseBool(s, w), MakeBoolean(ParseBool(s, w).value))
               null   == Made(ParseNull(s, w), MakeNull)
               number == Made(ParseNumber(s, w), MakeNumber(ParseNumber(s, w).value))
    <3>1. /\ IsParsed(s, w, ParseString(s, w)) /\ IsParsed(s, w, ParseNumber(s, w))
          /\ IsParsed(s, w, ParseBool(s, w)) /\ IsParsed(s, w, ParseNull(s, w))
      BY <1>2, ScalarsAhead
    <3>2. /\ IsParsed(s, w, string) /\ IsParsed(s, w, number)
          /\ IsParsed(s, w, bool) /\ IsParsed(s, w, null)
      BY <3>1, MadeIs
    <3>3. \A h : NodeFrom(s, h, w) =
            CASE At(s, w) = "end"   -> NotParsed
              [] At(s, w) = "quote" -> string
              [] At(s, w) \in Booleans      -> bool
              [] At(s, w) \in {"null", "n"} -> null
              [] OTHER                -> number
      BY <2>2 DEF NodeFrom, Booleans
    <3> HIDE DEF string, bool, null, number
    <3>4. NodeFrom(s, f, w) \in {NotParsed, string, bool, null, number}
      BY <3>3 DEF Booleans
    <3>5. NodeFrom(s, f, w) = NodeFrom(s, g, w)
      BY <3>3, Zenon
    <3>6. IsParsed(s, w, NotParsed)
      BY DEF IsParsed
    <3>7. QED
      BY <3>2, <3>4, <3>5, <3>6
  <2>3. QED
    BY <2>1, <2>2
<1>6. QED
  BY <1>1, <1>2, <1>3, <1>5, ParsedFurther

\* The colon behind a name.
LEMMA ColonIs ==
  ASSUME NEW s \in Texts, NEW pos \in Positions(s)
  PROVE  Ahead(s, pos, After(s, ParseString(s, pos).next, "colon"))
<1> DEFINE name == ParseString(s, pos)
           colon == After(s, name.next, "colon")
<1>1. pos \in 0 .. Len(s) + 1 /\ Len(s) \in Nat /\ pos >= 1
  BY DEF Positions, Texts
<1>2. Ahead(s, pos, name.next)
  <2>1. IsParsed(s, SkipWhitespace(s, pos), name) /\ SkipWhitespace(s, pos) \in pos .. Len(s) + 1
    BY <1>1, ScalarsAhead, Solids
  <2>2. QED
    BY <1>1, <2>1, ParsedAhead, AheadFurther
<1> HIDE DEF name
<1>3. name.next \in 0 .. Len(s) + 1
  BY <1>1, <1>2 DEF Ahead, Fail
<1>4. Ahead(s, name.next, colon) /\ (name.next = Fail => colon = Fail)
  BY <1>3, AfterIs
<1>5. Ahead(s, pos, colon)
  BY <1>1, <1>2, <1>4 DEF Ahead, Fail
<1>6. QED
  BY <1>5 DEF name

LEMMA ReadMembersStep ==
  ASSUME NEW s \in Texts, NEW pos \in Positions(s), NEW f, NEW g, SameRead(s, f, g, pos)
  PROVE  /\ MembersFrom(s, f, pos) = MembersFrom(s, g, pos)
         /\ IsParsed(s, pos, MembersFrom(s, f, pos))
<1> DEFINE name == ParseString(s, pos)
           colon == After(s, name.next, "colon")
           value == ReadPart(f, colon, "value")
           more(h) == More(s, h, SkipWhitespace(s, value.next), "members", "rbrace")
<1>1. pos \in 0 .. Len(s) + 1 /\ Len(s) \in Nat /\ pos >= 1
  BY DEF Positions, Texts
<1>2. Ahead(s, pos, colon)
  BY ColonIs
<1>3. value = ReadPart(g, colon, "value") /\ IsParsed(s, pos, value)
  <2> HIDE DEF colon
  <2>1. CASE colon = Fail
    BY <2>1 DEF ReadPart, IsParsed
  <2>2. CASE colon # Fail
    <3>1. colon \in pos + 1 .. Len(s) + 1 /\ colon \in pos .. Len(s) + 1
      BY <1>1, <1>2, <2>2 DEF Ahead
    <3>2. f[colon] = g[colon] /\ IsParsed(s, colon, f[colon]["value"])
      BY <3>1 DEF SameRead, Parts
    <3>3. QED
      BY <1>1, <2>2, <3>1, <3>2, ParsedFurther DEF ReadPart
  <2>3. QED
    BY <2>1, <2>2
<1>4. \A h : value = ReadPart(h, colon, "value")
               => MembersFrom(s, h, pos) = Joined(<<name.value, value.value>>, more(h))
  BY DEF MembersFrom, MemberFrom, WithMember
<1> HIDE DEF name, colon, value
<1>5. Ahead(s, pos, value.next)
  BY <1>3, ParsedAhead
<1>6. more(f) = more(g) /\ IsParsed(s, pos, more(f))
  BY <1>5, MoreStep DEF Parts
<1> HIDE DEF more
<1>7. value = ReadPart(f, colon, "value")
  BY DEF value
<1>8. MembersFrom(s, f, pos) = Joined(<<name.value, value.value>>, more(f))
  BY <1>4, <1>7
<1>9. MembersFrom(s, g, pos) = Joined(<<name.value, value.value>>, more(f))
  BY <1>3, <1>4, <1>6
<1>10. QED
  BY <1>6, <1>8, <1>9, JoinedIs

LEMMA ReadElementsStep ==
  ASSUME NEW s \in Texts, NEW pos \in Positions(s), NEW f, NEW g, SameRead(s, f, g, pos)
  PROVE  /\ ElementsFrom(s, f, pos) = ElementsFrom(s, g, pos)
         /\ IsParsed(s, pos, ElementsFrom(s, f, pos))
<1> DEFINE value == ValueFrom(s, f, pos)
           more(h) == More(s, h, SkipWhitespace(s, value.next), "elements", "rbracket")
<1>1. value = ValueFrom(s, g, pos) /\ IsParsed(s, pos, value)
  BY ReadValueStep
<1>2. /\ ElementsFrom(s, f, pos) = Joined(value.value, more(f))
      /\ ElementsFrom(s, g, pos) = Joined(value.value, more(g))
  BY <1>1 DEF ElementsFrom, WithElement
<1> HIDE DEF value
<1>3. Ahead(s, pos, value.next)
  BY <1>1, ParsedAhead
<1>4. more(f) = more(g) /\ IsParsed(s, pos, more(f))
  BY <1>3, MoreStep DEF Parts
<1> HIDE DEF more
<1>5. QED
  BY <1>2, <1>4, JoinedIs

LEMMA ReadStep ==
  ASSUME NEW s \in Texts, NEW pos \in Positions(s), NEW f, NEW g, SameRead(s, f, g, pos),
         NEW part \in Parts
  PROVE  /\ PartFrom(s, f, pos, part) = PartFrom(s, g, pos, part)
         /\ IsParsed(s, pos, PartFrom(s, f, pos, part))
<1>1. CASE part = "value"
  <2>1. \A h : PartFrom(s, h, pos, part) = ValueFrom(s, h, pos)
    BY <1>1 DEF PartFrom
  <2>2. QED
    BY <2>1, ReadValueStep
<1>2. CASE part = "members"
  <2>1. \A h : PartFrom(s, h, pos, part) = MembersFrom(s, h, pos)
    BY <1>2 DEF PartFrom
  <2>2. QED
    BY <2>1, ReadMembersStep
<1>3. CASE part = "elements"
  <2>1. \A h : PartFrom(s, h, pos, part) = ElementsFrom(s, h, pos)
    BY <1>3 DEF PartFrom
  <2>2. QED
    BY <2>1, ReadElementsStep
<1>4. QED
  BY <1>1, <1>2, <1>3 DEF Parts

LEMMA ReadIs ==
  ASSUME NEW s \in Texts
  PROVE  /\ Read(s) = [pos \in Positions(s) |-> [part \in Parts |-> PartFrom(s, Read(s), pos, part)]]
         /\ \A pos \in Positions(s) : \A part \in Parts : IsParsed(s, pos, Read(s)[pos][part])
<1> DEFINE n == Len(s) + 1
           All(f, pos) == [part \in Parts |-> PartFrom(s, f, pos, part)]
           From(f, m) == \A pos \in m .. n :
                            f[pos] = All(f, pos) /\ \A part \in Parts : IsParsed(s, pos, f[pos][part])
           T == {m \in 1 .. n + 1 : \E f : f = [pos \in 1 .. n |-> f[pos]] /\ From(f, m)}
<1>1. n \in Nat /\ Positions(s) = 1 .. n /\ n >= 1
  BY DEF Texts, Positions
<1>2. n + 1 \in T
  <2>1. From([pos \in 1 .. n |-> 0], n + 1)
    BY <1>1
  <2>2. n + 1 \in 1 .. n + 1 /\ [pos \in 1 .. n |-> 0] = [pos \in 1 .. n |-> [p \in 1 .. n |-> 0][pos]]
    BY <1>1
  <2> HIDE DEF From
  <2>3. QED
    BY <2>1, <2>2
<1>3. ASSUME NEW m \in T, m # 1 PROVE m - 1 \in T
  <2>1. m \in 1 .. n + 1 /\ m - 1 \in 1 .. n + 1
    BY <1>1, <1>3
  <2>2. PICK f : From(f, m)
    OBVIOUS
  <2> DEFINE g == [pos \in 1 .. n |-> All(f, pos)]
  <2>3. \A pos \in m .. n : g[pos] = f[pos]
    BY <1>1, <2>1, <2>2
  <2>4. \A pos \in m - 1 .. n : g[pos] = All(f, pos)
    BY <1>1, <2>1
  <2>5. g = [pos \in 1 .. n |-> g[pos]]
    OBVIOUS
  <2> HIDE DEF g
  <2>6. ASSUME NEW pos \in m - 1 .. n
        PROVE  All(f, pos) = All(g, pos) /\ \A part \in Parts : IsParsed(s, pos, All(f, pos)[part])
    <3>1. pos \in Positions(s) /\ \A q \in pos + 1 .. n : q \in m .. n
      BY <1>1, <2>1
    <3>2. SameRead(s, f, g, pos)
      BY <2>2, <2>3, <3>1 DEF SameRead
    <3>3. \A part \in Parts : /\ PartFrom(s, f, pos, part) = PartFrom(s, g, pos, part)
                              /\ IsParsed(s, pos, PartFrom(s, f, pos, part))
      BY <3>1, <3>2, ReadStep
    <3>4. QED
      BY <3>3
  <2> HIDE DEF All
  <2>7. From(g, m - 1)
    BY <2>4, <2>6
  <2> HIDE DEF From
  <2>8. QED
    BY <2>1, <2>5, <2>7
<1>4. 1 \in T
  <2>1. T \in SUBSET Nat /\ T # {}
    BY <1>1, <1>2
  <2>2. PICK m \in T : \A k \in T : m <= k
    BY <2>1, LeastOf
  <2>3. m \in Nat
    BY <2>1
  <2> HIDE DEF T
  <2>4. ~(m <= m - 1)
    BY <2>3
  <2>5. QED
    BY <1>3, <2>2, <2>4
<1>5. PICK f : f = [pos \in 1 .. n |-> f[pos]] /\ From(f, 1)
  BY <1>4
<1>6. f = [pos \in Positions(s) |-> All(f, pos)]
  BY <1>1, <1>5
<1> HIDE DEF From, T
<1>7. Read(s) = [pos \in Positions(s) |-> All(Read(s), pos)]
  BY <1>6 DEF Read
<1>8. 1 .. n \subseteq {pos \in 1 .. n : \A part \in Parts : IsParsed(s, pos, Read(s)[pos][part])}
  <2> DEFINE P == {pos \in 1 .. n : \A part \in Parts : IsParsed(s, pos, Read(s)[pos][part])}
  <2>1. ASSUME NEW pos \in 1 .. n, \A q \in pos + 1 .. n : q \in P
        PROVE  pos \in P
    <3>1. SameRead(s, Read(s), Read(s), pos)
      BY <2>1 DEF SameRead
    <3>2. \A part \in Parts : IsParsed(s, pos, PartFrom(s, Read(s), pos, part))
      BY <1>1, <3>1, ReadStep
    <3>3. Read(s)[pos] = All(Read(s), pos)
      BY <1>1, <1>7
    <3>4. QED
      BY <3>2, <3>3
  <2> HIDE DEF P
  <2>2. 1 .. n \subseteq P
    BY <1>1, <2>1, Backwards
  <2>3. QED
    BY <2>2 DEF P
<1>9. QED
  BY <1>1, <1>7, <1>8

-----------------------------------------------------------------------------
(* The walk ends where the parser ends.                                    *)

LEMMA Nexts ==
  ASSUME NEW r, NEW x
  PROVE  /\ Joined(x, r).next = r.next /\ Made(r, x).next = r.next
         /\ Parsed(r, x).next = r /\ NotParsed.next = Fail
         /\ Parsed(r, x).value = x
BY DEF Joined, Made, Parsed, NotParsed

\* A walk k that ends where the parser f ends, behind a position.
SameEnds(s, k, f, pos) ==
    \A q \in pos + 1 .. Len(s) + 1 : \A part \in Parts : k[q][part] = f[q][part].next

LEMMA ItemsEnd ==
  ASSUME NEW s \in Texts, NEW pos \in Positions(s), NEW k, NEW f, SameEnds(s, k, f, pos),
         NEW first \in pos + 1 .. Len(s) + 1
  PROVE  /\ SkipItems(s, k, first, "members", "rbrace") = ParseObjectNode(s, f, first).next
         /\ SkipItems(s, k, first, "elements", "rbracket") = ParseArrayNode(s, f, first).next
<1>1. k[first]["members"] = f[first]["members"].next /\ k[first]["elements"] = f[first]["elements"].next
  BY DEF SameEnds, Parts
<1>2. SkipItems(s, k, first, "members", "rbrace") = ParseObjectNode(s, f, first).next
  <2>1. CASE At(s, first) = "rbrace"
    BY <2>1, Nexts DEF SkipItems, ParseObjectNode
  <2>2. CASE At(s, first) # "rbrace"
    BY <1>1, <2>2, Nexts DEF SkipItems, ParseObjectNode
  <2>3. QED
    BY <2>1, <2>2
<1>3. SkipItems(s, k, first, "elements", "rbracket") = ParseArrayNode(s, f, first).next
  <2>1. CASE At(s, first) = "rbracket"
    BY <2>1, Nexts DEF SkipItems, ParseArrayNode
  <2>2. CASE At(s, first) # "rbracket"
    BY <1>1, <2>2, Nexts DEF SkipItems, ParseArrayNode
  <2>3. QED
    BY <2>1, <2>2
<1>4. QED
  BY <1>2, <1>3

LEMMA MoreEnds ==
  ASSUME NEW s \in Texts, NEW pos \in Positions(s), NEW k, NEW f, SameEnds(s, k, f, pos),
         NEW next, Ahead(s, pos, next), NEW part \in Parts, NEW close, close # "end",
         close # "comma"
  PROVE  SkipMore(s, k, SkipWhitespace(s, next), part, close)
            = More(s, f, SkipWhitespace(s, next), part, close).next
<1> DEFINE w == SkipWhitespace(s, next)
<1>1. pos \in 1 .. Len(s) + 1 /\ next \in 0 .. Len(s) + 1 /\ Len(s) \in Nat
  BY DEF Positions, Texts, Ahead, Fail
<1>2. w \in next .. Len(s) + 1 /\ (next = Fail => w = Fail)
  BY <1>1, Solids
<1>3. Ahead(s, pos, w)
  BY <1>1, <1>2 DEF Ahead
<1> HIDE DEF w
<1>4. ASSUME At(s, w) # "end" PROVE w + 1 \in pos + 1 .. Len(s) + 1
  <2>1. w \in 1 .. Len(s)
    BY <1>4, SomethingAt
  <2>2. QED
    BY <1>1, <1>3, <2>1 DEF Ahead, Fail
<1>5. CASE At(s, w) = close
  <2>1. More(s, f, w, part, close) = Parsed(w + 1, <<>>) /\ SkipMore(s, k, w, part, close) = w + 1
    BY <1>5 DEF More, SkipMore
  <2>2. QED
    BY <2>1, Nexts DEF w
<1>6. CASE At(s, w) = "comma"
  <2>1. k[w + 1][part] = f[w + 1][part].next
    BY <1>4, <1>6 DEF SameEnds
  <2>2. /\ More(s, f, w, part, close) = f[w + 1][part]
        /\ SkipMore(s, k, w, part, close) = k[w + 1][part]
    BY <1>6 DEF More, SkipMore
  <2>3. QED
    BY <2>1, <2>2 DEF w
<1>7. CASE At(s, w) \notin {close, "comma"}
  <2>1. More(s, f, w, part, close) = NotParsed /\ SkipMore(s, k, w, part, close) = Fail
    BY <1>7 DEF More, SkipMore
  <2>2. QED
    BY <2>1, Nexts DEF w
<1>8. QED
  BY <1>5, <1>6, <1>7 DEF w

LEMMA ValueEnds ==
  ASSUME NEW s \in Texts, NEW pos \in Positions(s), NEW k, NEW f, SameEnds(s, k, f, pos)
  PROVE  SkipValueFrom(s, k, pos) = ValueFrom(s, f, pos).next
<1> DEFINE w == SkipWhitespace(s, pos)
<1>1. pos \in 0 .. Len(s) + 1 /\ Len(s) \in Nat /\ pos >= 1
  BY DEF Positions, Texts
<1>2. w \in pos .. Len(s) + 1 /\ w \in 0 .. Len(s) + 1
  BY <1>1, Solids
<1>3. SkipValueFrom(s, k, pos) = SkipFrom(s, k, w) /\ ValueFrom(s, f, pos) = NodeFrom(s, f, w)
  BY DEF SkipValueFrom, ValueFrom
<1> HIDE DEF w
<1>4. SameEnds(s, k, f, w)
  BY <1>1, <1>2 DEF SameEnds
<1>5. CASE At(s, w) \in {"lbrace", "lbracket"}
  <2> DEFINE first == SkipWhitespace(s, w + 1)
  <2>1. w + 1 \in 0 .. Len(s) + 1 /\ w \in Positions(s)
    <3>1. w \in 1 .. Len(s)
      BY <1>5, SomethingAt
    <3>2. QED
      BY <1>1, <3>1 DEF Positions
  <2>2. first \in w + 1 .. Len(s) + 1
    BY <2>1, Solids
  <2> HIDE DEF first
  <2>3. /\ SkipItems(s, k, first, "members", "rbrace") = ParseObjectNode(s, f, first).next
        /\ SkipItems(s, k, first, "elements", "rbracket") = ParseArrayNode(s, f, first).next
    BY <1>4, <2>1, <2>2, ItemsEnd
  <2>4. CASE At(s, w) = "lbrace"
    <3>1. /\ NodeFrom(s, f, w) = ParseObjectNode(s, f, first)
          /\ SkipFrom(s, k, w) = SkipItems(s, k, first, "members", "rbrace")
      BY <2>4 DEF NodeFrom, SkipFrom, first, Booleans
    <3>2. QED
      BY <1>3, <2>3, <3>1
  <2>5. CASE At(s, w) = "lbracket"
    <3>1. /\ NodeFrom(s, f, w) = ParseArrayNode(s, f, first)
          /\ SkipFrom(s, k, w) = SkipItems(s, k, first, "elements", "rbracket")
      BY <2>5 DEF NodeFrom, SkipFrom, first, Booleans
    <3>2. QED
      BY <1>3, <2>3, <3>1
  <2>6. QED
    BY <1>5, <2>4, <2>5
<1>6. CASE At(s, w) = "end"
  BY <1>3, <1>6, Nexts DEF NodeFrom, SkipFrom
<1>7. CASE At(s, w) = "quote"
  <2>1. /\ NodeFrom(s, f, w) = Made(ParseString(s, w), MakeString(ParseString(s, w).value))
        /\ SkipFrom(s, k, w) = ParseString(s, w).next
    BY <1>7 DEF NodeFrom, SkipFrom, Booleans
  <2>2. QED
    BY <1>3, <2>1, Nexts
<1>8. CASE At(s, w) \in Booleans
  <2>1. /\ NodeFrom(s, f, w) = Made(ParseBool(s, w), MakeBoolean(ParseBool(s, w).value))
        /\ SkipFrom(s, k, w) = ParseBool(s, w).next
    BY <1>8 DEF NodeFrom, SkipFrom, Booleans
  <2>2. QED
    BY <1>3, <2>1, Nexts
<1>9. CASE At(s, w) \in {"null", "n"}
  <2>1. /\ NodeFrom(s, f, w) = Made(ParseNull(s, w), MakeNull)
        /\ SkipFrom(s, k, w) = ParseNull(s, w).next
    BY <1>9 DEF NodeFrom, SkipFrom, Booleans
  <2>2. QED
    BY <1>3, <2>1, Nexts
<1>10. CASE At(s, w) \notin {"lbrace", "lbracket", "end", "quote", "null", "n"} \cup Booleans
  <2>1. /\ NodeFrom(s, f, w) = Made(ParseNumber(s, w), MakeNumber(ParseNumber(s, w).value))
        /\ SkipFrom(s, k, w) = ParseNumber(s, w).next
    BY <1>10 DEF NodeFrom, SkipFrom, Booleans
  <2>2. QED
    BY <1>3, <2>1, Nexts
<1>11. QED
  BY <1>5, <1>6, <1>7, <1>8, <1>9, <1>10

LEMMA PartEnds ==
  ASSUME NEW s \in Texts, NEW pos \in Positions(s), NEW k, NEW f, SameEnds(s, k, f, pos),
         SameRead(s, f, f, pos), NEW part \in Parts
  PROVE  SkipPartFrom(s, k, pos, part) = PartFrom(s, f, pos, part).next
<1>1. CASE part = "value"
  BY <1>1, ValueEnds DEF SkipPartFrom, PartFrom
<1>2. CASE part = "members"
  <2> DEFINE name == ParseString(s, pos)
             colon == After(s, name.next, "colon")
             value == ReadPart(f, colon, "value")
             more == More(s, f, SkipWhitespace(s, value.next), "members", "rbrace")
  <2>1. SkipPart(k, colon, "value") = value.next /\ Ahead(s, pos, value.next)
    <3>1. Ahead(s, pos, colon) /\ pos \in 1 .. Len(s) + 1 /\ Len(s) \in Nat
      BY ColonIs DEF Positions, Texts
    <3> HIDE DEF colon
    <3>2. CASE colon = Fail
      BY <3>2, Nexts DEF SkipPart, ReadPart, Ahead
    <3>3. CASE colon # Fail
      <4>1. colon \in pos + 1 .. Len(s) + 1 /\ pos \in 0 .. Len(s) + 1 /\ colon \in pos .. Len(s) + 1
        BY <3>1, <3>3 DEF Ahead
      <4>2. k[colon]["value"] = f[colon]["value"].next /\ IsParsed(s, colon, f[colon]["value"])
        BY <4>1 DEF SameEnds, SameRead, Parts
      <4>3. value = f[colon]["value"] /\ SkipPart(k, colon, "value") = k[colon]["value"]
        BY <3>3 DEF SkipPart, ReadPart
      <4>4. QED
        BY <4>1, <4>2, <4>3, ParsedAhead, AheadFurther
    <3>4. QED
      BY <3>2, <3>3
  <2>2. MembersFrom(s, f, pos) = Joined(<<name.value, value.value>>, more)
    BY DEF MembersFrom, MemberFrom, WithMember
  <2>3. SkipMembersFrom(s, k, pos) = SkipMore(s, k, SkipWhitespace(s, value.next), "members", "rbrace")
    BY <2>1 DEF SkipMembersFrom
  <2> HIDE DEF name, colon, value
  <2>4. SkipMore(s, k, SkipWhitespace(s, value.next), "members", "rbrace") = more.next
    BY <2>1, MoreEnds DEF Parts
  <2> HIDE DEF more
  <2>5. QED
    BY <1>2, <2>2, <2>3, <2>4, Nexts DEF SkipPartFrom, PartFrom
<1>3. CASE part = "elements"
  <2> DEFINE value == ValueFrom(s, f, pos)
             more == More(s, f, SkipWhitespace(s, value.next), "elements", "rbracket")
  <2>1. SkipValueFrom(s, k, pos) = value.next /\ Ahead(s, pos, value.next)
    BY ValueEnds, ReadValueStep, ParsedAhead
  <2>2. ElementsFrom(s, f, pos) = Joined(value.value, more)
    BY DEF ElementsFrom, WithElement
  <2>3. SkipElementsFrom(s, k, pos) = SkipMore(s, k, SkipWhitespace(s, value.next), "elements", "rbracket")
    BY <2>1 DEF SkipElementsFrom
  <2> HIDE DEF value
  <2>4. SkipMore(s, k, SkipWhitespace(s, value.next), "elements", "rbracket") = more.next
    BY <2>1, MoreEnds DEF Parts
  <2> HIDE DEF more
  <2>5. QED
    BY <1>3, <2>2, <2>3, <2>4, Nexts DEF SkipPartFrom, PartFrom
<1>4. QED
  BY <1>1, <1>2, <1>3 DEF Parts

LEMMA ReadersEnd ==
  ASSUME NEW s \in Texts
  PROVE  \A pos \in Positions(s) : \A part \in Parts :
            Skip(s)[pos][part] = Read(s)[pos][part].next
<1> DEFINE n == Len(s) + 1
           k == Skip(s)
           f == Read(s)
           P == {pos \in 1 .. n : \A part \in Parts : k[pos][part] = f[pos][part].next}
<1>1. n \in Nat /\ Positions(s) = 1 .. n
  BY DEF Texts, Positions
<1>2. \A pos \in 1 .. n : \A part \in Parts :
         /\ k[pos][part] = SkipPartFrom(s, k, pos, part)
         /\ f[pos][part] = PartFrom(s, f, pos, part) /\ IsParsed(s, pos, f[pos][part])
  <2>1. \A pos \in 1 .. n : k[pos] = [part \in Parts |-> SkipPartFrom(s, k, pos, part)]
    BY <1>1, SkipIs
  <2>2. \A pos \in 1 .. n : f[pos] = [part \in Parts |-> PartFrom(s, f, pos, part)]
    BY <1>1, ReadIs
  <2>3. \A pos \in 1 .. n : \A part \in Parts : IsParsed(s, pos, f[pos][part])
    BY <1>1, ReadIs
  <2> HIDE DEF k, f
  <2>4. ASSUME NEW pos \in 1 .. n, NEW part \in Parts
        PROVE  /\ k[pos][part] = SkipPartFrom(s, k, pos, part)
               /\ f[pos][part] = PartFrom(s, f, pos, part) /\ IsParsed(s, pos, f[pos][part])
    <3>1. k[pos] = [x \in Parts |-> SkipPartFrom(s, k, pos, x)]
      BY <2>1
    <3>2. f[pos] = [x \in Parts |-> PartFrom(s, f, pos, x)]
      BY <2>2
    <3>3. k[pos][part] = SkipPartFrom(s, k, pos, part)
      BY <3>1
    <3>4. f[pos][part] = PartFrom(s, f, pos, part)
      BY <3>2
    <3>5. QED
      BY <2>3, <3>3, <3>4
  <2>5. QED
    BY <2>4
<1> HIDE DEF k, f
<1>3. ASSUME NEW pos \in 1 .. n, \A q \in pos + 1 .. n : q \in P
      PROVE  pos \in P
  <2>1. SameEnds(s, k, f, pos)
    BY <1>3 DEF SameEnds
  <2>2. SameRead(s, f, f, pos)
    BY <1>2 DEF SameRead
  <2>3. \A part \in Parts : SkipPartFrom(s, k, pos, part) = PartFrom(s, f, pos, part).next
    BY <1>1, <2>1, <2>2, PartEnds
  <2>4. QED
    BY <1>2, <2>3
<1> HIDE DEF P
<1>4. 1 .. n \subseteq P
  BY <1>1, <1>3, Backwards
<1>5. QED
  BY <1>1, <1>4 DEF P, k, f

\* From every position the walk ends where the parser ends, or both fail.
LEMMA WalkEnds ==
  ASSUME NEW s \in Texts, NEW pos
  PROVE  /\ pos \in 0 .. Len(s) + 1 => SkipValue(s, pos) = ParseNodeValue(s, pos).next
         /\ pos \in 0 .. Len(s) + 1 => Ahead(s, pos, SkipValue(s, pos))
         /\ SkipsWhatItParses(s)
<1>1. ASSUME NEW p \in 0 .. Len(s) + 1
      PROVE  SkipValue(s, p) = ParseNodeValue(s, p).next /\ Ahead(s, p, SkipValue(s, p))
  <2>1. CASE p = Fail
    BY <2>1, Nexts DEF SkipValue, ParseNodeValue, SkipPart, ReadPart, Ahead
  <2>2. CASE p # Fail
    <3>1. p \in Positions(s)
      BY <2>2 DEF Positions, Fail, Texts
    <3>2. Skip(s)[p]["value"] = Read(s)[p]["value"].next /\ Ahead(s, p, Skip(s)[p]["value"])
      BY <3>1, ReadersEnd, SkipIs DEF Parts
    <3>3. QED
      BY <2>2, <3>2 DEF SkipValue, ParseNodeValue, SkipPart, ReadPart
  <2>3. QED
    BY <2>1, <2>2
<1>2. SkipsWhatItParses(s)
  BY <1>1 DEF SkipsWhatItParses, Texts
<1>3. QED
  BY <1>1, <1>2

-----------------------------------------------------------------------------
(* A value cut out of a text reads the same.                               *)

IsCut(s, t, a, b) ==
    /\ s \in Texts /\ a \in 1 .. Len(s) + 1 /\ b \in a .. Len(s) + 1
    /\ t = SubSeq(s, a, b - 1)
\* What r reads in the text, u reads in the cut, when r ends within it.
SameCut(r, u, a, b) ==
    r.next # Fail /\ r.next <= b => u = Parsed(r.next - a + 1, r.value)

LEMMA CutIs ==
  ASSUME NEW s, NEW t, NEW a, NEW b, IsCut(s, t, a, b)
  PROVE  /\ s \in Texts /\ t \in Texts /\ Len(t) = b - a /\ Len(s) \in Nat
         /\ a \in 1 .. Len(s) + 1 /\ b \in a .. Len(s) + 1
         /\ \A p \in a .. b - 1 : At(t, p - a + 1) = At(s, p) /\ p - a + 1 \in 1 .. Len(t)
         /\ At(t, b - a + 1) = "end"
<1>1. s \in Seq(STRING) /\ Len(s) \in Nat /\ a \in Int /\ b \in Int /\ a >= 1 /\ b >= a /\ b <= Len(s) + 1
  BY DEF IsCut, Texts
<1>2. t \in Seq(STRING) /\ Len(t) = b - a /\ \A i \in 1 .. Len(t) : t[i] = s[a + i - 1]
  BY <1>1 DEF IsCut
<1>3. ASSUME NEW p \in a .. b - 1 PROVE At(t, p - a + 1) = At(s, p) /\ p - a + 1 \in 1 .. Len(t)
  <2>1. p - a + 1 \in 1 .. Len(t) /\ p \in 1 .. Len(s) /\ a + (p - a + 1) - 1 = p
    BY <1>1, <1>2
  <2>2. t[p - a + 1] = s[p]
    BY <1>2, <2>1
  <2>3. DOMAIN t = 1 .. Len(t) /\ DOMAIN s = 1 .. Len(s)
    BY <1>1, <1>2
  <2>4. QED
    BY <2>1, <2>2, <2>3 DEF At
<1>4. At(t, b - a + 1) = "end"
  BY <1>1, <1>2 DEF At
<1>5. QED
  BY <1>1, <1>2, <1>3, <1>4 DEF IsCut, Texts

LEMMA CutFirstNot ==
  ASSUME NEW s, NEW t, NEW a, NEW b, IsCut(s, t, a, b), NEW p \in a .. b,
         NEW symbols, "end" \notin symbols, FirstNot(s, p, symbols) <= b
  PROVE  FirstNot(t, p - a + 1, symbols) = FirstNot(s, p, symbols) - a + 1
<1> DEFINE q == FirstNot(s, p, symbols)
<1>1. /\ s \in Texts /\ t \in Texts /\ Len(t) = b - a /\ Len(s) \in Nat
      /\ a \in 1 .. Len(s) + 1 /\ b \in a .. Len(s) + 1
  BY CutIs
<1>2. \A x \in a .. b - 1 : At(t, x - a + 1) = At(s, x) /\ x - a + 1 \in 1 .. Len(t)
  BY CutIs
<1>3. At(t, b - a + 1) = "end"
  BY CutIs
<1>4. p \in 0 .. Len(s) + 1
  BY <1>1
<1>5. IsFirstNot(s, p, symbols, q)
  BY <1>1, <1>4, FirstNotIs
<1>6. q <= b
  OBVIOUS
<1> HIDE DEF q
<1>7. q \in p .. b
  BY <1>1, <1>5, <1>6 DEF IsFirstNot
<1>8. IsFirstNot(t, p - a + 1, symbols, q - a + 1)
  <2>1. q - a + 1 \in p - a + 1 .. Len(t) + 1
    BY <1>1, <1>7
  <2>2. At(t, q - a + 1) \notin symbols
    <3>1. CASE q = b
      BY <1>3, <3>1
    <3>2. CASE q # b
      <4>1. q \in a .. b - 1
        BY <1>1, <1>7, <3>2
      <4>2. QED
        BY <1>2, <1>5, <4>1 DEF IsFirstNot
    <3>3. QED
      BY <3>1, <3>2
  <2>3. ASSUME NEW k \in p - a + 1 .. (q - a + 1) - 1 PROVE At(t, k) \in symbols
    <3>1. k + a - 1 \in p .. q - 1 /\ k + a - 1 \in a .. b - 1 /\ (k + a - 1) - a + 1 = k
      BY <1>1, <1>7
    <3>2. At(s, k + a - 1) \in symbols
      BY <1>5, <3>1 DEF IsFirstNot
    <3>3. At(t, (k + a - 1) - a + 1) = At(s, k + a - 1)
      BY <1>2, <3>1
    <3>4. QED
      BY <3>1, <3>2, <3>3
  <2>4. QED
    BY <2>1, <2>2, <2>3 DEF IsFirstNot
<1>9. p - a + 1 \in 0 .. Len(t) + 1
  BY <1>1
<1>10. FirstNot(t, p - a + 1, symbols) = q - a + 1
  BY <1>1, <1>8, <1>9, FirstNotIsOne
<1>11. QED
  BY <1>10 DEF q

LEMMA CutSolid ==
  ASSUME NEW s, NEW t, NEW a, NEW b, IsCut(s, t, a, b), NEW p \in a .. b,
         SkipWhitespace(s, p) <= b
  PROVE  SkipWhitespace(t, p - a + 1) = SkipWhitespace(s, p) - a + 1
<1>1. "end" \notin Whitespace
  BY DEF Whitespace
<1>2. QED
  BY <1>1, CutFirstNot DEF SkipWhitespace

LEMMA CutAfter ==
  ASSUME NEW s, NEW t, NEW a, NEW b, IsCut(s, t, a, b), NEW p \in a .. b, NEW symbol,
         symbol # "end", After(s, p, symbol) # Fail, After(s, p, symbol) <= b
  PROVE  /\ After(t, p - a + 1, symbol) = After(s, p, symbol) - a + 1
         /\ After(s, p, symbol) \in p + 1 .. b
<1> DEFINE w == SkipWhitespace(s, p)
<1>1. /\ s \in Texts /\ Len(s) \in Nat
      /\ a \in 1 .. Len(s) + 1 /\ b \in a .. Len(s) + 1
  BY CutIs
<1>2. \A x \in a .. b - 1 : At(t, x - a + 1) = At(s, x)
  BY CutIs
<1>3. p \in 0 .. Len(s) + 1
  BY <1>1
<1>4. w \in p .. Len(s) + 1
  BY <1>1, <1>3, Solids
<1>5. At(s, w) = symbol /\ After(s, p, symbol) = w + 1
  BY DEF After, Past
<1>6. w < b
  BY <1>1, <1>4, <1>5
<1>7. SkipWhitespace(t, p - a + 1) = w - a + 1
  <2>1. w <= b
    BY <1>1, <1>4, <1>6
  <2>2. QED
    BY <2>1, CutSolid
<1> HIDE DEF w
<1>8. At(t, w - a + 1) = symbol
  BY <1>1, <1>2, <1>4, <1>5, <1>6
<1>9. After(t, p - a + 1, symbol) = w - a + 1 + 1
  BY <1>7, <1>8 DEF After, Past
<1>10. QED
  BY <1>1, <1>4, <1>5, <1>6, <1>9

\* Joined and Made keep a cut.
LEMMA CutJoined ==
  ASSUME NEW r, NEW u, NEW a, NEW b, NEW item, SameCut(r, u, a, b), a \in Int,
         r.next # Fail => r.next - a + 1 # Fail
  PROVE  SameCut(Joined(item, r), Joined(item, u), a, b) /\ SameCut(Made(r, item), Made(u, item), a, b)
<1>1. CASE r.next # Fail /\ r.next <= b
  <2>1. u = Parsed(r.next - a + 1, r.value) /\ r.next - a + 1 # Fail
    BY <1>1 DEF SameCut
  <2>2. u.next = r.next - a + 1 /\ u.value = r.value
    BY <2>1, Nexts
  <2>3. /\ Joined(item, r) = Parsed(r.next, <<item>> \o r.value)
        /\ Joined(item, u) = Parsed(r.next - a + 1, <<item>> \o r.value)
    BY <1>1, <2>1, <2>2 DEF Joined
  <2>4. Made(r, item) = Parsed(r.next, item) /\ Made(u, item) = Parsed(r.next - a + 1, item)
    BY <1>1, <2>1, <2>2 DEF Made
  <2>5. QED
    BY <2>3, <2>4, Nexts DEF SameCut
<1>2. CASE ~(r.next # Fail /\ r.next <= b)
  BY <1>2, Nexts DEF SameCut
<1>3. QED
  BY <1>1, <1>2

LEMMA JoinedParsed ==
  ASSUME NEW next, NEW value, NEW item, next # Fail
  PROVE  /\ Joined(item, Parsed(next, value)) = Parsed(next, <<item>> \o value)
         /\ Made(Parsed(next, value), item) = Parsed(next, item)
BY DEF Joined, Made, Parsed

LEMMA CutRest ==
  ASSUME NEW s, NEW t, NEW a, NEW b, IsCut(s, t, a, b)
  PROVE  \A p \in a .. b - 1 : SameCut(StringRest(s)[p], StringRest(t)[p - a + 1], a, b)
<1> DEFINE n == Len(s) + 1
           f == StringRest(s)
           g == StringRest(t)
           P == {p \in 1 .. n : p \in a .. b - 1 => SameCut(f[p], g[p - a + 1], a, b)}
<1>1. /\ s \in Texts /\ t \in Texts /\ Len(t) = b - a /\ Len(s) \in Nat /\ n \in Nat
      /\ a \in 1 .. Len(s) + 1 /\ b \in a .. Len(s) + 1
  BY CutIs
<1>2. \A x \in a .. b - 1 : At(t, x - a + 1) = At(s, x) /\ x - a + 1 \in 1 .. Len(t)
  BY CutIs
<1>3. \A p \in Positions(s) : f[p] = CharsFrom(s, f, p) /\ IsParsed(s, p, f[p])
  BY <1>1, StringRestIs, RestAhead
<1>4. \A p \in Positions(t) : g[p] = CharsFrom(t, g, p)
  BY <1>1, StringRestIs
<1> HIDE DEF f, g
<1>5. ASSUME NEW p \in 1 .. n, p \in a .. b - 1, f[p].next # Fail, f[p].next <= b,
             \A q \in p + 1 .. n : q \in a .. b - 1 => SameCut(f[q], g[q - a + 1], a, b)
      PROVE  g[p - a + 1] = Parsed(f[p].next - a + 1, f[p].value)
  <2>1. /\ p \in Positions(s) /\ p - a + 1 \in Positions(t) /\ At(t, p - a + 1) = At(s, p)
        /\ a \in Int /\ b \in Int /\ p \in Int
    BY <1>1, <1>2, <1>5 DEF Positions
  <2>2. f[p] = CharsFrom(s, f, p) /\ g[p - a + 1] = CharsFrom(t, g, p - a + 1)
    BY <1>3, <1>4, <2>1
  <2>3. CASE At(s, p) = "end"
    BY <1>5, <2>2, <2>3, Nexts DEF CharsFrom
  <2>4. CASE At(s, p) = "quote"
    <3>1. f[p] = Parsed(p + 1, <<>>) /\ g[p - a + 1] = Parsed((p - a + 1) + 1, <<>>)
      BY <2>1, <2>2, <2>4 DEF CharsFrom
    <3>2. (p + 1) - a + 1 = (p - a + 1) + 1
      BY <2>1
    <3>3. f[p].next = p + 1 /\ f[p].value = <<>>
      BY <3>1, Nexts
    <3>4. f[p].next - a + 1 = (p - a + 1) + 1
      BY <3>2, <3>3
    <3>5. QED
      BY <3>1, <3>3, <3>4
  <2>5. CASE At(s, p) = "bs" /\ p < Len(s)
    <3> DEFINE r == f[p + 2]
               c == Unescaped(s[p + 1])
    <3>1. f[p] = Joined(c, r)
      BY <2>2, <2>5 DEF CharsFrom
    <3>2. p + 2 \in Positions(s) /\ p + 2 \in p + 1 .. n
      BY <1>1, <1>5, <2>5 DEF Positions
    <3>3. IsParsed(s, p + 2, r)
      BY <1>3, <3>2
    <3> HIDE DEF r, c
    <3>4. r.next # Fail /\ r.next <= b /\ f[p].next = r.next
      BY <1>5, <3>1, Nexts
    <3>5. r.next \in p + 3 .. n
      BY <3>2, <3>3, <3>4, ParsedAhead DEF Ahead
    <3>6. p + 2 \in a .. b - 1
      BY <1>1, <1>5, <3>4, <3>5
    <3>7. g[(p + 2) - a + 1] = Parsed(r.next - a + 1, r.value)
      <4> DEFINE x == p + 2
      <4>1. x \in p + 1 .. n /\ x \in a .. b - 1
        BY <3>2, <3>6
      <4> HIDE DEF x
      <4>2. SameCut(f[x], g[x - a + 1], a, b)
        BY <1>5, <4>1
      <4>3. SameCut(r, g[x - a + 1], a, b)
        BY <4>2 DEF r, x
      <4>4. g[x - a + 1] = Parsed(r.next - a + 1, r.value)
        BY <3>4, <4>3 DEF SameCut
      <4>5. QED
        BY <4>4 DEF x
    <3>8. At(t, p - a + 1) = "bs" /\ p - a + 1 < Len(t)
      BY <1>1, <2>1, <2>5, <3>6
    <3>9. t[(p - a + 1) + 1] = s[p + 1]
      <4>1. p + 1 \in a .. b - 1 /\ (p + 1) - a + 1 = (p - a + 1) + 1
        BY <2>1, <1>5, <3>6
      <4> DEFINE x == p + 1
      <4>a. x \in a .. b - 1
        BY <4>1
      <4> HIDE DEF x
      <4>b. At(t, x - a + 1) = At(s, x) /\ x - a + 1 \in 1 .. Len(t)
        BY <1>2, <4>a
      <4>c. x - a + 1 = (p - a + 1) + 1
        BY <2>1 DEF x
      <4>2. At(t, (p - a + 1) + 1) = At(s, p + 1) /\ (p - a + 1) + 1 \in 1 .. Len(t)
        BY <4>b, <4>c DEF x
      <4>3. p + 1 \in 1 .. Len(s)
        BY <1>1, <2>5, <1>5
      <4>4. DOMAIN s = 1 .. Len(s) /\ DOMAIN t = 1 .. Len(t)
        BY <1>1 DEF Texts
      <4>5. QED
        BY <4>2, <4>3, <4>4 DEF At
    <3>10. (p - a + 1) + 2 = (p + 2) - a + 1
      BY <2>1
    <3>11. g[p - a + 1] = Joined(Unescaped(t[(p - a + 1) + 1]), g[(p - a + 1) + 2])
      BY <2>2, <3>8 DEF CharsFrom
    <3>12. g[p - a + 1] = Joined(c, Parsed(r.next - a + 1, r.value))
      BY <3>7, <3>9, <3>10, <3>11 DEF c
    <3>13. r.next - a + 1 # Fail
      BY <1>1, <1>5, <3>5 DEF Fail
    <3>14. g[p - a + 1] = Parsed(r.next - a + 1, <<c>> \o r.value)
      BY <3>12, <3>13, JoinedParsed
    <3>15. f[p] = Parsed(r.next, <<c>> \o r.value)
      BY <3>1, <3>4 DEF Joined
    <3>16. QED
      BY <3>14, <3>15, Nexts
  <2>6. CASE At(s, p) \notin {"end", "quote"} /\ ~(At(s, p) = "bs" /\ p < Len(s))
    <3> DEFINE r == f[p + 1]
               c == s[p]
    <3>1. f[p] = Joined(c, r)
      BY <2>2, <2>6 DEF CharsFrom
    <3>2. p + 1 \in Positions(s) /\ p + 1 \in p + 1 .. n /\ p \in 1 .. Len(s)
      BY <1>1, <1>5, <2>6, SomethingAt DEF Positions
    <3>3. IsParsed(s, p + 1, r)
      BY <1>3, <3>2
    <3>4. r.next # Fail /\ r.next <= b /\ f[p].next = r.next
      <4> HIDE DEF r, c
      <4>1. QED
        BY <1>5, <3>1, Nexts
    <3>5. r.next \in p + 2 .. n
      <4> HIDE DEF r
      <4>1. QED
        BY <3>2, <3>3, <3>4, ParsedAhead DEF Ahead
    <3>6. p + 1 \in a .. b - 1
      BY <1>1, <1>5, <3>4, <3>5
    <3>7. g[(p + 1) - a + 1] = Parsed(r.next - a + 1, r.value)
      <4> DEFINE x == p + 1
      <4>1. x \in p + 1 .. n /\ x \in a .. b - 1
        BY <3>2, <3>6
      <4> HIDE DEF x
      <4>2. SameCut(f[x], g[x - a + 1], a, b)
        BY <1>5, <4>1
      <4>3. SameCut(r, g[x - a + 1], a, b)
        BY <4>2 DEF x
      <4> HIDE DEF r
      <4>4. g[x - a + 1] = Parsed(r.next - a + 1, r.value)
        BY <3>4, <4>3 DEF SameCut
      <4>5. QED
        BY <4>4 DEF x
    <3>8. At(t, p - a + 1) \notin {"end", "quote"} /\ ~(At(t, p - a + 1) = "bs" /\ p - a + 1 < Len(t))
      <4>1. At(s, p) # "bs"
        BY <1>1, <1>5, <2>6, <3>6
      <4>2. QED
        BY <2>1, <2>6, <4>1
    <3>9. t[p - a + 1] = s[p]
      <4>1. p - a + 1 \in 1 .. Len(t)
        BY <1>2, <1>5
      <4>2. DOMAIN s = 1 .. Len(s) /\ DOMAIN t = 1 .. Len(t)
        BY <1>1 DEF Texts
      <4>3. QED
        BY <2>1, <3>2, <4>1, <4>2 DEF At
    <3>10. (p - a + 1) + 1 = (p + 1) - a + 1
      BY <2>1
    <3>11. g[p - a + 1] = Joined(t[p - a + 1], g[(p - a + 1) + 1])
      BY <2>2, <3>8 DEF CharsFrom
    <3>12. g[p - a + 1] = Joined(c, Parsed(r.next - a + 1, r.value))
      BY <3>7, <3>9, <3>10, <3>11
    <3>13. r.next - a + 1 # Fail
      BY <1>1, <1>5, <3>5 DEF Fail
    <3> HIDE DEF r, c
    <3>14. g[p - a + 1] = Parsed(r.next - a + 1, <<c>> \o r.value)
      BY <3>12, <3>13, JoinedParsed
    <3>15. f[p] = Parsed(r.next, <<c>> \o r.value)
      BY <3>1, <3>4 DEF Joined
    <3>16. QED
      BY <3>14, <3>15, Nexts
  <2>7. QED
    BY <2>3, <2>4, <2>5, <2>6
<1>6. ASSUME NEW p \in 1 .. n, \A q \in p + 1 .. n : q \in P
      PROVE  p \in P
  <2>1. \A q \in p + 1 .. n : q \in a .. b - 1 => SameCut(f[q], g[q - a + 1], a, b)
    BY <1>6
  <2>2. p \in a .. b - 1 => SameCut(f[p], g[p - a + 1], a, b)
    BY <1>5, <2>1 DEF SameCut
  <2>3. QED
    BY <2>2
<1> HIDE DEF P
<1>7. 1 .. n \subseteq P
  BY <1>1, <1>6, Backwards
<1>8. \A p \in a .. b - 1 : p \in 1 .. n
  BY <1>1
<1>9. QED
  BY <1>7, <1>8 DEF P, f, g

LEMMA CutString ==
  ASSUME NEW s, NEW t, NEW a, NEW b, IsCut(s, t, a, b), NEW p \in a .. b
  PROVE  SameCut(ParseString(s, p), ParseString(t, p - a + 1), a, b)
<1> DEFINE r == ParseString(s, p)
           open == After(s, p, "quote")
<1>1. /\ s \in Texts /\ Len(s) \in Nat
      /\ a \in 1 .. Len(s) + 1 /\ b \in a .. Len(s) + 1 /\ p \in 0 .. Len(s) + 1
  BY CutIs
<1>2. Ahead(s, p, open)
  BY <1>1, AfterIs
<1>3. SUFFICES ASSUME r.next # Fail, r.next <= b
               PROVE  ParseString(t, p - a + 1) = Parsed(r.next - a + 1, r.value)
  BY DEF SameCut
<1>4. open # Fail /\ r = StringRest(s)[open]
  <2>1. r = OpenString(s, open)
    BY DEF ParseString
  <2> HIDE DEF open
  <2>2. open # Fail
    BY <1>3, <2>1, Nexts DEF OpenString
  <2>3. QED
    BY <2>1, <2>2 DEF OpenString
<1> HIDE DEF r
<1>5. open \in Positions(s) /\ open \in p + 1 .. Len(s) + 1
  BY <1>1, <1>2, <1>4 DEF Ahead, Positions
<1>6. r.next \in open + 1 .. Len(s) + 1
  <2> HIDE DEF open
  <2>1. IsParsed(s, open, r)
    BY <1>1, <1>4, <1>5, RestAhead
  <2>2. QED
    BY <1>3, <2>1, ParsedAhead DEF Ahead
<1>7. open \in a .. b - 1 /\ open <= b
  BY <1>1, <1>3, <1>5, <1>6
<1>8. After(t, p - a + 1, "quote") = open - a + 1
  BY <1>4, <1>7, CutAfter
<1> HIDE DEF open
<1>9. SameCut(r, StringRest(t)[open - a + 1], a, b)
  BY <1>4, <1>7, CutRest
<1>10. open - a + 1 # Fail
  BY <1>1, <1>7 DEF Fail
<1>11. ParseString(t, p - a + 1) = StringRest(t)[open - a + 1]
  BY <1>8, <1>10 DEF ParseString, OpenString
<1>12. QED
  BY <1>3, <1>9, <1>11 DEF SameCut

Within(i, j, a, b) == i \in a .. b /\ j \in i .. b
Slice(s, i, j)     == SubSeq(s, i, j - 1)

LEMMA CutCut ==
  ASSUME NEW s, NEW t, NEW a, NEW b, IsCut(s, t, a, b), NEW i, NEW j, Within(i, j, a, b),
         NEW v, v = i - a + 1, NEW w, w = j - a + 1
  PROVE  Slice(t, v, w) = Slice(s, i, j)
<1> DEFINE x == SubSeq(t, v, w - 1)
           y == SubSeq(s, i, j - 1)
<1>1. s \in Seq(STRING) /\ t \in Seq(STRING) /\ Len(t) = b - a
  BY CutIs DEF Texts
<1>2. /\ Len(s) \in Nat /\ a \in 1 .. Len(s) + 1 /\ b \in a .. Len(s) + 1 /\ a \in Int /\ b \in Int
      /\ i \in a .. b /\ j \in i .. b
  BY CutIs DEF Within
<1>3. \A k \in 1 .. Len(t) : t[k] = s[a + k - 1]
  BY <1>1, <1>2 DEF IsCut
<1>4. x \in Seq(STRING) /\ Len(x) = j - i /\ \A k \in 1 .. j - i : x[k] = t[v + k - 1]
  <2>1. v \in 1 .. Len(t) + 1 /\ w \in v .. Len(t) + 1 /\ w - v = j - i
    BY <1>1, <1>2
  <2>2. v \in Int /\ w \in Int /\ v >= 1 /\ w >= v /\ w <= Len(t) + 1 /\ Len(t) \in Nat
    BY <1>1, <2>1
  <2>3. x \in Seq(STRING) /\ Len(x) = w - v /\ \A k \in 1 .. w - v : x[k] = t[v + k - 1]
    BY <1>1, <2>2
  <2>4. QED
    BY <2>1, <2>3
<1>5. y \in Seq(STRING) /\ Len(y) = j - i /\ \A k \in 1 .. j - i : y[k] = s[i + k - 1]
  <2>1. i \in Int /\ j \in Int /\ i >= 1 /\ j >= i /\ j <= Len(s) + 1 /\ Len(s) \in Nat
    BY <1>2
  <2>2. QED
    BY <1>1, <2>1
<1>6. ASSUME NEW k \in 1 .. j - i PROVE x[k] = y[k]
  <2> DEFINE m == v + k - 1
  <2>1. m \in 1 .. Len(t) /\ a + m - 1 = i + k - 1
    BY <1>1, <1>2
  <2> HIDE DEF m
  <2>2. t[m] = s[i + k - 1]
    BY <1>3, <2>1
  <2>3. QED
    BY <1>4, <1>5, <2>2 DEF m
<1> HIDE DEF x, y
<1>7. x = y
  BY <1>4, <1>5, <1>6, SeqEqual
<1>8. QED
  BY <1>7 DEF x, y, Slice

LEMMA CutNumber ==
  ASSUME NEW s, NEW t, NEW a, NEW b, IsCut(s, t, a, b), NEW p \in a .. b
  PROVE  SameCut(ParseNumber(s, p), ParseNumber(t, p - a + 1), a, b)
<1> DEFINE r == ParseNumber(s, p)
           start == SkipWhitespace(s, p)
           first == IF At(s, start) = "minus" THEN start + 1 ELSE start
           pos == FirstNot(s, first, Digits)
           value(size, signed) == IF signed THEN -size ELSE size
<1>1. /\ s \in Texts /\ Len(s) \in Nat
      /\ a \in 1 .. Len(s) + 1 /\ b \in a .. Len(s) + 1 /\ p \in 0 .. Len(s) + 1
  BY CutIs
<1>2. \A x \in a .. b - 1 : At(t, x - a + 1) = At(s, x)
  BY CutIs
<1>3. SUFFICES ASSUME r.next # Fail, r.next <= b
               PROVE  ParseNumber(t, p - a + 1) = Parsed(r.next - a + 1, r.value)
  BY DEF SameCut
<1>4. start \in p .. Len(s) + 1
  BY <1>1, Solids
<1>5. first \in start .. Len(s) + 1
  BY <1>1, <1>4, SomethingAt
<1>6. "end" \notin Digits
  BY DEF Digits
<1>7. pos \in first .. Len(s) + 1
  <2>1. first \in 0 .. Len(s) + 1
    BY <1>1, <1>4, <1>5
  <2> HIDE DEF first
  <2>2. QED
    BY <1>1, <1>6, <2>1, FirstNotIs DEF IsFirstNot
<1>8. r = IF pos = start THEN NotParsed
          ELSE Parsed(pos, value(Decimal(SubSeq(s, first, pos - 1)), first > start))
  BY DEF ParseNumber
<1> HIDE DEF r, pos, value
<1>9. pos # start /\ r = Parsed(pos, value(Decimal(SubSeq(s, first, pos - 1)), first > start))
  BY <1>3, <1>8, Nexts
<1>10. r.next = pos /\ r.value = value(Decimal(SubSeq(s, first, pos - 1)), first > start)
  BY <1>9, Nexts
<1>11. start < b /\ pos <= b /\ first \in a .. b
  BY <1>1, <1>3, <1>4, <1>5, <1>7, <1>9, <1>10
<1>12. SkipWhitespace(t, p - a + 1) = start - a + 1
  BY <1>11, <1>1, <1>4, CutSolid
<1>13. At(t, start - a + 1) = At(s, start)
  BY <1>1, <1>2, <1>4, <1>11
<1>14. (IF At(t, start - a + 1) = "minus" THEN start - a + 1 + 1 ELSE start - a + 1) = first - a + 1
  BY <1>1, <1>4, <1>13
<1>15. FirstNot(t, first - a + 1, Digits) = pos - a + 1
  <2> HIDE DEF first
  <2>1. QED
    BY <1>6, <1>11, CutFirstNot DEF pos
<1>16. SubSeq(t, first - a + 1, (pos - a + 1) - 1) = SubSeq(s, first, pos - 1)
  <2>1. pos \in first .. b /\ (pos - a + 1) - 1 = pos - a
    BY <1>1, <1>7, <1>11
  <2> HIDE DEF first, start
  <2>2. SubSeq(t, first - a + 1, pos - a) = SubSeq(s, first, pos - 1)
    <3>1. Within(first, pos, a, b)
      BY <1>11, <2>1 DEF Within
    <3>2. Slice(t, first - a + 1, pos - a + 1) = Slice(s, first, pos)
      BY <3>1, CutCut
    <3>3. QED
      BY <2>1, <3>2 DEF Slice
  <2>3. QED
    BY <2>1, <2>2
<1>17. (first - a + 1 > start - a + 1 <=> first > start) /\ pos - a + 1 # start - a + 1
  BY <1>1, <1>4, <1>5, <1>7, <1>9
<1> HIDE DEF first, start
<1>18. ParseNumber(t, p - a + 1) =
          Parsed(pos - a + 1, value(Decimal(SubSeq(s, first, pos - 1)), first > start))
  BY <1>12, <1>14, <1>15, <1>16, <1>17 DEF ParseNumber, value
<1>19. QED
  BY <1>10, <1>18

LEMMA CutWords ==
  ASSUME NEW s, NEW t, NEW a, NEW b, IsCut(s, t, a, b), NEW p \in a .. b
  PROVE  /\ SameCut(ParseBool(s, p), ParseBool(t, p - a + 1), a, b)
         /\ SameCut(ParseNull(s, p), ParseNull(t, p - a + 1), a, b)
<1> DEFINE w == SkipWhitespace(s, p)
<1>1. /\ s \in Texts /\ Len(s) \in Nat
      /\ a \in 1 .. Len(s) + 1 /\ b \in a .. Len(s) + 1 /\ p \in 0 .. Len(s) + 1
  BY CutIs
<1>2. \A x \in a .. b - 1 : At(t, x - a + 1) = At(s, x)
  BY CutIs
<1>3. w \in p .. Len(s) + 1
  BY <1>1, Solids
<1>4. w < b => SkipWhitespace(t, p - a + 1) = w - a + 1 /\ At(t, w - a + 1) = At(s, w)
  <2>1. w < b => w <= b /\ w \in a .. b - 1
    BY <1>1, <1>3
  <2>2. w < b => SkipWhitespace(t, p - a + 1) = w - a + 1
    BY <2>1, CutSolid
  <2> HIDE DEF w
  <2>3. QED
    BY <1>2, <2>1, <2>2
<1>5. w + 1 <= b => w < b /\ (w - a + 1) + 1 = (w + 1) - a + 1
  BY <1>1, <1>3
<1>6. SameCut(ParseBool(s, p), ParseBool(t, p - a + 1), a, b)
  <2>1. SUFFICES ASSUME ParseBool(s, p).next # Fail, ParseBool(s, p).next <= b
                 PROVE  ParseBool(t, p - a + 1) = Parsed(ParseBool(s, p).next - a + 1, ParseBool(s, p).value)
    BY DEF SameCut
  <2>2. At(s, w) \in Booleans /\ ParseBool(s, p) = Parsed(w + 1, At(s, w) = "true")
    BY <2>1, Nexts DEF ParseBool
  <2> HIDE DEF w
  <2>3. ParseBool(s, p).next = w + 1 /\ ParseBool(s, p).value = (At(s, w) = "true")
    BY <2>2, Nexts
  <2>4. ParseBool(t, p - a + 1) = Parsed((w - a + 1) + 1, At(s, w) = "true")
    BY <1>4, <1>5, <2>1, <2>2, <2>3 DEF ParseBool
  <2>5. (w - a + 1) + 1 = ParseBool(s, p).next - a + 1
    BY <1>5, <2>1, <2>3
  <2>6. QED
    BY <2>3, <2>4, <2>5
<1>7. SameCut(ParseNull(s, p), ParseNull(t, p - a + 1), a, b)
  <2>1. SUFFICES ASSUME ParseNull(s, p).next # Fail, ParseNull(s, p).next <= b
                 PROVE  ParseNull(t, p - a + 1) = Parsed(ParseNull(s, p).next - a + 1, ParseNull(s, p).value)
    BY DEF SameCut
  <2>2. At(s, w) = "null" /\ ParseNull(s, p) = Parsed(w + 1, TRUE)
    BY <2>1, Nexts DEF ParseNull
  <2> HIDE DEF w
  <2>3. ParseNull(s, p).next = w + 1 /\ ParseNull(s, p).value = TRUE
    BY <2>2 DEF Parsed
  <2>4. ParseNull(t, p - a + 1) = Parsed((w - a + 1) + 1, TRUE)
    BY <1>4, <1>5, <2>1, <2>2, <2>3 DEF ParseNull
  <2>5. (w - a + 1) + 1 = ParseNull(s, p).next - a + 1
    BY <1>5, <2>1, <2>3
  <2>6. QED
    BY <2>3, <2>4, <2>5
<1>8. QED
  BY <1>6, <1>7

SameCutBehind(f, g, p, a, b) ==
    \A q \in p + 1 .. b - 1 : \A part \in Parts : SameCut(f[q][part], g[q - a + 1][part], a, b)

LEMMA CutPart ==
  ASSUME NEW f, NEW g, NEW p, NEW a, NEW b, SameCutBehind(f, g, p, a, b),
         NEW q \in p + 1 .. b - 1, NEW part \in Parts, NEW x, x = q - a + 1
  PROVE  SameCut(f[q][part], g[x][part], a, b)
BY DEF SameCutBehind

LEMMA CutMore ==
  ASSUME NEW s, NEW t, NEW a, NEW b, IsCut(s, t, a, b), NEW p \in a .. b - 1, NEW f, NEW g,
         SameRead(s, f, f, p), SameCutBehind(f, g, p, a, b),
         NEW next, Ahead(s, p, next), NEW part \in Parts, NEW close, close # "end",
         close # "comma", NEW r, r = More(s, f, SkipWhitespace(s, next), part, close),
         r.next # Fail, r.next <= b
  PROVE  /\ next \in p + 1 .. b - 1
         /\ More(t, g, SkipWhitespace(t, next - a + 1), part, close)
               = Parsed(r.next - a + 1, r.value)
<1> DEFINE w == SkipWhitespace(s, next)
<1>1. /\ s \in Texts /\ Len(s) \in Nat /\ a \in 1 .. Len(s) + 1 /\ b \in a .. Len(s) + 1
      /\ a \in Int /\ b \in Int /\ p \in Int /\ a >= 1 /\ b <= Len(s) + 1 /\ p >= a
  BY CutIs
<1>2. \A x \in a .. b - 1 : At(t, x - a + 1) = At(s, x)
  BY CutIs
<1>3. next \in 0 .. Len(s) + 1
  BY <1>1 DEF Ahead, Fail
<1>4. w \in next .. Len(s) + 1 /\ (next = Fail => w = Fail)
  BY <1>1, <1>3, Solids
<1>5. r = More(s, f, w, part, close)
  OBVIOUS
<1>6. w < b => SkipWhitespace(t, next - a + 1) = w - a + 1 \/ next \notin a .. b
  <2>1. w < b => w <= b
    BY <1>1, <1>4
  <2>2. QED
    BY <2>1, CutSolid
<1> HIDE DEF w
<1>7. At(s, w) \in {close, "comma"}
  BY <1>5, Nexts DEF More
<1>8. w \in 1 .. Len(s)
  BY <1>1, <1>7, SomethingAt
<1>9. next \in p + 1 .. Len(s)
  BY <1>1, <1>4, <1>8 DEF Ahead, Fail
<1>10. w \in next .. Len(s) /\ w \in Int
  BY <1>4, <1>8, <1>9
<1>11. CASE At(s, w) = close
  <2>1. r = Parsed(w + 1, <<>>)
    BY <1>5, <1>11 DEF More
  <2>2. r.next = w + 1 /\ r.value = <<>>
    BY <2>1, Nexts
  <2>3. w \in a .. b - 1 /\ next \in p + 1 .. b - 1 /\ next \in a .. b /\ w < b
    BY <1>1, <1>9, <1>10, <2>2
  <2>4. SkipWhitespace(t, next - a + 1) = w - a + 1 /\ At(t, w - a + 1) = close
    BY <1>2, <1>6, <1>11, <2>3
  <2>5. More(t, g, w - a + 1, part, close) = Parsed((w - a + 1) + 1, <<>>)
    BY <2>4 DEF More
  <2>6. (w - a + 1) + 1 = r.next - a + 1
    BY <1>1, <1>10, <2>2
  <2>7. QED
    BY <2>2, <2>3, <2>4, <2>5, <2>6
<1>12. CASE At(s, w) = "comma"
  <2> DEFINE q == w + 1
  <2>1. r = f[q][part]
    BY <1>5, <1>12 DEF More
  <2>2. q \in p + 1 .. Len(s) + 1
    BY <1>1, <1>9, <1>10
  <2> HIDE DEF q
  <2>3. IsParsed(s, q, r)
    BY <2>1, <2>2 DEF SameRead
  <2>4. r.next \in q + 1 .. Len(s) + 1
    BY <2>3, ParsedAhead DEF Ahead
  <2>5. q \in p + 1 .. b - 1
    BY <1>1, <2>2, <2>4
  <2>6. w \in a .. b - 1 /\ next \in p + 1 .. b - 1 /\ next \in a .. b /\ w < b
    BY <1>1, <1>9, <1>10, <2>5 DEF q
  <2>7. SkipWhitespace(t, next - a + 1) = w - a + 1 /\ At(t, w - a + 1) = "comma"
    BY <1>2, <1>6, <1>12, <2>6
  <2>8. More(t, g, w - a + 1, part, close) = g[(w - a + 1) + 1][part]
    BY <2>7 DEF More
  <2>9. (w - a + 1) + 1 = q - a + 1
    BY <1>1, <1>10 DEF q
  <2>10. SameCut(r, g[(w - a + 1) + 1][part], a, b)
    BY <2>1, <2>5, <2>9, CutPart
  <2>11. g[(w - a + 1) + 1][part] = Parsed(r.next - a + 1, r.value)
    BY <2>10 DEF SameCut
  <2>12. QED
    BY <2>6, <2>7, <2>8, <2>11
<1>13. QED
  BY <1>7, <1>11, <1>12

LEMMA CutItems ==
  ASSUME NEW s, NEW t, NEW a, NEW b, IsCut(s, t, a, b), NEW p \in a .. b - 1, NEW f, NEW g,
         SameRead(s, f, f, p), SameCutBehind(f, g, p, a, b),
         NEW first \in p + 1 .. b - 1, NEW x, x = first - a + 1
  PROVE  /\ SameCut(ParseObjectNode(s, f, first), ParseObjectNode(t, g, x), a, b)
         /\ SameCut(ParseArrayNode(s, f, first), ParseArrayNode(t, g, x), a, b)
<1>1. /\ s \in Texts /\ Len(s) \in Nat /\ a \in 1 .. Len(s) + 1 /\ b \in a .. Len(s) + 1
      /\ a \in Int /\ b \in Int /\ p \in Int /\ first \in Int /\ a >= 1 /\ p >= a
  BY CutIs
<1>2. At(t, x) = At(s, first)
  <2>1. \A y \in a .. b - 1 : At(t, y - a + 1) = At(s, y)
    BY CutIs
  <2>2. first \in a .. b - 1
    BY <1>1
  <2>3. QED
    BY <2>1, <2>2
<1>3. x + 1 = (first + 1) - a + 1
  BY <1>1
<1>4. \A node : SameCut(Parsed(first + 1, node), Parsed(x + 1, node), a, b)
  BY <1>3, Nexts DEF SameCut
<1>5. ASSUME NEW part \in Parts, NEW r, r = f[first][part], NEW u, u = g[x][part],
             r.next # Fail, r.next <= b
      PROVE  /\ u.value = r.value
             /\ \A node : SameCut(Made(r, node), Made(u, node), a, b)
  <2>1. SameCut(r, u, a, b)
    BY <1>5, CutPart
  <2>2. IsParsed(s, first, r)
    <3>1. first \in p + 1 .. Len(s) + 1
      BY <1>1
    <3>2. QED
      BY <1>5, <3>1 DEF SameRead
  <2>3. r.next - a + 1 # Fail
    <3>1. r.next \in first + 1 .. Len(s) + 1
      BY <1>5, <2>2, ParsedAhead DEF Ahead
    <3>2. QED
      BY <1>1, <3>1 DEF Fail
  <2>4. u = Parsed(r.next - a + 1, r.value)
    BY <1>5, <2>1 DEF SameCut
  <2>5. QED
    BY <1>1, <2>1, <2>3, <2>4, CutJoined, Nexts
<1>6. ASSUME NEW part \in Parts, NEW r, r = f[first][part], NEW node, ~(r.next # Fail /\ r.next <= b),
             NEW y
      PROVE  SameCut(Made(r, node), y, a, b)
  BY <1>6, Nexts DEF SameCut
<1>7. SameCut(ParseObjectNode(s, f, first), ParseObjectNode(t, g, x), a, b)
  <2> DEFINE r == f[first]["members"]
             u == g[x]["members"]
  <2>1. CASE At(s, first) = "rbrace"
    BY <1>2, <1>4, <2>1 DEF ParseObjectNode
  <2>2. CASE At(s, first) # "rbrace"
    <3>1. /\ ParseObjectNode(s, f, first) = Made(r, MakeObject(r.value))
          /\ ParseObjectNode(t, g, x) = Made(u, MakeObject(u.value))
      BY <1>2, <2>2 DEF ParseObjectNode
    <3>2. SameCut(Made(r, MakeObject(r.value)), Made(u, MakeObject(u.value)), a, b)
      <4>1. CASE r.next # Fail /\ r.next <= b
        <5>1. u.value = r.value /\ \A node : SameCut(Made(r, node), Made(u, node), a, b)
          BY <1>5, <4>1 DEF Parts
        <5> HIDE DEF r, u
        <5>2. QED
          BY <5>1
      <4>2. CASE ~(r.next # Fail /\ r.next <= b)
        BY <1>6, <4>2 DEF Parts
      <4>3. QED
        BY <4>1, <4>2
    <3>3. QED
      BY <3>1, <3>2
  <2>3. QED
    BY <2>1, <2>2
<1>8. SameCut(ParseArrayNode(s, f, first), ParseArrayNode(t, g, x), a, b)
  <2> DEFINE r == f[first]["elements"]
             u == g[x]["elements"]
  <2>1. CASE At(s, first) = "rbracket"
    BY <1>2, <1>4, <2>1 DEF ParseArrayNode
  <2>2. CASE At(s, first) # "rbracket"
    <3>1. /\ ParseArrayNode(s, f, first) = Made(r, MakeArray(r.value))
          /\ ParseArrayNode(t, g, x) = Made(u, MakeArray(u.value))
      BY <1>2, <2>2 DEF ParseArrayNode
    <3>2. SameCut(Made(r, MakeArray(r.value)), Made(u, MakeArray(u.value)), a, b)
      <4>1. CASE r.next # Fail /\ r.next <= b
        <5>1. u.value = r.value /\ \A node : SameCut(Made(r, node), Made(u, node), a, b)
          BY <1>5, <4>1 DEF Parts
        <5> HIDE DEF r, u
        <5>2. QED
          BY <5>1
      <4>2. CASE ~(r.next # Fail /\ r.next <= b)
        BY <1>6, <4>2 DEF Parts
      <4>3. QED
        BY <4>1, <4>2
    <3>3. QED
      BY <3>1, <3>2
  <2>3. QED
    BY <2>1, <2>2
<1>9. QED
  BY <1>7, <1>8

LEMMA CutValue ==
  ASSUME NEW s, NEW t, NEW a, NEW b, IsCut(s, t, a, b), NEW p \in a .. b - 1, NEW f, NEW g,
         SameRead(s, f, f, p), SameCutBehind(f, g, p, a, b)
  PROVE  SameCut(ValueFrom(s, f, p), ValueFrom(t, g, p - a + 1), a, b)
<1> DEFINE w == SkipWhitespace(s, p)
           r == ValueFrom(s, f, p)
<1>1. /\ s \in Texts /\ Len(s) \in Nat /\ a \in 1 .. Len(s) + 1 /\ b \in a .. Len(s) + 1
      /\ a \in Int /\ b \in Int /\ p \in Int /\ a >= 1 /\ b <= Len(s) + 1 /\ p >= a
      /\ p \in 0 .. Len(s) + 1 /\ p \in Positions(s) /\ p \in a .. b
  BY CutIs DEF Positions
<1>2. \A x \in a .. b - 1 : At(t, x - a + 1) = At(s, x)
  BY CutIs
<1>3. SUFFICES ASSUME r.next # Fail, r.next <= b
               PROVE  ValueFrom(t, g, p - a + 1) = Parsed(r.next - a + 1, r.value)
  BY DEF SameCut
<1>4. w \in p .. Len(s) + 1 /\ SkipWhitespace(s, w) = w /\ w \in Int
  BY <1>1, Solids
<1>5. r = NodeFrom(s, f, w)
  BY DEF ValueFrom
<1>6. w <= b => SkipWhitespace(t, p - a + 1) = w - a + 1
  BY <1>1, CutSolid
<1>7. r.next > w
  <2> HIDE DEF r
  <2>1. IsParsed(s, w, r)
    <3>1. w \in Positions(s) /\ SameRead(s, f, f, w) /\ ValueFrom(s, f, w) = r
      <4> HIDE DEF w
      <4>1. w \in Positions(s) /\ SameRead(s, f, f, w)
        BY <1>1, <1>4 DEF Positions, SameRead
      <4>2. ValueFrom(s, f, w) = NodeFrom(s, f, w)
        BY <1>4 DEF ValueFrom
      <4>3. QED
        BY <1>5, <4>1, <4>2
    <3> HIDE DEF w
    <3>2. QED
      BY <1>1, <3>1, ReadValueStep
  <2>2. QED
    BY <1>1, <1>3, <1>4, <2>1, ParsedAhead DEF Ahead
<1> HIDE DEF r
<1>8. r.next \in Int /\ w \in a .. b - 1 /\ w <= b /\ w \in p .. b - 1 /\ w \in a .. b
  <2>1. IsParsed(s, p, r)
    BY <1>1, ReadValueStep DEF r
  <2>2. r.next \in p + 1 .. Len(s) + 1
    BY <1>3, <2>1, ParsedAhead DEF Ahead
  <2> HIDE DEF w
  <2>3. QED
    BY <1>1, <1>3, <1>4, <1>7, <2>2
<1> HIDE DEF w
<1>9. ValueFrom(t, g, p - a + 1) = NodeFrom(t, g, w - a + 1) /\ At(t, w - a + 1) = At(s, w)
  BY <1>2, <1>6, <1>8 DEF ValueFrom
<1>10. SameRead(s, f, f, w) /\ SameCutBehind(f, g, w, a, b)
  BY <1>1, <1>8 DEF SameRead, SameCutBehind
<1>11. SameCut(NodeFrom(s, f, w), NodeFrom(t, g, w - a + 1), a, b)
  <2>1. CASE At(s, w) \in {"lbrace", "lbracket"}
    <3> DEFINE first == SkipWhitespace(s, w + 1)
    <3>1. w + 1 \in 0 .. Len(s) + 1 /\ w + 1 \in a .. b /\ w \in Positions(s)
      BY <1>1, <1>8 DEF Positions
    <3>2. first \in w + 1 .. Len(s) + 1
      BY <1>1, <3>1, Solids
    <3>3. first <= b => SkipWhitespace(t, (w + 1) - a + 1) = first - a + 1
      BY <3>1, CutSolid
    <3>4. (w - a + 1) + 1 = (w + 1) - a + 1
      BY <1>1, <1>8
    <3> HIDE DEF first
    <3>5. first < r.next
      <4>1. CASE At(s, w) = "lbrace"
        <5>1. r = ParseObjectNode(s, f, first)
          BY <1>5, <4>1 DEF NodeFrom, first, Booleans
        <5>2. first \in Positions(s) /\ first + 1 \in Int
          BY <1>1, <1>8, <3>2 DEF Positions
        <5>3. CASE At(s, first) = "rbrace"
          <6>1. r.next = first + 1
            BY <5>1, <5>3, Nexts DEF ParseObjectNode
          <6>2. QED
            BY <5>2, <6>1, <1>8, <3>2
        <5>4. CASE At(s, first) # "rbrace"
          <6>1. r.next = f[first]["members"].next
            BY <5>1, <5>4, Nexts DEF ParseObjectNode
          <6>2. IsParsed(s, first, f[first]["members"])
            BY <1>10, <3>2 DEF SameRead, Parts
          <6>3. r.next \in first + 1 .. Len(s) + 1
            BY <1>3, <6>1, <6>2, ParsedAhead DEF Ahead
          <6>4. QED
            BY <1>8, <3>2, <6>3
        <5>5. QED
          BY <5>3, <5>4
      <4>2. CASE At(s, w) = "lbracket"
        <5>1. r = ParseArrayNode(s, f, first)
          BY <1>5, <4>2 DEF NodeFrom, first, Booleans
        <5>2. first \in Positions(s) /\ first + 1 \in Int
          BY <1>1, <1>8, <3>2 DEF Positions
        <5>3. CASE At(s, first) = "rbracket"
          <6>1. r.next = first + 1
            BY <5>1, <5>3, Nexts DEF ParseArrayNode
          <6>2. QED
            BY <5>2, <6>1, <1>8, <3>2
        <5>4. CASE At(s, first) # "rbracket"
          <6>1. r.next = f[first]["elements"].next
            BY <5>1, <5>4, Nexts DEF ParseArrayNode
          <6>2. IsParsed(s, first, f[first]["elements"])
            BY <1>10, <3>2 DEF SameRead, Parts
          <6>3. r.next \in first + 1 .. Len(s) + 1
            BY <1>3, <6>1, <6>2, ParsedAhead DEF Ahead
          <6>4. QED
            BY <1>8, <3>2, <6>3
        <5>5. QED
          BY <5>3, <5>4
      <4>3. QED
        BY <2>1, <4>1, <4>2
    <3>6. first \in w + 1 .. b - 1 /\ first <= b
      BY <1>1, <1>3, <1>8, <3>2, <3>5
    <3> DEFINE x == first - a + 1
    <3>7. /\ SameCut(ParseObjectNode(s, f, first), ParseObjectNode(t, g, x), a, b)
          /\ SameCut(ParseArrayNode(s, f, first), ParseArrayNode(t, g, x), a, b)
      BY <1>8, <1>10, <3>6, CutItems
    <3>8. SkipWhitespace(t, (w - a + 1) + 1) = x
      BY <3>3, <3>4, <3>6
    <3>9. CASE At(s, w) = "lbrace"
      <4>1. /\ NodeFrom(s, f, w) = ParseObjectNode(s, f, first)
            /\ NodeFrom(t, g, w - a + 1) = ParseObjectNode(t, g, x)
        BY <1>9, <3>8, <3>9 DEF NodeFrom, first, Booleans
      <4>2. QED
        BY <3>7, <4>1
    <3>10. CASE At(s, w) = "lbracket"
      <4>1. /\ NodeFrom(s, f, w) = ParseArrayNode(s, f, first)
            /\ NodeFrom(t, g, w - a + 1) = ParseArrayNode(t, g, x)
        BY <1>9, <3>8, <3>10 DEF NodeFrom, first, Booleans
      <4>2. QED
        BY <3>7, <4>1
    <3>11. QED
      BY <2>1, <3>9, <3>10
  <2>2. CASE At(s, w) = "end"
    <3>1. NodeFrom(s, f, w) = NotParsed
      BY <2>2 DEF NodeFrom, Booleans
    <3>2. QED
      BY <3>1, Nexts DEF SameCut
  <2> DEFINE x == w - a + 1
  <2>3. ASSUME NEW z, NEW u, NEW k, NEW l, IsParsed(s, w, z), SameCut(z, u, a, b),
               z.next # Fail /\ z.next <= b => (u.value = z.value => l = k)
        PROVE  SameCut(Made(z, k), Made(u, l), a, b)
    <3>1. CASE z.next # Fail /\ z.next <= b
      <4>1. u = Parsed(z.next - a + 1, z.value)
        BY <2>3, <3>1 DEF SameCut
      <4>2. l = k
        BY <2>3, <3>1, <4>1, Nexts
      <4>3. z.next - a + 1 # Fail
        <5>1. z.next \in w + 1 .. Len(s) + 1
          BY <2>3, <3>1, ParsedAhead DEF Ahead
        <5>2. QED
          BY <1>1, <1>8, <5>1 DEF Fail
      <4>4. QED
        BY <1>1, <2>3, <4>2, <4>3, CutJoined
    <3>2. CASE ~(z.next # Fail /\ z.next <= b)
      BY <3>2, Nexts DEF SameCut
    <3>3. QED
      BY <3>1, <3>2
  <2>4. /\ IsParsed(s, w, ParseString(s, w)) /\ IsParsed(s, w, ParseNumber(s, w))
        /\ IsParsed(s, w, ParseBool(s, w)) /\ IsParsed(s, w, ParseNull(s, w))
    <3>1. w \in 0 .. Len(s) + 1
      BY <1>1, <1>8
    <3>2. QED
      BY <1>1, <1>4, <3>1, ScalarsAhead
  <2>5. /\ SameCut(ParseString(s, w), ParseString(t, x), a, b)
        /\ SameCut(ParseNumber(s, w), ParseNumber(t, x), a, b)
        /\ SameCut(ParseBool(s, w), ParseBool(t, x), a, b)
        /\ SameCut(ParseNull(s, w), ParseNull(t, x), a, b)
    BY <1>8, CutString, CutNumber, CutWords
  <2> HIDE DEF x
  <2>6. CASE At(s, w) = "quote"
    <3>1. /\ NodeFrom(s, f, w) = Made(ParseString(s, w), MakeString(ParseString(s, w).value))
          /\ NodeFrom(t, g, x) = Made(ParseString(t, x), MakeString(ParseString(t, x).value))
      BY <1>9, <2>6 DEF NodeFrom, Booleans, x
    <3>2. QED
      BY <2>3, <2>4, <2>5, <3>1 DEF x
  <2>7. CASE At(s, w) \in Booleans
    <3>1. /\ NodeFrom(s, f, w) = Made(ParseBool(s, w), MakeBoolean(ParseBool(s, w).value))
          /\ NodeFrom(t, g, x) = Made(ParseBool(t, x), MakeBoolean(ParseBool(t, x).value))
      BY <1>9, <2>7 DEF NodeFrom, Booleans, x
    <3>2. QED
      BY <2>3, <2>4, <2>5, <3>1 DEF x
  <2>8. CASE At(s, w) \in {"null", "n"}
    <3>1. /\ NodeFrom(s, f, w) = Made(ParseNull(s, w), MakeNull)
          /\ NodeFrom(t, g, x) = Made(ParseNull(t, x), MakeNull)
      BY <1>9, <2>8 DEF NodeFrom, Booleans, x
    <3>2. QED
      BY <2>3, <2>4, <2>5, <3>1 DEF x
  <2>9. CASE At(s, w) \notin {"lbrace", "lbracket", "end", "quote", "null", "n"} \cup Booleans
    <3>1. /\ NodeFrom(s, f, w) = Made(ParseNumber(s, w), MakeNumber(ParseNumber(s, w).value))
          /\ NodeFrom(t, g, x) = Made(ParseNumber(t, x), MakeNumber(ParseNumber(t, x).value))
      BY <1>9, <2>9 DEF NodeFrom, Booleans, x
    <3>2. QED
      BY <2>3, <2>4, <2>5, <3>1 DEF x
  <2>10. QED
    BY <2>1, <2>2, <2>6, <2>7, <2>8, <2>9
<1>12. QED
  BY <1>3, <1>5, <1>9, <1>11 DEF SameCut

LEMMA CutMembers ==
  ASSUME NEW s, NEW t, NEW a, NEW b, IsCut(s, t, a, b), NEW p \in a .. b - 1, NEW f, NEW g,
         SameRead(s, f, f, p), SameCutBehind(f, g, p, a, b)
  PROVE  SameCut(MembersFrom(s, f, p), MembersFrom(t, g, p - a + 1), a, b)
<1> DEFINE name  == ParseString(s, p)
           colon == After(s, name.next, "colon")
           value == ReadPart(f, colon, "value")
           more  == More(s, f, SkipWhitespace(s, value.next), "members", "rbrace")
           item  == <<name.value, value.value>>
           r     == MembersFrom(s, f, p)
           x     == p - a + 1
<1>1. /\ s \in Texts /\ Len(s) \in Nat /\ a \in 1 .. Len(s) + 1 /\ b \in a .. Len(s) + 1
      /\ a \in Int /\ b \in Int /\ p \in Int /\ a >= 1 /\ b <= Len(s) + 1 /\ p >= a
      /\ p \in 0 .. Len(s) + 1 /\ p \in Positions(s) /\ p \in a .. b
  BY CutIs DEF Positions
<1>2. SUFFICES ASSUME r.next # Fail, r.next <= b
               PROVE  MembersFrom(t, g, x) = Parsed(r.next - a + 1, r.value)
  BY DEF SameCut
<1>3. r = Joined(item, more)
  BY DEF MembersFrom, MemberFrom, WithMember
<1>4. r.next = more.next
  <2> HIDE DEF item, more, r
  <2>1. QED
    BY <1>3, Nexts
<1>5. Ahead(s, p, colon)
  BY <1>1, ColonIs
<1>6. Ahead(s, p, value.next) /\ (colon # Fail => IsParsed(s, colon, value))
  <2> HIDE DEF colon
  <2>1. CASE colon = Fail
    BY <2>1, Nexts DEF ReadPart, Ahead
  <2>2. CASE colon # Fail
    <3>1. colon \in p + 1 .. Len(s) + 1 /\ colon \in p .. Len(s) + 1
      BY <1>1, <1>5, <2>2 DEF Ahead
    <3>2. IsParsed(s, colon, f[colon]["value"])
      BY <3>1 DEF SameRead, Parts
    <3>3. value = f[colon]["value"]
      BY <2>2 DEF ReadPart
    <3> HIDE DEF value
    <3>4. QED
      BY <1>1, <3>1, <3>2, <3>3, ParsedAhead, AheadFurther
  <2>3. QED
    BY <2>1, <2>2
<1>7. value.next = Fail \/ colon # Fail
  <2> HIDE DEF colon
  <2>1. QED
    BY Nexts DEF ReadPart
<1>8. colon # Fail => name.next # Fail
  <2> HIDE DEF name
  <2>1. Fail \in 0 .. Len(s) + 1
    BY <1>1 DEF Fail
  <2>2. QED
    BY <1>1, <2>1, AfterIs
<1>9. name.next # Fail => name.next \in p + 1 .. Len(s) + 1
  <2> HIDE DEF name
  <2>1. IsParsed(s, SkipWhitespace(s, p), name) /\ SkipWhitespace(s, p) \in p .. Len(s) + 1
    BY <1>1, ScalarsAhead, Solids DEF name
  <2>2. QED
    BY <1>1, <2>1, ParsedAhead DEF Ahead
<1>10. SameCut(name, ParseString(t, x), a, b)
  BY <1>1, CutString
<1>11. value = f[colon]["value"] \/ colon = Fail
  BY DEF ReadPart
<1> HIDE DEF value, r
<1>12. /\ value.next \in p + 1 .. b - 1
       /\ More(t, g, SkipWhitespace(t, value.next - a + 1), "members", "rbrace")
             = Parsed(more.next - a + 1, more.value)
  BY <1>1, <1>2, <1>4, <1>6, CutMore DEF Parts
<1> HIDE DEF more
<1>13. value.next # Fail /\ colon # Fail
  BY <1>1, <1>7, <1>12 DEF Fail
<1>14. Ahead(s, name.next, colon)
  <2> HIDE DEF name
  <2>1. name.next \in 0 .. Len(s) + 1
    BY <1>1, <1>8, <1>9, <1>13
  <2>2. QED
    BY <1>1, <2>1, AfterIs
<1> HIDE DEF name
<1>15. colon \in p + 1 .. b - 1 /\ colon \in name.next + 1 .. Len(s) + 1 /\ colon <= b
  <2> HIDE DEF colon
  <2>1. colon \in p + 1 .. Len(s) + 1 /\ colon \in name.next + 1 .. Len(s) + 1
    BY <1>5, <1>13, <1>14 DEF Ahead
  <2>2. value.next \in colon + 1 .. Len(s) + 1
    BY <1>6, <1>13, ParsedAhead DEF Ahead
  <2>3. QED
    BY <1>1, <1>12, <2>1, <2>2
<1>16. name.next \in p + 1 .. b - 1 /\ name.next \in a .. b /\ name.next # Fail /\ name.next <= b
  <2> HIDE DEF colon
  <2>1. name.next # Fail
    BY <1>8, <1>13
  <2>2. QED
    BY <1>1, <1>9, <1>15, <2>1
<1>17. ParseString(t, x) = Parsed(name.next - a + 1, name.value)
  BY <1>10, <1>16 DEF SameCut
<1>18. After(t, name.next - a + 1, "colon") = colon - a + 1
  BY <1>13, <1>15, <1>16, CutAfter
<1> HIDE DEF colon
<1>19. colon - a + 1 # Fail
  BY <1>1, <1>15 DEF Fail
<1>20. SameCut(value, g[colon - a + 1]["value"], a, b)
  BY <1>11, <1>13, <1>15, CutPart DEF Parts
<1>21. value.next <= b
  BY <1>1, <1>12
<1>22. g[colon - a + 1]["value"] = Parsed(value.next - a + 1, value.value)
  BY <1>13, <1>20, <1>21 DEF SameCut
<1> HIDE DEF x, item
<1>23. MembersFrom(t, g, x) = Joined(item, Parsed(more.next - a + 1, more.value))
  <2> DEFINE key == ParseString(t, x)
             val == ReadPart(g, After(t, key.next, "colon"), "value")
  <2>1. MembersFrom(t, g, x)
          = Joined(<<key.value, val.value>>,
                   More(t, g, SkipWhitespace(t, val.next), "members", "rbrace"))
    BY DEF MembersFrom, MemberFrom, WithMember
  <2>2. key.next = name.next - a + 1 /\ key.value = name.value
    BY <1>17, Nexts
  <2> HIDE DEF key
  <2>3. val = Parsed(value.next - a + 1, value.value)
    BY <1>18, <1>19, <1>22, <2>2 DEF ReadPart
  <2> HIDE DEF val
  <2>4. val.next = value.next - a + 1 /\ val.value = value.value
    BY <2>3, Nexts
  <2>5. QED
    BY <1>12, <2>1, <2>2, <2>4 DEF item
<1>24. more.next - a + 1 # Fail
  <2>1. IsParsed(s, p, r)
    BY <1>1, ReadMembersStep DEF r
  <2>2. r.next \in p + 1 .. Len(s) + 1
    BY <1>2, <2>1, ParsedAhead DEF Ahead
  <2>3. QED
    BY <1>1, <1>4, <2>2 DEF Fail
<1>25. MembersFrom(t, g, x) = Parsed(more.next - a + 1, <<item>> \o more.value)
  BY <1>23, <1>24, JoinedParsed
<1>26. r.value = <<item>> \o more.value
  <2>1. r = Parsed(more.next, <<item>> \o more.value)
    BY <1>2, <1>3, <1>4 DEF Joined
  <2>2. QED
    BY <2>1, Nexts
<1>27. QED
  BY <1>4, <1>25, <1>26

LEMMA CutElements ==
  ASSUME NEW s, NEW t, NEW a, NEW b, IsCut(s, t, a, b), NEW p \in a .. b - 1, NEW f, NEW g,
         SameRead(s, f, f, p), SameCutBehind(f, g, p, a, b)
  PROVE  SameCut(ElementsFrom(s, f, p), ElementsFrom(t, g, p - a + 1), a, b)
<1> DEFINE value == ValueFrom(s, f, p)
           more  == More(s, f, SkipWhitespace(s, value.next), "elements", "rbracket")
           r     == ElementsFrom(s, f, p)
           x     == p - a + 1
<1>1. /\ s \in Texts /\ Len(s) \in Nat /\ a \in 1 .. Len(s) + 1 /\ b \in a .. Len(s) + 1
      /\ a \in Int /\ b \in Int /\ p \in Int /\ a >= 1 /\ b <= Len(s) + 1 /\ p >= a
      /\ p \in 0 .. Len(s) + 1 /\ p \in Positions(s) /\ p \in a .. b
  BY CutIs DEF Positions
<1>2. SUFFICES ASSUME r.next # Fail, r.next <= b
               PROVE  ElementsFrom(t, g, x) = Parsed(r.next - a + 1, r.value)
  BY DEF SameCut
<1>3. r = Joined(value.value, more)
  BY DEF ElementsFrom, WithElement
<1>4. r.next = more.next
  <2> HIDE DEF value, more, r
  <2>1. QED
    BY <1>3, Nexts
<1>5. Ahead(s, p, value.next)
  <2> HIDE DEF value
  <2>1. IsParsed(s, p, value)
    BY <1>1, ReadValueStep DEF value
  <2>2. QED
    BY <2>1, ParsedAhead
<1>6. SameCut(value, ValueFrom(t, g, x), a, b)
  BY CutValue
<1> HIDE DEF value, r
<1>7. /\ value.next \in p + 1 .. b - 1
      /\ More(t, g, SkipWhitespace(t, value.next - a + 1), "elements", "rbracket")
            = Parsed(more.next - a + 1, more.value)
  BY <1>1, <1>2, <1>4, <1>5, CutMore DEF Parts
<1> HIDE DEF more
<1>8. value.next # Fail /\ value.next <= b
  BY <1>1, <1>7 DEF Fail
<1>9. ValueFrom(t, g, x) = Parsed(value.next - a + 1, value.value)
  BY <1>6, <1>8 DEF SameCut
<1> HIDE DEF x
<1>10. ElementsFrom(t, g, x) = Joined(value.value, Parsed(more.next - a + 1, more.value))
  BY <1>7, <1>9, Nexts DEF ElementsFrom, WithElement
<1>11. more.next - a + 1 # Fail
  <2>1. IsParsed(s, p, r)
    BY <1>1, ReadElementsStep DEF r
  <2>2. r.next \in p + 1 .. Len(s) + 1
    BY <1>2, <2>1, ParsedAhead DEF Ahead
  <2>3. QED
    BY <1>1, <1>4, <2>2 DEF Fail
<1>12. ElementsFrom(t, g, x) = Parsed(more.next - a + 1, <<value.value>> \o more.value)
  BY <1>10, <1>11, JoinedParsed
<1>13. r.value = <<value.value>> \o more.value
  <2>1. r = Parsed(more.next, <<value.value>> \o more.value)
    BY <1>2, <1>3, <1>4 DEF Joined
  <2>2. QED
    BY <2>1, Nexts
<1>14. QED
  BY <1>4, <1>12, <1>13

LEMMA CutRead ==
  ASSUME NEW s, NEW t, NEW a, NEW b, IsCut(s, t, a, b)
  PROVE  \A p \in a .. b - 1 : \A part \in Parts :
            SameCut(Read(s)[p][part], Read(t)[p - a + 1][part], a, b)
<1> DEFINE n == Len(s) + 1
           f == Read(s)
           g == Read(t)
           P == {p \in 1 .. n : p \in a .. b - 1 =>
                    \A part \in Parts : SameCut(f[p][part], g[p - a + 1][part], a, b)}
<1>1. /\ s \in Texts /\ t \in Texts /\ Len(t) = b - a /\ Len(s) \in Nat /\ n \in Nat
      /\ a \in 1 .. Len(s) + 1 /\ b \in a .. Len(s) + 1
  BY CutIs
<1>2. \A p \in Positions(s) : f[p] = [part \in Parts |-> PartFrom(s, f, p, part)]
  BY <1>1, ReadIs
<1>3. \A p \in Positions(s) : \A part \in Parts : IsParsed(s, p, f[p][part])
  BY <1>1, ReadIs
<1>4. \A p \in Positions(t) : g[p] = [part \in Parts |-> PartFrom(t, g, p, part)]
  BY <1>1, ReadIs
<1> HIDE DEF f, g
<1>5. ASSUME NEW p \in 1 .. n, p \in a .. b - 1, NEW part \in Parts,
             \A q \in p + 1 .. n : q \in a .. b - 1 =>
                \A x \in Parts : SameCut(f[q][x], g[q - a + 1][x], a, b)
      PROVE  SameCut(f[p][part], g[p - a + 1][part], a, b)
  <2>1. p \in Positions(s) /\ p - a + 1 \in Positions(t)
    BY <1>1, <1>5 DEF Positions
  <2>2. f[p] = [y \in Parts |-> PartFrom(s, f, p, y)]
    BY <1>2, <2>1
  <2>3. g[p - a + 1] = [y \in Parts |-> PartFrom(t, g, p - a + 1, y)]
    BY <1>4, <2>1
  <2>4. f[p][part] = PartFrom(s, f, p, part) /\ g[p - a + 1][part] = PartFrom(t, g, p - a + 1, part)
    BY <2>2, <2>3
  <2>5. SameRead(s, f, f, p)
    BY <1>1, <1>3, <1>5 DEF SameRead, Positions
  <2>6. SameCutBehind(f, g, p, a, b)
    <3>1. \A q \in p + 1 .. b - 1 : q \in p + 1 .. n /\ q \in a .. b - 1
      BY <1>1, <1>5
    <3>2. QED
      BY <1>5, <3>1 DEF SameCutBehind
  <2>7. /\ SameCut(ValueFrom(s, f, p), ValueFrom(t, g, p - a + 1), a, b)
        /\ SameCut(MembersFrom(s, f, p), MembersFrom(t, g, p - a + 1), a, b)
        /\ SameCut(ElementsFrom(s, f, p), ElementsFrom(t, g, p - a + 1), a, b)
    BY <1>5, <2>5, <2>6, CutValue, CutMembers, CutElements
  <2>8. QED
    BY <2>4, <2>7 DEF PartFrom, Parts
<1>6. ASSUME NEW p \in 1 .. n, \A q \in p + 1 .. n : q \in P
      PROVE  p \in P
  <2>1. \A q \in p + 1 .. n : q \in a .. b - 1 =>
           \A x \in Parts : SameCut(f[q][x], g[q - a + 1][x], a, b)
    BY <1>6
  <2>2. p \in a .. b - 1 => \A part \in Parts : SameCut(f[p][part], g[p - a + 1][part], a, b)
    BY <1>5, <2>1
  <2>3. QED
    BY <2>2
<1> HIDE DEF P
<1>7. 1 .. n \subseteq P
  BY <1>1, <1>6, Backwards
<1>8. \A p \in a .. b - 1 : p \in 1 .. n
  BY <1>1
<1>9. QED
  BY <1>7, <1>8 DEF P, f, g

\* The text of a value is read as that value, to its end.
LEMMA ValueTextIs ==
  ASSUME NEW s \in Texts, NEW pos \in Positions(s), SkipValue(s, pos) # Fail
  PROVE  LET t == ValueText(s, pos) IN
         t \in Texts /\ ParseNodeValue(t, 1) = Parsed(Len(t) + 1, ParseNodeValue(s, pos).value)
<1> DEFINE q == SkipValue(s, pos)
           t == SubSeq(s, pos, q - 1)
           r == ParseNodeValue(s, pos)
<1>1. pos \in 0 .. Len(s) + 1 /\ pos \in 1 .. Len(s) + 1 /\ Len(s) \in Nat
  BY DEF Positions, Texts
<1>2. q = r.next /\ q \in pos + 1 .. Len(s) + 1
  BY <1>1, WalkEnds DEF Ahead
<1>3. r = Read(s)[pos]["value"]
  BY <1>1 DEF ParseNodeValue, ReadPart, Fail
<1>4. ValueText(s, pos) = t
  BY DEF ValueText, Part
<1> HIDE DEF q
<1>5. IsCut(s, t, pos, q)
  BY <1>1, <1>2 DEF IsCut
<1>6. t \in Texts /\ Len(t) = q - pos
  BY <1>5, CutIs
<1> HIDE DEF t, r
<1>7. pos \in pos .. q - 1 /\ pos - pos + 1 = 1
  BY <1>1, <1>2
<1>8. SameCut(r, Read(t)[1]["value"], pos, q)
  BY <1>3, <1>5, <1>7, CutRead DEF Parts
<1>9. r.next # Fail /\ r.next <= q /\ r.next - pos + 1 = Len(t) + 1
  BY <1>1, <1>2, <1>6 DEF Fail
<1>10. Read(t)[1]["value"] = Parsed(r.next - pos + 1, r.value)
  BY <1>8, <1>9 DEF SameCut
<1>11. ParseNodeValue(t, 1) = Read(t)[1]["value"]
  BY DEF ParseNodeValue, ReadPart, Fail
<1>12. QED
  BY <1>4, <1>6, <1>9, <1>10, <1>11 DEF r

-----------------------------------------------------------------------------
(* The search for a key, and the count, as recursions.                     *)

\* A recursion over positions that looks only further on has a solution.
LooksAhead(n, V, F) ==
    /\ F \in [[1 .. n -> V] -> [1 .. n -> V]]
    /\ \A f, g \in [1 .. n -> V] : \A p \in 1 .. n :
        (\A q \in p + 1 .. n : f[q] = g[q]) => F[f][p] = F[g][p]

LEMMA Descending ==
  ASSUME NEW n \in Nat, NEW V, NEW v \in V, NEW F, LooksAhead(n, V, F)
  PROVE  \E f \in [1 .. n -> V] : f = F[f]
<1> DEFINE T == {m \in 1 .. n + 1 : \E f \in [1 .. n -> V] : \A p \in m .. n : f[p] = F[f][p]}
<1>1. n + 1 \in T
  <2>1. [p \in 1 .. n |-> v] \in [1 .. n -> V] /\ n + 1 \in 1 .. n + 1
    OBVIOUS
  <2>2. \A f : \A p \in n + 1 .. n : f[p] = F[f][p]
    OBVIOUS
  <2>3. QED
    BY <2>1, <2>2
<1>2. ASSUME NEW m \in T, m # 1 PROVE m - 1 \in T
  <2>1. m \in 1 .. n + 1 /\ m - 1 \in 1 .. n + 1
    BY <1>2
  <2>2. PICK f \in [1 .. n -> V] : \A p \in m .. n : f[p] = F[f][p]
    OBVIOUS
  <2>3. F[f] \in [1 .. n -> V]
    BY <2>2 DEF LooksAhead
  <2>4. \A p \in m - 1 .. n : p \in 1 .. n /\ \A q \in p + 1 .. n : q \in m .. n
    BY <2>1
  <2>5. \A p \in m - 1 .. n : F[f][p] = F[F[f]][p]
    BY <2>2, <2>3, <2>4 DEF LooksAhead
  <2>6. QED
    BY <2>1, <2>3, <2>5
<1>3. 1 \in T
  <2>1. T \in SUBSET Nat /\ T # {}
    <3>1. \A m \in T : m \in 1 .. n + 1
      OBVIOUS
    <3> HIDE DEF T
    <3>2. QED
      BY <1>1, <3>1
  <2>2. PICK m \in T : \A k \in T : m <= k
    BY <2>1, LeastOf
  <2>3. m \in Nat
    BY <2>1
  <2> HIDE DEF T
  <2>4. ~(m <= m - 1)
    BY <2>3
  <2>5. QED
    BY <1>2, <2>2, <2>4
<1>4. PICK f \in [1 .. n -> V] : \A p \in 1 .. n : f[p] = F[f][p]
  BY <1>3
<1>5. f = F[f]
  BY <1>4 DEF LooksAhead
<1>6. QED
  BY <1>5

\* Behind a value stands the next one, further on.
LEMMA NextItemAhead ==
  ASSUME NEW s \in Texts, NEW pos \in 0 .. Len(s) + 1
  PROVE  Ahead(s, pos, NextItem(s, pos)) /\ (SkipValue(s, pos) = Fail => NextItem(s, pos) = Fail)
<1> DEFINE q == SkipValue(s, pos)
           w == SkipWhitespace(s, q)
<1>1. Ahead(s, pos, q) /\ Len(s) \in Nat /\ At(s, Fail) = "end"
  BY WalkEnds DEF Texts, At, Fail
<1> HIDE DEF q
<1>2. q \in 0 .. Len(s) + 1
  BY <1>1 DEF Ahead, Fail
<1>3. w \in q .. Len(s) + 1 /\ (q = Fail => w = Fail)
  BY <1>2, Solids
<1>4. NextItem(s, pos) = PastComma(s, w)
  BY DEF NextItem, q
<1> HIDE DEF w
<1>5. CASE q = Fail
  BY <1>1, <1>3, <1>4, <1>5 DEF PastComma, Ahead, q
<1>6. CASE q # Fail
  <2>1. q \in pos + 1 .. Len(s) + 1
    BY <1>1, <1>6 DEF Ahead
  <2>2. At(s, w) = "comma" => w \in 1 .. Len(s)
    BY SomethingAt
  <2>3. w \in pos + 1 .. Len(s) + 1 /\ (At(s, w) = "comma" => w + 1 \in pos + 1 .. Len(s) + 1)
    BY <1>1, <1>3, <2>1, <2>2
  <2>4. QED
    BY <1>4, <1>6, <2>3 DEF PastComma, Ahead, q
<1>7. QED
  BY <1>5, <1>6

\* Behind a name and its colon the value starts.
LEMMA MemberValueAhead ==
  ASSUME NEW s \in Texts, NEW pos \in Positions(s)
  PROVE  LET v == MemberValue(s, ParseString(s, pos)) IN
         Ahead(s, pos, v) /\ SkipWhitespace(s, v) = v /\ v \in 0 .. Len(s) + 1
<1> DEFINE colon == After(s, ParseString(s, pos).next, "colon")
           v == SkipWhitespace(s, colon)
<1>1. Ahead(s, pos, colon) /\ Len(s) \in Nat /\ pos \in 1 .. Len(s) + 1
  BY ColonIs DEF Texts, Positions
<1>2. MemberValue(s, ParseString(s, pos)) = v
  BY DEF MemberValue
<1> HIDE DEF colon
<1>3. colon \in 0 .. Len(s) + 1
  BY <1>1 DEF Ahead, Fail
<1>4. v \in colon .. Len(s) + 1 /\ (colon = Fail => v = Fail) /\ SkipWhitespace(s, v) = v
  BY <1>3, Solids
<1> HIDE DEF v
<1>5. QED
  BY <1>1, <1>2, <1>3, <1>4 DEF Ahead, Fail

\* The search looks at one member and goes on behind it.
LEMMA FindKeyFromIs ==
  ASSUME NEW s \in Texts, NEW pos \in Positions(s), NEW key
  PROVE  LET name  == ParseString(s, pos)
             value == MemberValue(s, name)
         IN  /\ value = Fail => FindKeyFrom(s, pos, key) = Fail
             /\ value # Fail /\ name.value = key => FindKeyFrom(s, pos, key) = value
             /\ value # Fail /\ name.value # key
                   => FindKeyFrom(s, pos, key) = FindKeyFrom(s, NextItem(s, value), key)
<1> DEFINE n == Len(s) + 1
           V == 0 .. n
           At1(f, p) == FindAt(s, f, ParseString(s, p), key)
           F == [f \in [1 .. n -> V] |-> [p \in 1 .. n |-> At1(f, p)]]
           Val(p) == MemberValue(s, ParseString(s, p))
<1>1. n \in Nat /\ Positions(s) = 1 .. n /\ Fail \in V
  BY DEF Texts, Positions, Fail
<1>2. \A p \in 1 .. n : Ahead(s, p, Val(p)) /\ Val(p) \in V
  BY <1>1, MemberValueAhead
<1>3. \A f, p : /\ Val(p) = Fail => At1(f, p) = Fail
                /\ Val(p) # Fail /\ ParseString(s, p).value = key => At1(f, p) = Val(p)
                /\ Val(p) # Fail /\ ParseString(s, p).value # key
                      => At1(f, p) = FindPart(f, NextItem(s, Val(p)))
  BY DEF FindAt, ThisOrNext
<1> HIDE DEF At1, Val
<1>4. \A p \in 1 .. n : Val(p) # Fail => Ahead(s, p, NextItem(s, Val(p)))
  <2> TAKE p \in 1 .. n
  <2> HAVE Val(p) # Fail
  <2>1. Ahead(s, Val(p), NextItem(s, Val(p)))
    BY <1>1, <1>2, NextItemAhead
  <2>2. QED
    BY <1>1, <1>2, <2>1 DEF Ahead, Fail
<1>5. ASSUME NEW f \in [1 .. n -> V], NEW p \in 1 .. n
      PROVE  At1(f, p) \in V
  <2>1. Val(p) # Fail => FindPart(f, NextItem(s, Val(p))) \in V
    <3>1. Val(p) # Fail => NextItem(s, Val(p)) = Fail \/ NextItem(s, Val(p)) \in 1 .. n
      BY <1>1, <1>4 DEF Ahead
    <3>2. QED
      BY <1>1, <1>5, <3>1 DEF FindPart
  <2>2. QED
    BY <1>1, <1>2, <1>3, <2>1
<1>6. F \in [[1 .. n -> V] -> [1 .. n -> V]]
  BY <1>5
<1>7. ASSUME NEW f \in [1 .. n -> V], NEW g \in [1 .. n -> V], NEW p \in 1 .. n,
             \A q \in p + 1 .. n : f[q] = g[q]
      PROVE  F[f][p] = F[g][p]
  <2>1. Val(p) # Fail => FindPart(f, NextItem(s, Val(p))) = FindPart(g, NextItem(s, Val(p)))
    BY <1>4, <1>7 DEF FindPart, Ahead
  <2>2. At1(f, p) = At1(g, p)
    BY <1>3, <2>1
  <2>3. QED
    BY <1>7, <2>2
<1>8. PICK f \in [1 .. n -> V] : f = F[f]
  <2>1. LooksAhead(n, V, F)
    BY <1>6, <1>7 DEF LooksAhead
  <2> HIDE DEF F, n, V
  <2>2. QED
    BY <1>1, <2>1, Descending
<1>9. f = [p \in Positions(s) |-> FindAt(s, f, ParseString(s, p), key)]
  BY <1>1, <1>8 DEF At1
<1> DEFINE find == CHOOSE h : h = [p \in Positions(s) |-> FindAt(s, h, ParseString(s, p), key)]
<1>10. find = [p \in Positions(s) |-> FindAt(s, find, ParseString(s, p), key)]
  BY <1>9
<1>11. \A from : FindKeyFrom(s, from, key) = FindPart(find, from)
  BY DEF FindKeyFrom
<1> HIDE DEF find, F
<1>12. find[pos] = At1(find, pos)
  BY <1>10 DEF At1
<1>13. FindKeyFrom(s, pos, key) = At1(find, pos)
  BY <1>1, <1>11, <1>12 DEF FindPart, Fail
<1>14. QED
  BY <1>3, <1>11, <1>13 DEF Val

\* Behind a failure nothing is found.
LEMMA FindNothing ==
  ASSUME NEW s, NEW key
  PROVE  FindKeyFrom(s, Fail, key) = Fail
BY DEF FindKeyFrom, FindPart

\* The count goes from element to element.
LEMMA CountFromIs ==
  ASSUME NEW s \in Texts, NEW pos \in Positions(s)
  PROVE  LET w == SkipWhitespace(s, SkipValue(s, pos)) IN
         pos <= Len(s) =>
            /\ At(s, w) = "rbracket" => CountFrom(s, pos) = 1
            /\ At(s, w) = "comma" => CountFrom(s, pos) = OneMore(CountFrom(s, w + 1))
<1> DEFINE n == Len(s) + 1
           V == Int
           At1(f, p) == CountAt(s, f, p)
           F == [f \in [1 .. n -> V] |-> [p \in 1 .. n |-> At1(f, p)]]
           W(p) == SkipWhitespace(s, SkipValue(s, p))
<1>1. n \in Nat /\ Positions(s) = 1 .. n /\ Len(s) \in Nat
  BY DEF Texts, Positions
<1>2. \A f, p : /\ p > Len(s) => At1(f, p) = 0
                /\ ~(p > Len(s)) /\ At(s, W(p)) = "rbracket" => At1(f, p) = 1
                /\ ~(p > Len(s)) /\ At(s, W(p)) = "comma" => At1(f, p) = OneMore(f[W(p) + 1])
                /\ ~(p > Len(s)) /\ At(s, W(p)) \notin {"rbracket", "comma"} => At1(f, p) = -1
  BY DEF CountAt, CountRest
<1>3. \A p \in 1 .. n : At(s, W(p)) = "comma" => W(p) + 1 \in p + 1 .. n
  <2> TAKE p \in 1 .. n
  <2> HAVE At(s, W(p)) = "comma"
  <2> DEFINE q == SkipValue(s, p)
  <2>1. Ahead(s, p, q) /\ At(s, Fail) = "end"
    BY <1>1, WalkEnds DEF At, Fail
  <2> HIDE DEF q
  <2>2. q \in 0 .. Len(s) + 1
    BY <1>1, <2>1 DEF Ahead, Fail
  <2>3. W(p) \in q .. n /\ (q = Fail => W(p) = Fail)
    BY <2>2, Solids DEF q
  <2>4. W(p) \in 1 .. Len(s) /\ q # Fail
    BY <2>1, <2>3, SomethingAt
  <2> HIDE DEF W
  <2>5. QED
    BY <1>1, <2>1, <2>3, <2>4 DEF Ahead
<1> HIDE DEF At1, W
<1>4. ASSUME NEW f \in [1 .. n -> V], NEW p \in 1 .. n
      PROVE  At1(f, p) \in V
  <2>1. At(s, W(p)) = "comma" => OneMore(f[W(p) + 1]) \in V
    <3>1. At(s, W(p)) = "comma" => W(p) + 1 \in 1 .. n
      BY <1>1, <1>3
    <3>2. QED
      BY <1>4, <3>1 DEF OneMore
  <2>2. CASE p > Len(s)
    BY <1>2, <2>2
  <2>3. CASE ~(p > Len(s))
    BY <1>2, <2>1, <2>3
  <2>4. QED
    BY <2>2, <2>3
<1>5. F \in [[1 .. n -> V] -> [1 .. n -> V]]
  BY <1>4
<1>6. ASSUME NEW f \in [1 .. n -> V], NEW g \in [1 .. n -> V], NEW p \in 1 .. n,
             \A q \in p + 1 .. n : f[q] = g[q]
      PROVE  F[f][p] = F[g][p]
  <2>1. At(s, W(p)) = "comma" => f[W(p) + 1] = g[W(p) + 1]
    BY <1>3, <1>6
  <2>2. At1(f, p) = At1(g, p)
    BY <1>2, <2>1
  <2>3. QED
    BY <1>6, <2>2
<1>7. PICK f \in [1 .. n -> V] : f = F[f]
  <2>1. LooksAhead(n, V, F)
    BY <1>5, <1>6 DEF LooksAhead
  <2>2. Fail \in V
    BY DEF Fail
  <2> HIDE DEF F, n, V
  <2>3. QED
    BY <1>1, <2>1, <2>2, Descending
<1>8. f = [p \in Positions(s) |-> CountAt(s, f, p)]
  BY <1>1, <1>7 DEF At1
<1> DEFINE count == CHOOSE h : h = [p \in Positions(s) |-> CountAt(s, h, p)]
<1>9. count = [p \in Positions(s) |-> CountAt(s, count, p)]
  BY <1>8
<1>10. \A from : CountFrom(s, from) = count[from]
  BY DEF CountFrom
<1> HIDE DEF count, F
<1>11. CountFrom(s, pos) = At1(count, pos)
  BY <1>9, <1>10 DEF At1
<1>12. pos <= Len(s) => ~(pos > Len(s))
  BY <1>1
<1>13. QED
  BY <1>2, <1>10, <1>11, <1>12 DEF W

-----------------------------------------------------------------------------
(* What a value that was read is made of.                                  *)

IsList(xs) == \E X : xs \in Seq(X)

LEMMA ConsIs ==
  ASSUME NEW x, NEW xs, IsList(xs)
  PROVE  /\ IsList(<<x>> \o xs) /\ Len(<<x>> \o xs) = Len(xs) + 1 /\ Len(xs) \in Nat
         /\ (<<x>> \o xs)[1] = x
         /\ \A i \in 1 .. Len(xs) : (<<x>> \o xs)[i + 1] = xs[i]
<1>1. PICK X : xs \in Seq(X)
  BY DEF IsList
<1> DEFINE Y == X \cup {x}
<1>2. xs \in Seq(Y) /\ <<x>> \in Seq(Y) /\ Len(<<x>>) = 1 /\ <<x>>[1] = x /\ Len(xs) \in Nat
  BY <1>1
<1> HIDE DEF Y
<1>3. /\ <<x>> \o xs \in Seq(Y) /\ Len(<<x>> \o xs) = Len(xs) + 1
      /\ \A i \in 1 .. Len(xs) + 1 : (<<x>> \o xs)[i] = IF i <= 1 THEN <<x>>[i] ELSE xs[i - 1]
  BY <1>2, ConcatProperties
<1>4. (<<x>> \o xs)[1] = x
  BY <1>2, <1>3
<1>5. ASSUME NEW i \in 1 .. Len(xs) PROVE (<<x>> \o xs)[i + 1] = xs[i]
  <2>1. i + 1 \in 1 .. Len(xs) + 1 /\ ~(i + 1 <= 1) /\ (i + 1) - 1 = i
    BY <1>2
  <2>2. QED
    BY <1>3, <2>1
<1>6. QED
  BY <1>2, <1>3, <1>4, <1>5 DEF IsList

LEMMA OneIs ==
  ASSUME NEW x
  PROVE  /\ <<x>> \o << >> = <<x>> /\ IsList(<<x>>) /\ Len(<<x>>) = 1 /\ <<x>>[1] = x
<1>1. <<x>> \in Seq({x})
  OBVIOUS
<1>2. <<x>> \o << >> = <<x>>
  BY <1>1, ConcatEmptySeq
<1>3. QED
  BY <1>1, <1>2 DEF IsList

\* A value is read from the first solid position on.
LEMMA ValueIs ==
  ASSUME NEW s \in Texts, NEW pos \in Positions(s)
  PROVE  LET w == SkipWhitespace(s, pos) IN
         /\ w \in pos .. Len(s) + 1 /\ w \in Positions(s) /\ SkipWhitespace(s, w) = w
         /\ ParseNodeValue(s, pos) = NodeFrom(s, Read(s), w)
         /\ ParseNodeValue(s, w) = NodeFrom(s, Read(s), w)
         /\ SkipValue(s, w) = SkipValue(s, pos)
         /\ Read(s)[pos]["elements"] = ElementsFrom(s, Read(s), pos)
         /\ Read(s)[w]["elements"] = Read(s)[pos]["elements"]
         /\ Read(s)[pos]["members"] = MembersFrom(s, Read(s), pos)
<1> DEFINE w == SkipWhitespace(s, pos)
           f == Read(s)
<1>1. pos \in 0 .. Len(s) + 1 /\ pos >= 1 /\ Len(s) \in Nat
  BY DEF Positions, Texts
<1>2. w \in pos .. Len(s) + 1 /\ SkipWhitespace(s, w) = w
  BY <1>1, Solids
<1> HIDE DEF w
<1>3. w \in Positions(s) /\ w # Fail /\ pos # Fail /\ w \in 0 .. Len(s) + 1
  BY <1>1, <1>2 DEF Positions, Fail
<1>4. \A p \in Positions(s) : f[p] = [part \in Parts |-> PartFrom(s, f, p, part)]
  BY ReadIs
<1> HIDE DEF f
<1>5. \A p \in Positions(s) : /\ f[p]["value"] = ValueFrom(s, f, p)
                              /\ f[p]["members"] = MembersFrom(s, f, p)
                              /\ f[p]["elements"] = ElementsFrom(s, f, p)
  BY <1>4 DEF Parts, PartFrom
<1>6. ValueFrom(s, f, pos) = NodeFrom(s, f, w) /\ ValueFrom(s, f, w) = NodeFrom(s, f, w)
  BY <1>2 DEF ValueFrom, w
<1>7. ElementsFrom(s, f, w) = ElementsFrom(s, f, pos)
  BY <1>6 DEF ElementsFrom
<1>8. ParseNodeValue(s, pos) = f[pos]["value"] /\ ParseNodeValue(s, w) = f[w]["value"]
  BY <1>3 DEF ParseNodeValue, ReadPart, f
<1>9. ParseNodeValue(s, pos) = ParseNodeValue(s, w)
  BY <1>3, <1>5, <1>6, <1>8
<1>10. SkipValue(s, w) = SkipValue(s, pos)
  BY <1>1, <1>3, <1>9, WalkEnds
<1>11. QED
  BY <1>2, <1>3, <1>5, <1>6, <1>7, <1>8, <1>10 DEF w, f

\* No value starts at a closing bracket.
LEMMA NothingAt ==
  ASSUME NEW s \in Texts, NEW pos \in Positions(s),
         At(s, SkipWhitespace(s, pos)) \in {"rbrace", "rbracket"}
  PROVE  SkipValue(s, pos) = Fail
<1> DEFINE w == SkipWhitespace(s, pos)
<1>1. /\ w \in Positions(s) /\ SkipWhitespace(s, w) = w /\ w \in 0 .. Len(s) + 1
      /\ pos \in 0 .. Len(s) + 1
      /\ ParseNodeValue(s, pos) = NodeFrom(s, Read(s), w)
  BY ValueIs DEF Positions, Texts
<1>2. At(s, w) \in {"rbrace", "rbracket"}
  OBVIOUS
<1> HIDE DEF w
<1>3. ParseNumber(s, w) = NotParsed
  <2>1. At(s, w) \notin {"minus"} \cup Digits
    BY <1>2 DEF Digits
  <2>2. QED
    BY <1>1, <2>1, FirstSymbol
<1>4. NodeFrom(s, Read(s), w) = Made(ParseNumber(s, w), MakeNumber(ParseNumber(s, w).value))
  BY <1>2 DEF NodeFrom, Booleans
<1>5. ParseNodeValue(s, pos).next = Fail
  <2>1. \A node : Made(ParseNumber(s, w), node).next = Fail
    BY <1>3, Nexts
  <2>2. QED
    BY <1>1, <1>4, <2>1
<1>6. QED
  BY <1>1, <1>5, WalkEnds

\* Elements that were read: a value, and the end or more of them.
LEMMA ElementsAre ==
  ASSUME NEW s \in Texts, NEW pos \in Positions(s), Read(s)[pos]["elements"].next # Fail
  PROVE  LET v == ParseNodeValue(s, pos)
             w == SkipWhitespace(s, v.next)
             xs == Read(s)[pos]["elements"].value
         IN  /\ v.next # Fail /\ v.next \in pos + 1 .. Len(s) + 1
             /\ w \in v.next .. Len(s) + 1
             /\ \/ At(s, w) = "rbracket" /\ xs = <<v.value>>
                \/ /\ At(s, w) = "comma" /\ w + 1 \in pos + 1 .. Len(s) + 1
                   /\ Read(s)[w + 1]["elements"].next # Fail
                   /\ xs = <<v.value>> \o Read(s)[w + 1]["elements"].value
<1> DEFINE f == Read(s)
           v == ParseNodeValue(s, pos)
           w == SkipWhitespace(s, v.next)
           more == More(s, f, w, "elements", "rbracket")
           r == f[pos]["elements"]
<1>1. pos \in 0 .. Len(s) + 1 /\ pos >= 1 /\ Len(s) \in Nat /\ pos # Fail
  BY DEF Positions, Texts, Fail
<1>2. v = ValueFrom(s, f, pos) /\ r = ElementsFrom(s, f, pos)
  BY ValueIs DEF ValueFrom
<1>3. Ahead(s, pos, v.next)
  BY <1>1, WalkEnds
<1>4. r = Joined(v.value, more)
  BY <1>2 DEF ElementsFrom, WithElement
<1> HIDE DEF f, r, v
<1>5. v.next \in 0 .. Len(s) + 1
  BY <1>1, <1>3 DEF Ahead, Fail
<1>6. w \in v.next .. Len(s) + 1 /\ (v.next = Fail => w = Fail)
  BY <1>5, Solids
<1> HIDE DEF w
<1>7. /\ At(s, w) = "rbracket" => more = Parsed(w + 1, << >>)
      /\ At(s, w) = "comma" => more = f[w + 1]["elements"]
      /\ At(s, w) \notin {"rbracket", "comma"} => more = NotParsed
  BY DEF More
<1> HIDE DEF more
<1>8. r.next = more.next /\ more.next # Fail
  <2>1. r.next = more.next
    BY <1>4, Nexts
  <2>2. QED
    BY <2>1 DEF r, f
<1>9. r.value = <<v.value>> \o more.value
  <2>1. r = Parsed(more.next, <<v.value>> \o more.value)
    BY <1>4, <1>8 DEF Joined
  <2>2. QED
    BY <2>1, Nexts
<1>10. At(s, w) \in {"rbracket", "comma"}
  BY <1>7, <1>8, Nexts
<1>11. w \in 1 .. Len(s) /\ v.next # Fail
  <2>1. w \in 1 .. Len(s)
    BY <1>10, SomethingAt
  <2>2. QED
    BY <1>6, <2>1 DEF Fail
<1>12. v.next \in pos + 1 .. Len(s) + 1 /\ w + 1 \in pos + 1 .. Len(s) + 1
  <2>1. v.next \in pos + 1 .. Len(s) + 1
    BY <1>3, <1>11 DEF Ahead
  <2>2. QED
    BY <1>1, <1>6, <1>11, <2>1
<1>13. CASE At(s, w) = "rbracket"
  <2>1. more.value = << >>
    BY <1>7, <1>13, Nexts
  <2>2. r.value = <<v.value>>
    BY <1>9, <2>1, OneIs
  <2>3. QED
    BY <1>6, <1>11, <1>12, <1>13, <2>2 DEF r, f, v, w
<1>14. CASE At(s, w) = "comma"
  <2>1. f[w + 1]["elements"].next # Fail /\ r.value = <<v.value>> \o f[w + 1]["elements"].value
    BY <1>7, <1>8, <1>9, <1>14
  <2>2. QED
    BY <1>6, <1>11, <1>12, <1>14, <2>1 DEF r, f, v, w
<1>15. QED
  BY <1>10, <1>13, <1>14

\* Members that were read: a name and a value, and the end or more of them.
LEMMA MembersAre ==
  ASSUME NEW s \in Texts, NEW pos \in Positions(s), Read(s)[pos]["members"].next # Fail
  PROVE  LET name == ParseString(s, pos)
             p == MemberValue(s, name)
             v == ParseNodeValue(s, p)
             w == SkipWhitespace(s, v.next)
             ms == Read(s)[pos]["members"].value
         IN  /\ p # Fail /\ p \in pos + 1 .. Len(s) + 1 /\ SkipWhitespace(s, p) = p
             /\ v.next # Fail /\ w \in pos + 1 .. Len(s) + 1
             /\ \/ At(s, w) = "rbrace" /\ ms = << <<name.value, v.value>> >>
                \/ /\ At(s, w) = "comma" /\ w + 1 \in pos + 1 .. Len(s) + 1
                   /\ Read(s)[w + 1]["members"].next # Fail
                   /\ ms = << <<name.value, v.value>> >> \o Read(s)[w + 1]["members"].value
<1> DEFINE f == Read(s)
           name == ParseString(s, pos)
           colon == After(s, name.next, "colon")
           p == SkipWhitespace(s, colon)
           v == ReadPart(f, colon, "value")
           w == SkipWhitespace(s, v.next)
           more == More(s, f, w, "members", "rbrace")
           item == <<name.value, v.value>>
           r == f[pos]["members"]
<1>1. pos \in 0 .. Len(s) + 1 /\ pos >= 1 /\ Len(s) \in Nat /\ pos # Fail
  BY DEF Positions, Texts, Fail
<1>2. r = MembersFrom(s, f, pos)
  BY ValueIs
<1>3. r = Joined(item, more)
  BY <1>2 DEF MembersFrom, MemberFrom, WithMember
<1>4. v = ParseNodeValue(s, colon)
  BY DEF ParseNodeValue
<1>5. Ahead(s, pos, colon)
  BY ColonIs
<1>6. MemberValue(s, name) = p
  BY DEF MemberValue
<1> HIDE DEF f, r, name, item
<1> HIDE DEF colon
<1>7. colon \in 0 .. Len(s) + 1
  BY <1>1, <1>5 DEF Ahead, Fail
<1>8. Ahead(s, colon, v.next)
  BY <1>4, <1>7, WalkEnds
<1>9. colon = Fail => v.next = Fail
  BY Nexts DEF v, ReadPart
<1> HIDE DEF v
<1>10. v.next \in 0 .. Len(s) + 1
  BY <1>7, <1>8 DEF Ahead, Fail
<1>11. w \in v.next .. Len(s) + 1 /\ (v.next = Fail => w = Fail)
  BY <1>10, Solids
<1> HIDE DEF w
<1>12. /\ At(s, w) = "rbrace" => more = Parsed(w + 1, << >>)
       /\ At(s, w) = "comma" => more = f[w + 1]["members"]
       /\ At(s, w) \notin {"rbrace", "comma"} => more = NotParsed
  BY DEF More
<1> HIDE DEF more
<1>13. r.next = more.next /\ more.next # Fail
  <2>1. r.next = more.next
    BY <1>3, Nexts
  <2>2. QED
    BY <2>1 DEF r, f
<1>14. r.value = <<item>> \o more.value
  <2>1. r = Parsed(more.next, <<item>> \o more.value)
    BY <1>3, <1>13 DEF Joined
  <2>2. QED
    BY <2>1, Nexts
<1>15. At(s, w) \in {"rbrace", "comma"}
  BY <1>12, <1>13, Nexts
<1>16. w \in 1 .. Len(s) /\ v.next # Fail /\ colon # Fail
  <2>1. w \in 1 .. Len(s)
    BY <1>15, SomethingAt
  <2>2. QED
    BY <1>9, <1>11, <2>1 DEF Fail
<1>17. colon \in pos + 1 .. Len(s) + 1 /\ v.next \in colon + 1 .. Len(s) + 1
  BY <1>5, <1>8, <1>16 DEF Ahead
<1>18. w \in pos + 1 .. Len(s) + 1 /\ w + 1 \in pos + 1 .. Len(s) + 1
  BY <1>1, <1>11, <1>16, <1>17
<1>19. p \in colon .. Len(s) + 1 /\ SkipWhitespace(s, p) = p /\ ParseNodeValue(s, p) = v
  <2>1. colon \in Positions(s)
    BY <1>1, <1>17 DEF Positions
  <2>2. QED
    BY <1>4, <2>1, ValueIs
<1> HIDE DEF p
<1>20. p # Fail /\ p \in pos + 1 .. Len(s) + 1
  BY <1>1, <1>17, <1>19 DEF Fail
<1>21. w = SkipWhitespace(s, v.next)
  BY DEF w
<1>22. CASE At(s, w) = "rbrace"
  <2>1. more.value = << >>
    BY <1>12, <1>22, Nexts
  <2>2. r.value = <<item>>
    BY <1>14, <2>1, OneIs
  <2>3. QED
    BY <1>6, <1>16, <1>18, <1>19, <1>20, <1>21, <1>22, <2>2 DEF r, f, item, name
<1>23. CASE At(s, w) = "comma"
  <2>1. f[w + 1]["members"].next # Fail /\ r.value = <<item>> \o f[w + 1]["members"].value
    BY <1>12, <1>13, <1>14, <1>23
  <2>2. QED
    BY <1>6, <1>16, <1>18, <1>19, <1>20, <1>21, <1>23, <2>1 DEF r, f, item, name
<1>24. QED
  BY <1>15, <1>22, <1>23

-----------------------------------------------------------------------------
(* The getters of a value and those of its node.                           *)

IsScalar(s, w, x) ==
    \/ /\ At(s, w) = "quote" /\ ParseString(s, w).next # Fail
       /\ x = MakeString(ParseString(s, w).value)
    \/ /\ At(s, w) \in Booleans /\ ParseBool(s, w).next # Fail
       /\ x = MakeBoolean(ParseBool(s, w).value)
    \/ At(s, w) = "null" /\ x = MakeNull
    \/ /\ At(s, w) \in {"minus"} \cup Digits /\ ParseNumber(s, w).next # Fail
       /\ x = MakeNumber(ParseNumber(s, w).value)

HasItems(s, w, x) ==
    LET first == SkipWhitespace(s, w + 1)
        items == Read(s)[first]
    IN  \/ /\ At(s, w) = "lbrace"
           /\ \/ At(s, first) = "rbrace" /\ x = MakeObject(<< >>)
              \/ items["members"].next # Fail /\ x = MakeObject(items["members"].value)
        \/ /\ At(s, w) = "lbracket"
           /\ \/ At(s, first) = "rbracket" /\ x = MakeArray(<< >>)
              \/ /\ items["elements"].next # Fail /\ At(s, first) # "rbracket"
                 /\ x = MakeArray(items["elements"].value)

\* The symbol a value starts with tells what its node is.
LEMMA NodeIs ==
  ASSUME NEW s \in Texts, NEW w \in Positions(s), SkipWhitespace(s, w) = w,
         ParseNodeValue(s, w).next # Fail
  PROVE  LET x == ParseNodeValue(s, w).value IN
         /\ w \in 1 .. Len(s) /\ w + 1 \in Positions(s)
         /\ IsScalar(s, w, x) \/ HasItems(s, w, x)
<1> DEFINE f == Read(s)
           v == ParseNodeValue(s, w)
           first == SkipWhitespace(s, w + 1)
<1>1. v = NodeFrom(s, f, w) /\ w \in 0 .. Len(s) + 1
  BY ValueIs DEF Positions, Texts
<1>2. v.next # Fail
  OBVIOUS
<1> HIDE DEF v
<1>3. At(s, w) # "end"
  <2>1. At(s, w) = "end" => v = NotParsed
    BY <1>1 DEF NodeFrom, Booleans
  <2>2. QED
    BY <1>2, <2>1, Nexts
<1>4. w \in 1 .. Len(s) /\ w + 1 \in Positions(s)
  BY <1>3, SomethingAt
<1>5. \A r, node : Made(r, node).next # Fail => r.next # Fail /\ Made(r, node).value = node
  BY Nexts DEF Made
<1>6. CASE At(s, w) = "lbrace"
  <2>1. v = ParseObjectNode(s, f, first)
    BY <1>1, <1>6 DEF NodeFrom, Booleans
  <2> HIDE DEF f, first
  <2>2. CASE At(s, first) = "rbrace"
    <3>1. v.value = MakeObject(<< >>)
      BY <2>1, <2>2, Nexts DEF ParseObjectNode
    <3>2. QED
      BY <1>4, <1>6, <2>2, <3>1 DEF HasItems, f, first, v
  <2>3. CASE At(s, first) # "rbrace"
    <3>1. v = Made(f[first]["members"], MakeObject(f[first]["members"].value))
      BY <2>1, <2>3 DEF ParseObjectNode
    <3>2. f[first]["members"].next # Fail /\ v.value = MakeObject(f[first]["members"].value)
      BY <1>2, <1>5, <3>1
    <3>3. QED
      BY <1>4, <1>6, <3>2 DEF HasItems, f, first, v
  <2>4. QED
    BY <2>2, <2>3
<1>7. CASE At(s, w) = "lbracket"
  <2>1. v = ParseArrayNode(s, f, first)
    BY <1>1, <1>7 DEF NodeFrom, Booleans
  <2> HIDE DEF f, first
  <2>2. CASE At(s, first) = "rbracket"
    <3>1. v.value = MakeArray(<< >>)
      BY <2>1, <2>2, Nexts DEF ParseArrayNode
    <3>2. QED
      BY <1>4, <1>7, <2>2, <3>1 DEF HasItems, f, first, v
  <2>3. CASE At(s, first) # "rbracket"
    <3>1. v = Made(f[first]["elements"], MakeArray(f[first]["elements"].value))
      BY <2>1, <2>3 DEF ParseArrayNode
    <3>2. f[first]["elements"].next # Fail /\ v.value = MakeArray(f[first]["elements"].value)
      BY <1>2, <1>5, <3>1
    <3>3. QED
      BY <1>4, <1>7, <2>3, <3>2 DEF HasItems, f, first, v
  <2>4. QED
    BY <2>2, <2>3
<1>8. CASE At(s, w) = "quote"
  <2>1. v = Made(ParseString(s, w), MakeString(ParseString(s, w).value))
    BY <1>1, <1>8 DEF NodeFrom, Booleans
  <2>2. ParseString(s, w).next # Fail /\ v.value = MakeString(ParseString(s, w).value)
    BY <1>2, <1>5, <2>1
  <2>3. QED
    BY <1>4, <1>8, <2>2 DEF IsScalar, v
<1>9. CASE At(s, w) \in Booleans
  <2>1. v = Made(ParseBool(s, w), MakeBoolean(ParseBool(s, w).value))
    BY <1>1, <1>9 DEF NodeFrom, Booleans
  <2>2. ParseBool(s, w).next # Fail /\ v.value = MakeBoolean(ParseBool(s, w).value)
    BY <1>2, <1>5, <2>1
  <2>3. QED
    BY <1>4, <1>9, <2>2 DEF IsScalar, v
<1>10. CASE At(s, w) \in {"null", "n"}
  <2>1. v = Made(ParseNull(s, w), MakeNull)
    BY <1>1, <1>10 DEF NodeFrom, Booleans
  <2>2. ParseNull(s, w).next # Fail /\ v.value = MakeNull
    BY <1>2, <1>5, <2>1
  <2>3. At(s, w) # "null" => ParseNull(s, w) = NotParsed
    BY <1>1, FirstSymbol
  <2>4. At(s, w) = "null"
    BY <2>2, <2>3, Nexts
  <2>5. QED
    BY <1>4, <2>2, <2>4 DEF IsScalar, v
<1>11. CASE At(s, w) \notin {"lbrace", "lbracket", "quote", "null", "n"} \cup Booleans
  <2>1. v = Made(ParseNumber(s, w), MakeNumber(ParseNumber(s, w).value))
    BY <1>1, <1>3, <1>11 DEF NodeFrom, Booleans
  <2>2. ParseNumber(s, w).next # Fail /\ v.value = MakeNumber(ParseNumber(s, w).value)
    BY <1>2, <1>5, <2>1
  <2>3. At(s, w) \notin {"minus"} \cup Digits => ParseNumber(s, w) = NotParsed
    BY <1>1, FirstSymbol
  <2>4. At(s, w) \in {"minus"} \cup Digits
    BY <2>2, <2>3, Nexts
  <2>5. QED
    BY <1>4, <2>2, <2>4 DEF IsScalar, v
<1>12. QED
  BY <1>6, <1>7, <1>8, <1>9, <1>10, <1>11

\* What the getters of the text read at a place, the node there gives.
ReadsAs(s, p, x) ==
    /\ \A d : OrElse(ParseString(s, p), d) = NodeString(x, d)
    /\ \A d : OrElse(ParseNumber(s, p), d) = NodeInt(x, d)
    /\ \A d : OrElse(ParseBool(s, p), d) = NodeBool(x, d)

LEMMA NodeReads ==
  ASSUME NEW s \in Texts, NEW w \in Positions(s), SkipWhitespace(s, w) = w,
         ParseNodeValue(s, w).next # Fail
  PROVE  ReadsAs(s, w, ParseNodeValue(s, w).value) /\ ParseNodeValue(s, w).value # NoNode
<1> DEFINE x == ParseNodeValue(s, w).value
           string == ParseString(s, w)
           number == ParseNumber(s, w)
           bool == ParseBool(s, w)
<1>1. IsScalar(s, w, x) \/ HasItems(s, w, x)
  BY NodeIs
<1>2. w \in 0 .. Len(s) + 1
  BY DEF Positions, Texts
<1>3. /\ At(s, w) # "quote" => string = NotParsed
      /\ At(s, w) \notin Booleans => bool = NotParsed
      /\ At(s, w) \notin {"minus"} \cup Digits => number = NotParsed
  BY <1>2, FirstSymbol
<1>4. \A r, d : /\ r = NotParsed => OrElse(r, d) = d
                /\ r.next # Fail => OrElse(r, d) = r.value
  BY Nexts DEF OrElse
<1>5. /\ \A y, d : NodeString(MakeString(y), d) = y /\ NodeInt(MakeString(y), d) = d
                   /\ NodeBool(MakeString(y), d) = d /\ MakeString(y) # NoNode
      /\ \A y, d : NodeString(MakeNumber(y), d) = d /\ NodeInt(MakeNumber(y), d) = y
                   /\ NodeBool(MakeNumber(y), d) = d /\ MakeNumber(y) # NoNode
      /\ \A y, d : NodeString(MakeBoolean(y), d) = d /\ NodeInt(MakeBoolean(y), d) = d
                   /\ NodeBool(MakeBoolean(y), d) = y /\ MakeBoolean(y) # NoNode
      /\ \A d : NodeString(MakeNull, d) = d /\ NodeInt(MakeNull, d) = d
                /\ NodeBool(MakeNull, d) = d /\ MakeNull # NoNode
      /\ \A y, d : NodeString(MakeObject(y), d) = d /\ NodeInt(MakeObject(y), d) = d
                   /\ NodeBool(MakeObject(y), d) = d /\ MakeObject(y) # NoNode
      /\ \A y, d : NodeString(MakeArray(y), d) = d /\ NodeInt(MakeArray(y), d) = d
                   /\ NodeBool(MakeArray(y), d) = d /\ MakeArray(y) # NoNode
  BY DEF NodeString, NodeInt, NodeBool, Is, NoNode, MakeString, MakeNumber, MakeBoolean,
         MakeNull, MakeObject, MakeArray
<1>6. ReadsAs(s, w, x) <=> /\ \A d : OrElse(string, d) = NodeString(x, d)
                           /\ \A d : OrElse(number, d) = NodeInt(x, d)
                           /\ \A d : OrElse(bool, d) = NodeBool(x, d)
  BY DEF ReadsAs
<1> HIDE DEF x
<1>7. CASE At(s, w) = "quote"
  <2>1. x = MakeString(string.value) /\ string.next # Fail
    BY <1>1, <1>7 DEF IsScalar, HasItems, Booleans, Digits
  <2>2. number = NotParsed /\ bool = NotParsed
    BY <1>3, <1>7 DEF Booleans, Digits
  <2> HIDE DEF string, number, bool
  <2>3. QED
    BY <1>4, <1>5, <1>6, <2>1, <2>2 DEF x
<1>8. CASE At(s, w) \in Booleans
  <2>1. x = MakeBoolean(bool.value) /\ bool.next # Fail
    BY <1>1, <1>8 DEF IsScalar, HasItems, Booleans, Digits
  <2>2. number = NotParsed /\ string = NotParsed
    BY <1>3, <1>8 DEF Booleans, Digits
  <2> HIDE DEF string, number, bool
  <2>3. QED
    BY <1>4, <1>5, <1>6, <2>1, <2>2 DEF x
<1>9. CASE At(s, w) \in {"minus"} \cup Digits
  <2>1. x = MakeNumber(number.value) /\ number.next # Fail
    BY <1>1, <1>9 DEF IsScalar, HasItems, Booleans, Digits
  <2>2. bool = NotParsed /\ string = NotParsed
    BY <1>3, <1>9 DEF Booleans, Digits
  <2> HIDE DEF string, number, bool
  <2>3. QED
    BY <1>4, <1>5, <1>6, <2>1, <2>2 DEF x
<1>10. CASE At(s, w) \in {"null", "lbrace", "lbracket"}
  <2>1. x = MakeNull \/ \E y : x = MakeObject(y) \/ x = MakeArray(y)
    BY <1>1, <1>10 DEF IsScalar, HasItems, Booleans, Digits
  <2>2. number = NotParsed /\ string = NotParsed /\ bool = NotParsed
    BY <1>3, <1>10 DEF Booleans, Digits
  <2> HIDE DEF string, number, bool
  <2>3. QED
    BY <1>4, <1>5, <1>6, <2>1, <2>2 DEF x
<1>11. At(s, w) \in {"quote", "minus", "null", "lbrace", "lbracket"} \cup Booleans \cup Digits
  BY <1>1 DEF IsScalar, HasItems
<1>12. QED
  BY <1>7, <1>8, <1>9, <1>10, <1>11

-----------------------------------------------------------------------------
(* The search for a key, and the members of the object.                    *)

\* Nothing is found at the end of an object, white space is skipped.
LEMMA FindEnds ==
  ASSUME NEW s \in Texts, NEW pos \in Positions(s), NEW key
  PROVE  /\ At(s, SkipWhitespace(s, pos)) = "rbrace" => FindKeyFrom(s, pos, key) = Fail
         /\ FindKeyFrom(s, SkipWhitespace(s, pos), key) = FindKeyFrom(s, pos, key)
<1> DEFINE w == SkipWhitespace(s, pos)
<1>1. w \in Positions(s) /\ SkipWhitespace(s, w) = w /\ w \in 0 .. Len(s) + 1 /\ pos \in 0 .. Len(s) + 1
  BY ValueIs DEF Positions, Texts
<1>2. ParseString(s, pos) = ParseString(s, w)
  BY <1>1, ScalarsAhead
<1> HIDE DEF w
<1>3. At(s, w) = "rbrace" => FindKeyFrom(s, pos, key) = Fail
  <2> HAVE At(s, w) = "rbrace"
  <2>1. ParseString(s, w) = NotParsed
    BY <1>1, FirstSymbol
  <2>2. After(s, Fail, "colon") = Fail
    <3>1. Fail \in 0 .. Len(s) + 1
      BY DEF Fail, Texts
    <3>2. QED
      BY <3>1, AfterIs
  <2>3. SkipWhitespace(s, Fail) = Fail
    <3>1. Fail \in 0 .. Len(s) + 1
      BY DEF Fail, Texts
    <3>2. QED
      BY <3>1, Solids
  <2>4. MemberValue(s, ParseString(s, pos)) = Fail
    BY <1>2, <2>1, <2>2, <2>3, Nexts DEF MemberValue
  <2>5. QED
    BY <2>4, FindKeyFromIs
<1>4. FindKeyFrom(s, w, key) = FindKeyFrom(s, pos, key)
  BY <1>1, <1>2, FindKeyFromIs
<1>5. QED
  BY <1>3, <1>4 DEF w

\* A place where a value starts.
Starts(s, p, x) ==
    /\ p \in Positions(s) /\ SkipWhitespace(s, p) = p
    /\ ParseNodeValue(s, p).next # Fail /\ ParseNodeValue(s, p).value = x

\* What is found among members: the value of the first one that has the key.
Finds(s, ms, p, key) ==
    /\ IsList(ms)
    /\ \/ p = Fail /\ \A i \in 1 .. Len(ms) : ms[i][1] # key
       \/ \E i \in 1 .. Len(ms) :
             /\ ms[i][1] = key /\ \A k \in 1 .. i - 1 : ms[k][1] # key
             /\ Starts(s, p, ms[i][2])

LEMMA FindsFirst ==
  ASSUME NEW s, NEW ms, NEW p, NEW key, NEW name, NEW x,
         IsList(ms), name = key, Starts(s, p, x)
  PROVE  Finds(s, << <<name, x>> >> \o ms, p, key)
<1> DEFINE ns == << <<name, x>> >> \o ms
<1>1. IsList(ns) /\ Len(ns) = Len(ms) + 1 /\ Len(ms) \in Nat /\ ns[1] = <<name, x>>
  BY ConsIs
<1> HIDE DEF ns
<1>2. 1 \in 1 .. Len(ns) /\ ns[1][1] = key /\ ns[1][2] = x /\ \A k \in 1 .. 1 - 1 : ns[k][1] # key
  BY <1>1
<1>3. QED
  BY <1>1, <1>2 DEF Finds, ns

LEMMA FindsLater ==
  ASSUME NEW s, NEW ms, NEW p, NEW key, NEW name, NEW x, name # key, Finds(s, ms, p, key)
  PROVE  Finds(s, << <<name, x>> >> \o ms, p, key)
<1> DEFINE ns == << <<name, x>> >> \o ms
<1>1. /\ IsList(ns) /\ Len(ns) = Len(ms) + 1 /\ Len(ms) \in Nat /\ ns[1] = <<name, x>>
      /\ \A i \in 1 .. Len(ms) : ns[i + 1] = ms[i]
  BY ConsIs DEF Finds
<1> HIDE DEF ns
<1>2. ns[1][1] # key
  BY <1>1
<1>3. \A i \in 2 .. Len(ns) : i - 1 \in 1 .. Len(ms) /\ ns[i] = ms[i - 1]
  <2> TAKE i \in 2 .. Len(ns)
  <2>1. i - 1 \in 1 .. Len(ms) /\ (i - 1) + 1 = i
    BY <1>1
  <2>2. QED
    BY <1>1, <2>1
<1>4. CASE p = Fail /\ \A i \in 1 .. Len(ms) : ms[i][1] # key
  <2>1. \A i \in 1 .. Len(ns) : ns[i][1] # key
    <3> TAKE i \in 1 .. Len(ns)
    <3>1. i = 1 \/ i \in 2 .. Len(ns)
      BY <1>1
    <3>2. QED
      BY <1>2, <1>3, <1>4, <3>1
  <2>2. QED
    BY <1>1, <1>4, <2>1 DEF Finds, ns
<1>5. CASE \E i \in 1 .. Len(ms) : /\ ms[i][1] = key /\ \A k \in 1 .. i - 1 : ms[k][1] # key
                                   /\ Starts(s, p, ms[i][2])
  <2>1. PICK i \in 1 .. Len(ms) : /\ ms[i][1] = key /\ \A k \in 1 .. i - 1 : ms[k][1] # key
                                  /\ Starts(s, p, ms[i][2])
    BY <1>5
  <2>2. i + 1 \in 1 .. Len(ns) /\ ns[i + 1] = ms[i]
    BY <1>1
  <2>3. \A k \in 1 .. (i + 1) - 1 : ns[k][1] # key
    <3> TAKE k \in 1 .. (i + 1) - 1
    <3>1. k = 1 \/ (k \in 2 .. Len(ns) /\ k - 1 \in 1 .. i - 1)
      BY <1>1
    <3>2. QED
      BY <1>2, <1>3, <2>1, <3>1
  <2>4. QED
    BY <1>1, <2>1, <2>2, <2>3 DEF Finds, ns
<1>6. QED
  BY <1>4, <1>5 DEF Finds

\* The walk finds the value of the first member that has the key.
LEMMA FindMember ==
  ASSUME NEW s \in Texts, NEW pos \in Positions(s), NEW key,
         Read(s)[pos]["members"].next # Fail
  PROVE  Finds(s, Read(s)[pos]["members"].value, FindKeyFrom(s, pos, key), key)
<1> DEFINE n == Len(s) + 1
           Ms(p) == Read(s)[p]["members"]
           P == {p \in 1 .. n : Ms(p).next # Fail => Finds(s, Ms(p).value, FindKeyFrom(s, p, key), key)}
<1>1. n \in Nat /\ Positions(s) = 1 .. n
  BY DEF Positions, Texts
<1>2. ASSUME NEW p \in 1 .. n, \A q \in p + 1 .. n : q \in P, Ms(p).next # Fail
      PROVE  Finds(s, Ms(p).value, FindKeyFrom(s, p, key), key)
  <2> DEFINE name == ParseString(s, p)
             a == MemberValue(s, name)
             v == ParseNodeValue(s, a)
             w == SkipWhitespace(s, v.next)
  <2>1. /\ a # Fail /\ a \in p + 1 .. n /\ SkipWhitespace(s, a) = a
        /\ v.next # Fail /\ w \in p + 1 .. n
        /\ \/ At(s, w) = "rbrace" /\ Ms(p).value = << <<name.value, v.value>> >>
           \/ /\ At(s, w) = "comma" /\ w + 1 \in p + 1 .. n
              /\ Ms(w + 1).next # Fail
              /\ Ms(p).value = << <<name.value, v.value>> >> \o Ms(w + 1).value
    BY <1>1, <1>2, MembersAre
  <2>2. /\ name.value = key => FindKeyFrom(s, p, key) = a
        /\ name.value # key => FindKeyFrom(s, p, key) = FindKeyFrom(s, NextItem(s, a), key)
    BY <1>1, <2>1, FindKeyFromIs
  <2> HIDE DEF name, a
  <2>3. a \in 1 .. n /\ a \in 0 .. Len(s) + 1
    BY <1>1, <2>1
  <2>4. SkipValue(s, a) = v.next
    BY <2>3, WalkEnds
  <2>5. NextItem(s, a) = PastComma(s, w)
    BY <2>4 DEF NextItem
  <2>6. Starts(s, a, v.value)
    BY <1>1, <2>1, <2>3 DEF Starts
  <2> HIDE DEF v, w, Ms
  <2>7. CASE At(s, w) = "rbrace"
    <3>1. w \in Positions(s)
      BY <1>1, <2>1
    <3>2. NextItem(s, a) = w
      BY <2>5, <2>7 DEF PastComma
    <3>3. SkipWhitespace(s, w) = w
      <4>1. w \in 0 .. Len(s) + 1 /\ At(s, w) \notin Whitespace
        BY <1>1, <2>1, <2>7 DEF Whitespace
      <4>2. QED
        BY <4>1, Solids
    <3>4. FindKeyFrom(s, w, key) = Fail
      BY <2>7, <3>1, <3>3, FindEnds
    <3>5. Ms(p).value = << <<name.value, v.value>> >> \o << >>
      BY <2>1, <2>7, OneIs
    <3>6. IsList(<< >>) /\ Len(<< >>) = 0
      <4>1. << >> \in Seq({})
        OBVIOUS
      <4>2. QED
        BY <4>1 DEF IsList
    <3>7. Finds(s, << >>, Fail, key)
      BY <3>6 DEF Finds
    <3>8. CASE name.value = key
      BY <2>2, <2>6, <3>5, <3>6, <3>8, FindsFirst
    <3>9. CASE name.value # key
      BY <2>2, <3>2, <3>4, <3>5, <3>7, <3>9, FindsLater
    <3>10. QED
      BY <3>8, <3>9
  <2>8. CASE At(s, w) = "comma"
    <3>1. NextItem(s, a) = w + 1
      BY <2>5, <2>8 DEF PastComma
    <3>2. /\ w + 1 \in p + 1 .. n /\ Ms(w + 1).next # Fail
          /\ Ms(p).value = << <<name.value, v.value>> >> \o Ms(w + 1).value
      BY <2>1, <2>8
    <3>3. Finds(s, Ms(w + 1).value, FindKeyFrom(s, w + 1, key), key)
      BY <1>2, <3>2
    <3>4. CASE name.value = key
      <4>1. IsList(Ms(w + 1).value)
        BY <3>3 DEF Finds
      <4>2. QED
        BY <2>2, <2>6, <3>2, <3>4, <4>1, FindsFirst
    <3>5. CASE name.value # key
      BY <2>2, <3>1, <3>2, <3>3, <3>5, FindsLater
    <3>6. QED
      BY <3>4, <3>5
  <2>9. QED
    BY <2>1, <2>7, <2>8
<1>3. ASSUME NEW p \in 1 .. n, \A q \in p + 1 .. n : q \in P
      PROVE  p \in P
  BY <1>2, <1>3
<1> HIDE DEF P
<1>4. 1 .. n \subseteq P
  BY <1>1, <1>3, Backwards
<1>5. QED
  BY <1>1, <1>4 DEF P

\* The member of an object that the walk finds is the one the node gives.
FoundIs(s, p, x) == (p = Fail /\ x = NoNode) \/ Starts(s, p, x)

LEMMA MemberIs ==
  ASSUME NEW s, NEW ms, NEW p, NEW key, Finds(s, ms, p, key)
  PROVE  FoundIs(s, p, GetObjectMember(MakeObject(ms), key))
<1> DEFINE node == MakeObject(ms)
           found == {i \in DOMAIN node.object : node.object[i][1] = key}
           least == CHOOSE i \in found : \A k \in found : i <= k
<1>1. node.object = ms /\ Is("object", node)
  BY DEF MakeObject, Is
<1>2. DOMAIN ms = 1 .. Len(ms) /\ Len(ms) \in Nat
  BY DEF Finds, IsList
<1>3. found = {i \in 1 .. Len(ms) : ms[i][1] = key}
  BY <1>1, <1>2
<1>4. GetObjectMember(node, key) = IF found = {} THEN NoNode ELSE ms[least][2]
  BY <1>1 DEF GetObjectMember
<1>5. CASE p = Fail /\ \A i \in 1 .. Len(ms) : ms[i][1] # key
  <2>1. found = {}
    BY <1>3, <1>5
  <2> HIDE DEF found, node, least
  <2>2. QED
    BY <1>4, <1>5, <2>1 DEF FoundIs, node
<1>6. CASE \E i \in 1 .. Len(ms) : /\ ms[i][1] = key /\ \A k \in 1 .. i - 1 : ms[k][1] # key
                                   /\ Starts(s, p, ms[i][2])
  <2>1. PICK i \in 1 .. Len(ms) : /\ ms[i][1] = key /\ \A k \in 1 .. i - 1 : ms[k][1] # key
                                  /\ Starts(s, p, ms[i][2])
    BY <1>6
  <2>2. i \in found
    BY <1>3, <2>1
  <2>3. \A k \in found : k \in 1 .. Len(ms) /\ ms[k][1] = key
    BY <1>3
  <2> HIDE DEF found, node
  <2>4. \A k \in found : i <= k
    BY <1>2, <2>1, <2>3
  <2>5. least \in found /\ \A k \in found : least <= k
    BY <2>2, <2>4
  <2> HIDE DEF least
  <2>6. least = i
    <3>1. least \in 1 .. Len(ms) /\ least <= i /\ i <= least
      BY <2>2, <2>3, <2>4, <2>5
    <3>2. QED
      BY <1>2, <3>1
  <2>7. GetObjectMember(node, key) = ms[i][2]
    BY <1>4, <2>2, <2>6
  <2>8. QED
    BY <2>1, <2>7 DEF FoundIs, node
<1>7. QED
  BY <1>5, <1>6 DEF Finds

\* A key is found in the text exactly when the node has it, with its value.
LEMMA KeyIs ==
  ASSUME NEW s \in Texts, ParseNodeValue(s, 1).next # Fail, NEW key
  PROVE  FoundIs(s, FindKey(s, key), GetObjectMember(ParseNodeValue(s, 1).value, key))
<1> DEFINE w == SkipWhitespace(s, 1)
           v == ParseNodeValue(s, w)
           x == v.value
           first == SkipWhitespace(s, w + 1)
           ms == Read(s)[first]["members"].value
<1>1. 1 \in Positions(s) /\ 1 \in 0 .. Len(s) + 1
  BY DEF Positions, Texts
<1>2. w \in Positions(s) /\ SkipWhitespace(s, w) = w /\ v = ParseNodeValue(s, 1)
  BY <1>1, ValueIs
<1>3. v.next # Fail
  BY <1>2
<1> HIDE DEF w
<1>4. w \in 1 .. Len(s) /\ w + 1 \in Positions(s) /\ (IsScalar(s, w, x) \/ HasItems(s, w, x))
  BY <1>2, <1>3, NodeIs
<1>5. After(s, 1, "lbrace") = IF At(s, w) = "lbrace" THEN w + 1 ELSE Fail
  BY DEF After, Past, w
<1> HIDE DEF v, x
<1>6. CASE At(s, w) = "lbrace"
  <2>1. FindKey(s, key) = FindKeyFrom(s, w + 1, key)
    BY <1>5, <1>6 DEF FindKey
  <2>2. \/ At(s, first) = "rbrace" /\ x = MakeObject(<< >>)
        \/ Read(s)[first]["members"].next # Fail /\ x = MakeObject(ms)
    BY <1>4, <1>6 DEF IsScalar, HasItems, Booleans, Digits
  <2>3. first \in Positions(s) /\ FindKeyFrom(s, first, key) = FindKeyFrom(s, w + 1, key)
    BY <1>4, ValueIs, FindEnds
  <2>4. At(s, first) = "rbrace" => FindKeyFrom(s, w + 1, key) = Fail
    BY <1>4, FindEnds
  <2>5. Finds(s, << >>, Fail, key)
    <3>1. << >> \in Seq({}) /\ Len(<< >>) = 0
      OBVIOUS
    <3>2. QED
      BY <3>1 DEF Finds, IsList
  <2>6. Read(s)[first]["members"].next # Fail => Finds(s, ms, FindKeyFrom(s, first, key), key)
    BY <2>3, FindMember
  <2> HIDE DEF first, ms
  <2>7. \E ns : x = MakeObject(ns) /\ Finds(s, ns, FindKey(s, key), key)
    BY <2>1, <2>2, <2>3, <2>4, <2>5, <2>6
  <2>8. QED
    BY <1>2, <2>7, MemberIs DEF x
<1>7. CASE At(s, w) # "lbrace"
  <2>1. FindKey(s, key) = Fail
    BY <1>5, <1>7, FindNothing DEF FindKey
  <2>2. ~Is("object", x)
    BY <1>4, <1>7 DEF IsScalar, HasItems, Is, MakeString, MakeBoolean, MakeNull, MakeNumber, MakeArray
  <2>3. GetObjectMember(x, key) = NoNode
    BY <2>2 DEF GetObjectMember
  <2>4. QED
    BY <1>2, <2>1, <2>3 DEF FoundIs, x
<1>8. QED
  BY <1>6, <1>7

-----------------------------------------------------------------------------
(* The elements of an array, counted and by their index.                   *)

LEMMA CountIs ==
  ASSUME NEW s \in Texts, NEW pos \in Positions(s), Read(s)[pos]["elements"].next # Fail
  PROVE  LET xs == Read(s)[pos]["elements"].value IN
         IsList(xs) /\ Len(xs) \in Nat /\ Len(xs) > 0 /\ CountFrom(s, pos) = Len(xs)
<1> DEFINE n == Len(s) + 1
           Xs(p) == Read(s)[p]["elements"]
           Counts(p) == /\ IsList(Xs(p).value) /\ Len(Xs(p).value) \in Nat /\ Len(Xs(p).value) > 0
                        /\ CountFrom(s, p) = Len(Xs(p).value)
           P == {p \in 1 .. n : Xs(p).next # Fail => Counts(p)}
<1>1. n \in Nat /\ Positions(s) = 1 .. n /\ Len(s) \in Nat
  BY DEF Positions, Texts
<1>2. ASSUME NEW p \in 1 .. n, \A q \in p + 1 .. n : q \in P, Xs(p).next # Fail
      PROVE  Counts(p)
  <2> DEFINE v == ParseNodeValue(s, p)
             w == SkipWhitespace(s, v.next)
  <2>1. /\ v.next \in p + 1 .. n
        /\ \/ At(s, w) = "rbracket" /\ Xs(p).value = <<v.value>>
           \/ /\ At(s, w) = "comma" /\ w + 1 \in p + 1 .. n
              /\ Xs(w + 1).next # Fail
              /\ Xs(p).value = <<v.value>> \o Xs(w + 1).value
    BY <1>1, <1>2, ElementsAre
  <2>2. v.next = SkipValue(s, p)
    BY <1>1, WalkEnds
  <2>3. p <= Len(s)
    BY <1>1, <2>1
  <2>4. /\ At(s, w) = "rbracket" => CountFrom(s, p) = 1
        /\ At(s, w) = "comma" => CountFrom(s, p) = OneMore(CountFrom(s, w + 1))
    BY <1>1, <2>2, <2>3, CountFromIs
  <2> HIDE DEF v, w, Xs
  <2>5. CASE At(s, w) = "rbracket"
    <3>1. Xs(p).value = <<v.value>>
      BY <2>1, <2>5
    <3>2. QED
      BY <2>4, <2>5, <3>1, OneIs
  <2>6. CASE At(s, w) = "comma"
    <3>1. w + 1 \in p + 1 .. n /\ Xs(w + 1).next # Fail /\ Xs(p).value = <<v.value>> \o Xs(w + 1).value
      BY <2>1, <2>6
    <3>2. Counts(w + 1)
      BY <1>2, <3>1
    <3>3. IsList(Xs(p).value) /\ Len(Xs(p).value) = Len(Xs(w + 1).value) + 1
      BY <3>1, <3>2, ConsIs
    <3>4. CountFrom(s, p) = Len(Xs(w + 1).value) + 1
      BY <2>4, <2>6, <3>2 DEF OneMore
    <3>5. QED
      BY <3>2, <3>3, <3>4
  <2>7. QED
    BY <2>1, <2>5, <2>6
<1> HIDE DEF Counts
<1>3. ASSUME NEW p \in 1 .. n, \A q \in p + 1 .. n : q \in P
      PROVE  p \in P
  BY <1>2, <1>3
<1> HIDE DEF P
<1>4. 1 .. n \subseteq P
  BY <1>1, <1>3, Backwards
<1>5. QED
  BY <1>1, <1>4 DEF P, Counts

\* The length that is counted in the text is that of the array.
LEMMA LengthIs ==
  ASSUME NEW s \in Texts, NEW p \in Positions(s), SkipWhitespace(s, p) = p,
         ParseNodeValue(s, p).next # Fail
  PROVE  LengthFrom(s, SkipWhitespace(s, After(s, p, "lbracket"))) = NodeLength(ParseNodeValue(s, p).value)
<1> DEFINE x == ParseNodeValue(s, p).value
           first == SkipWhitespace(s, p + 1)
           xs == Read(s)[first]["elements"].value
<1>1. p + 1 \in Positions(s) /\ (IsScalar(s, p, x) \/ HasItems(s, p, x))
  BY NodeIs
<1>2. After(s, p, "lbracket") = IF At(s, p) = "lbracket" THEN p + 1 ELSE Fail
  BY DEF After, Past
<1> HIDE DEF x
<1>3. CASE At(s, p) = "lbracket"
  <2>1. \/ At(s, first) = "rbracket" /\ x = MakeArray(<< >>)
        \/ Read(s)[first]["elements"].next # Fail /\ At(s, first) # "rbracket" /\ x = MakeArray(xs)
    BY <1>1, <1>3 DEF IsScalar, HasItems, Booleans, Digits
  <2>2. first \in Positions(s)
    BY <1>1, ValueIs
  <2>3. CASE At(s, first) = "rbracket"
    <3>1. LengthFrom(s, first) = 0
      BY <2>3 DEF LengthFrom
    <3>2. NodeLength(x) = 0
      BY <2>1, <2>3 DEF NodeLength, MakeArray, Is
    <3>3. QED
      BY <1>2, <1>3, <3>1, <3>2 DEF x
  <2>4. CASE At(s, first) # "rbracket"
    <3>1. CountFrom(s, first) = Len(xs)
      BY <2>1, <2>2, <2>4, CountIs
    <3>2. At(s, first) # "end"
      <4>1. ParseNodeValue(s, first).next # Fail
        BY <2>1, <2>2, <2>4, ElementsAre
      <4>2. SkipWhitespace(s, first) = first
        BY <1>1, ValueIs
      <4>3. first \in 1 .. Len(s)
        BY <2>2, <4>1, <4>2, NodeIs
      <4>4. Len(s) \in Nat /\ DOMAIN s = 1 .. Len(s)
        BY DEF Texts
      <4>5. IsScalar(s, first, ParseNodeValue(s, first).value)
              \/ HasItems(s, first, ParseNodeValue(s, first).value)
        BY <2>2, <4>1, <4>2, NodeIs
      <4> HIDE DEF first
      <4>6. QED
        BY <4>5 DEF IsScalar, HasItems, Booleans, Digits
    <3>3. LengthFrom(s, first) = Len(xs)
      BY <2>4, <3>1, <3>2 DEF LengthFrom
    <3>4. NodeLength(x) = Len(xs)
      BY <2>1, <2>4 DEF NodeLength, MakeArray, Is
    <3>5. QED
      BY <1>2, <1>3, <3>3, <3>4 DEF x
  <2>5. QED
    BY <2>3, <2>4
<1>4. CASE At(s, p) # "lbracket"
  <2>1. SkipWhitespace(s, Fail) = Fail /\ At(s, Fail) = "end"
    <3>1. Fail \in 0 .. Len(s) + 1
      BY DEF Fail, Texts
    <3>2. QED
      BY <3>1, Solids DEF At, Texts, Fail
  <2>2. LengthFrom(s, SkipWhitespace(s, After(s, p, "lbracket"))) = -1
    BY <1>2, <1>4, <2>1 DEF LengthFrom
  <2>3. ~Is("array", x)
    BY <1>1, <1>4 DEF IsScalar, HasItems, Is, MakeString, MakeBoolean, MakeNull, MakeNumber, MakeObject
  <2>4. QED
    BY <2>2, <2>3 DEF NodeLength, x
<1>5. QED
  BY <1>3, <1>4

\* Where the walk stands when it has passed i elements.
Stands(s, xs, i, pos) ==
    \/ /\ i < Len(xs) /\ pos \in Positions(s)
       /\ Read(s)[pos]["elements"].next # Fail
       /\ LET ys == Read(s)[pos]["elements"].value IN
          Len(ys) = Len(xs) - i /\ \A k \in 1 .. Len(ys) : ys[k] = xs[i + k]
    \/ i >= Len(xs) /\ pos \in 0 .. Len(s) + 1 /\ SkipValue(s, pos) = Fail

LEMMA StandsNext ==
  ASSUME NEW s \in Texts, NEW xs, NEW i \in Nat, NEW pos, Len(xs) \in Nat, Stands(s, xs, i, pos)
  PROVE  Stands(s, xs, i + 1, NextItem(s, pos))
<1>1. CASE i >= Len(xs) /\ pos \in 0 .. Len(s) + 1 /\ SkipValue(s, pos) = Fail
  <2>1. NextItem(s, pos) = Fail
    BY <1>1, NextItemAhead
  <2>2. SkipValue(s, Fail) = Fail /\ Fail \in 0 .. Len(s) + 1
    BY DEF SkipValue, SkipPart, Fail, Texts
  <2>3. i + 1 >= Len(xs)
    BY <1>1
  <2>4. QED
    BY <2>1, <2>2, <2>3 DEF Stands
<1>2. CASE ~(i >= Len(xs) /\ pos \in 0 .. Len(s) + 1 /\ SkipValue(s, pos) = Fail)
  <2> DEFINE r == Read(s)[pos]["elements"]
             ys == r.value
             v == ParseNodeValue(s, pos)
             w == SkipWhitespace(s, v.next)
             zs == Read(s)[w + 1]["elements"].value
  <2>1. /\ i < Len(xs) /\ pos \in Positions(s) /\ r.next # Fail
        /\ Len(ys) = Len(xs) - i /\ \A k \in 1 .. Len(ys) : ys[k] = xs[i + k]
    BY <1>2 DEF Stands
  <2>2. /\ v.next \in pos + 1 .. Len(s) + 1 /\ w \in v.next .. Len(s) + 1
        /\ \/ At(s, w) = "rbracket" /\ ys = <<v.value>>
           \/ /\ At(s, w) = "comma" /\ w + 1 \in pos + 1 .. Len(s) + 1
              /\ Read(s)[w + 1]["elements"].next # Fail
              /\ ys = <<v.value>> \o zs
    BY <2>1, ElementsAre
  <2>3. pos \in 1 .. Len(s) + 1 /\ pos \in 0 .. Len(s) + 1 /\ Len(s) \in Nat
    BY <2>1 DEF Positions, Texts
  <2>4. SkipValue(s, pos) = v.next
    BY <2>3, WalkEnds
  <2>5. NextItem(s, pos) = PastComma(s, w)
    BY <2>4 DEF NextItem
  <2> HIDE DEF v, w
  <2>6. w \in 1 .. Len(s) + 1 /\ w \in 0 .. Len(s) + 1 /\ w \in Positions(s)
    BY <2>2, <2>3 DEF Positions
  <2>7. CASE At(s, w) = "rbracket"
    <3>1. NextItem(s, pos) = w
      BY <2>5, <2>7 DEF PastComma
    <3>2. SkipWhitespace(s, w) = w
      BY <2>6, <2>7, Solids DEF Whitespace
    <3>3. SkipValue(s, w) = Fail
      BY <2>6, <2>7, <3>2, NothingAt
    <3>4. Len(ys) = 1
      BY <2>2, <2>7, OneIs
    <3> HIDE DEF ys
    <3>5. i + 1 >= Len(xs)
      <4>1. Len(xs) - i = 1
        BY <2>1, <3>4
      <4>2. QED
        BY <4>1
    <3>6. QED
      BY <2>6, <3>1, <3>3, <3>5 DEF Stands
  <2>8. CASE At(s, w) = "comma"
    <3>1. NextItem(s, pos) = w + 1
      BY <2>5, <2>8 DEF PastComma
    <3>2. /\ w + 1 \in Positions(s) /\ Read(s)[w + 1]["elements"].next # Fail
          /\ ys = <<v.value>> \o zs
      BY <2>2, <2>3, <2>8 DEF Positions
    <3>3. IsList(zs) /\ Len(zs) \in Nat /\ Len(zs) > 0
      BY <3>2, CountIs
    <3> HIDE DEF ys, zs
    <3>4. Len(ys) = Len(zs) + 1 /\ \A k \in 1 .. Len(zs) : ys[k + 1] = zs[k]
      BY <3>2, <3>3, ConsIs
    <3>5. i + 1 < Len(xs) /\ Len(zs) = Len(xs) - (i + 1)
      <4>1. Len(xs) - i = Len(zs) + 1
        BY <2>1, <3>4
      <4>2. QED
        BY <3>3, <4>1
    <3>6. \A k \in 1 .. Len(zs) : zs[k] = xs[(i + 1) + k]
      <4> TAKE k \in 1 .. Len(zs)
      <4>1. k + 1 \in 1 .. Len(ys) /\ i + (k + 1) = (i + 1) + k
        BY <3>3, <3>4
      <4>2. QED
        BY <2>1, <3>4, <4>1
    <3>7. QED
      BY <3>1, <3>2, <3>5, <3>6 DEF Stands, zs
  <2>9. QED
    BY <2>2, <2>7, <2>8
<1>3. QED
  BY <1>1, <1>2

\* A recursion that goes up from 0 by steps has a solution: for the walk.
LEMMA ElementFromIs ==
  ASSUME NEW s, NEW from, NEW index \in Nat
  PROVE  \E item : /\ item = [i \in 0 .. index |-> IF i = 0 THEN from ELSE NextItem(s, item[i - 1])]
                   /\ ElementFrom(s, from, index) = SkipWhitespace(s, item[index])
<1> DEFINE Steps(f, m) == f = [i \in 0 .. m |-> IF i = 0 THEN from ELSE NextItem(s, f[i - 1])]
           P == {m \in Nat : \E f : Steps(f, m)}
<1>1. 0 \in P
  <2>1. Steps([i \in 0 .. 0 |-> from], 0)
    OBVIOUS
  <2> HIDE DEF Steps
  <2>2. QED
    BY <2>1
<1>2. ASSUME NEW m \in P PROVE m + 1 \in P
  <2>1. PICK f : Steps(f, m)
    OBVIOUS
  <2> DEFINE g == [i \in 0 .. m + 1 |-> IF i = 0 THEN from ELSE NextItem(s, f[i - 1])]
  <2>2. m \in Nat /\ \A i \in 0 .. m : f[i] = IF i = 0 THEN from ELSE NextItem(s, f[i - 1])
    BY <2>1
  <2>3. \A i \in 0 .. m : g[i] = f[i]
    BY <2>2
  <2>4. \A i \in 0 .. m + 1 : i # 0 => i - 1 \in 0 .. m
    BY <2>2
  <2>5. g = [i \in 0 .. m + 1 |-> IF i = 0 THEN from ELSE NextItem(s, g[i - 1])]
    BY <2>3, <2>4
  <2> HIDE DEF g
  <2>6. Steps(g, m + 1)
    BY <2>5
  <2> HIDE DEF Steps
  <2>7. QED
    BY <2>2, <2>6
<1> HIDE DEF P
<1>3. Nat \subseteq P
  BY <1>1, <1>2, Upwards
<1>4. \E f : Steps(f, index)
  BY <1>3 DEF P
<1> DEFINE item == CHOOSE f : Steps(f, index)
<1>5. Steps(item, index)
  BY <1>4
<1>6. ElementFrom(s, from, index) = SkipWhitespace(s, item[index])
  BY DEF ElementFrom
<1> HIDE DEF item
<1>7. QED
  BY <1>5, <1>6

\* The walk to an index ends at that element, or where no value starts.
LEMMA ElementIs ==
  ASSUME NEW s \in Texts, NEW xs, Len(xs) \in Nat, NEW from, Stands(s, xs, 0, from),
         NEW index \in Nat
  PROVE  LET p == ElementFrom(s, from, index) IN
         /\ index < Len(xs) => Starts(s, p, xs[index + 1])
         /\ index >= Len(xs) => SkipValue(s, p) = Fail
<1>1. PICK item : /\ item = [i \in 0 .. index |-> IF i = 0 THEN from ELSE NextItem(s, item[i - 1])]
                  /\ ElementFrom(s, from, index) = SkipWhitespace(s, item[index])
  BY ElementFromIs
<1> DEFINE P == {i \in Nat : i <= index => Stands(s, xs, i, item[i])}
<1>2. 0 \in P
  <2>1. item[0] = from
    BY <1>1
  <2>2. QED
    BY <2>1
<1>3. ASSUME NEW i \in P PROVE i + 1 \in P
  <2>1. SUFFICES ASSUME i + 1 <= index PROVE Stands(s, xs, i + 1, item[i + 1])
    BY <1>3
  <2>2. i \in Nat /\ i <= index /\ Stands(s, xs, i, item[i])
    BY <1>3, <2>1
  <2>3. item[i + 1] = NextItem(s, item[i])
    <3>1. i + 1 \in 0 .. index /\ i + 1 # 0 /\ (i + 1) - 1 = i
      BY <2>1, <2>2
    <3>2. QED
      BY <1>1, <3>1
  <2>4. QED
    BY <2>2, <2>3, StandsNext
<1> HIDE DEF P
<1>4. Nat \subseteq P
  BY <1>2, <1>3, Upwards
<1>5. Stands(s, xs, index, item[index])
  BY <1>4 DEF P
<1> DEFINE a == item[index]
           p == SkipWhitespace(s, a)
<1>6. ElementFrom(s, from, index) = p /\ Stands(s, xs, index, a)
  BY <1>1, <1>5
<1> HIDE DEF a
<1>7. CASE index < Len(xs)
  <2> DEFINE ys == Read(s)[a]["elements"].value
  <2>0. ~(index >= Len(xs))
    BY <1>7
  <2>1. /\ a \in Positions(s) /\ Read(s)[a]["elements"].next # Fail
        /\ Len(ys) = Len(xs) - index /\ \A k \in 1 .. Len(ys) : ys[k] = xs[index + k]
    BY <1>6, <2>0 DEF Stands
  <2>2. ParseNodeValue(s, a).next # Fail /\ ys[1] = ParseNodeValue(s, a).value
    <3> DEFINE v == ParseNodeValue(s, a)
               w == SkipWhitespace(s, v.next)
               zs == Read(s)[w + 1]["elements"].value
    <3>1. /\ v.next # Fail
          /\ \/ ys = <<v.value>>
             \/ /\ w + 1 \in a + 1 .. Len(s) + 1 /\ Read(s)[w + 1]["elements"].next # Fail
                /\ ys = <<v.value>> \o zs
      BY <2>1, ElementsAre
    <3>2. a \in Nat /\ a >= 1 /\ Len(s) \in Nat
      BY <2>1 DEF Positions, Texts
    <3>3. CASE ys = <<v.value>>
      BY <3>1, <3>3, OneIs
    <3>4. CASE w + 1 \in a + 1 .. Len(s) + 1 /\ Read(s)[w + 1]["elements"].next # Fail
               /\ ys = <<v.value>> \o zs
      <4>1. w + 1 \in Positions(s)
        BY <3>2, <3>4 DEF Positions
      <4>2. IsList(zs)
        BY <3>4, <4>1, CountIs
      <4> HIDE DEF zs, v, ys
      <4>3. ys[1] = v.value
        BY <3>4, <4>2, ConsIs
      <4>4. QED
        BY <3>1, <4>3 DEF v
    <3>5. QED
      BY <3>1, <3>3, <3>4
  <2> HIDE DEF ys
  <2>3. 1 \in 1 .. Len(ys)
    BY <1>7, <2>1
  <2>4. ParseNodeValue(s, a).value = xs[index + 1]
    BY <2>1, <2>2, <2>3
  <2>5. p \in Positions(s) /\ SkipWhitespace(s, p) = p /\ ParseNodeValue(s, p) = ParseNodeValue(s, a)
    BY <2>1, ValueIs
  <2>6. Starts(s, p, xs[index + 1])
    BY <2>2, <2>4, <2>5 DEF Starts
  <2>7. QED
    BY <1>6, <1>7, <2>6
<1>8. CASE ~(index < Len(xs))
  <2>1. a \in 0 .. Len(s) + 1 /\ SkipValue(s, a) = Fail
    BY <1>6, <1>8 DEF Stands
  <2>2. SkipValue(s, p) = Fail
    <3>1. CASE a = Fail
      <4>1. p = Fail
        BY <2>1, <3>1, Solids
      <4>2. QED
        BY <2>1, <3>1, <4>1
    <3>2. CASE a # Fail
      <4>1. a \in Positions(s)
        BY <2>1, <3>2 DEF Positions, Fail, Texts
      <4>2. QED
        BY <2>1, <4>1, ValueIs
    <3>3. QED
      BY <3>1, <3>2
  <2>3. QED
    BY <1>6, <1>8, <2>2
<1>9. QED
  BY <1>7, <1>8

-----------------------------------------------------------------------------
(* The path getters, and the theorem.                                      *)

\* A text that stands for a node: of nothing, or read as it.
StandsFor(t, x) ==
    \/ t = << >> /\ x = NoNode
    \/ t \in Texts /\ ParseNodeValue(t, 1).next # Fail /\ ParseNodeValue(t, 1).value = x

LEMMA TextStandsFor ==
  ASSUME NEW s \in Texts, NEW p, NEW x
  PROVE  /\ Starts(s, p, x) => StandsFor(ValueText(s, p), x)
         /\ SkipValue(s, p) = Fail => ValueText(s, p) = << >>
<1>1. ASSUME Starts(s, p, x) PROVE StandsFor(ValueText(s, p), x)
  <2> DEFINE t == ValueText(s, p)
  <2>1. /\ p \in Positions(s) /\ p \in 0 .. Len(s) + 1
        /\ ParseNodeValue(s, p).next # Fail /\ ParseNodeValue(s, p).value = x
    BY <1>1 DEF Starts, Positions, Texts
  <2>2. SkipValue(s, p) # Fail
    BY <2>1, WalkEnds
  <2>3. t \in Texts /\ ParseNodeValue(t, 1) = Parsed(Len(t) + 1, x)
    BY <2>1, <2>2, ValueTextIs
  <2> HIDE DEF t
  <2>4. Len(t) + 1 # Fail
    BY <2>3 DEF Texts, Fail
  <2>5. ParseNodeValue(t, 1).next # Fail /\ ParseNodeValue(t, 1).value = x
    BY <2>3, <2>4, Nexts
  <2>6. QED
    BY <2>3, <2>5 DEF StandsFor, t
<1>2. QED
  BY <1>1 DEF ValueText, Part

LEMMA NothingIn ==
  /\ << >> \in Texts /\ \A symbol : symbol # "end" => After(<< >>, 1, symbol) = Fail
  /\ SkipWhitespace(<< >>, 1) = 1 /\ At(<< >>, 1) = "end"
<1>1. << >> \in Texts /\ Len(<< >>) = 0
  BY DEF Texts
<1>2. At(<< >>, 1) = "end"
  BY DEF At
<1>3. SkipWhitespace(<< >>, 1) = 1
  <2>1. 1 \in 0 .. Len(<< >>) + 1 /\ At(<< >>, 1) \notin Whitespace
    BY <1>1, <1>2 DEF Whitespace
  <2>2. QED
    BY <1>1, <2>1, Solids
<1>4. QED
  BY <1>1, <1>2, <1>3 DEF After, Past

LEMMA IntoKeyIs ==
  ASSUME NEW t, NEW x, StandsFor(t, x), NEW key
  PROVE  StandsFor(IntoKey(t, key), MemberAt(x, key))
<1>1. CASE key = << >>
  BY <1>1 DEF IntoKey, MemberAt
<1>2. CASE key # << >> /\ t = << >> /\ x = NoNode
  <2>1. FindKey(<< >>, key) = Fail
    BY NothingIn, FindNothing DEF FindKey
  <2>2. SkipValue(<< >>, Fail) = Fail
    BY DEF SkipValue, SkipPart
  <2>3. ValueText(<< >>, Fail) = << >>
    BY <2>2 DEF ValueText, Part
  <2>4. GetObjectMember(NoNode, key) = NoNode
    <3>1. ~Is("object", NoNode)
      BY DEF Is, NoNode
    <3>2. QED
      BY <3>1 DEF GetObjectMember
  <2>5. QED
    BY <1>2, <2>1, <2>3, <2>4 DEF IntoKey, MemberAt, StandsFor
<1>3. CASE key # << >> /\ t \in Texts /\ ParseNodeValue(t, 1).next # Fail
           /\ ParseNodeValue(t, 1).value = x
  <2> DEFINE p == FindKey(t, key)
             y == GetObjectMember(x, key)
  <2>1. FoundIs(t, p, y)
    BY <1>3, KeyIs
  <2>2. IntoKey(t, key) = ValueText(t, p) /\ MemberAt(x, key) = y
    BY <1>3 DEF IntoKey, MemberAt
  <2> HIDE DEF p, y
  <2>3. CASE p = Fail /\ y = NoNode
    <3>1. SkipValue(t, p) = Fail
      BY <2>3 DEF SkipValue, SkipPart
    <3>2. QED
      BY <1>3, <2>2, <2>3, <3>1, TextStandsFor DEF StandsFor
  <2>4. CASE Starts(t, p, y)
    BY <1>3, <2>2, <2>4, TextStandsFor
  <2>5. QED
    BY <2>1, <2>3, <2>4 DEF FoundIs
<1>4. QED
  BY <1>1, <1>2, <1>3 DEF StandsFor

\* The walk starts before the elements of the node; there are none in other
\* nodes.
LEMMA ArrayIs ==
  ASSUME NEW t \in Texts, ParseNodeValue(t, 1).next # Fail
  PROVE  LET x == ParseNodeValue(t, 1).value IN
         \E xs : /\ Len(xs) \in Nat /\ Stands(t, xs, 0, After(t, 1, "lbracket"))
                 /\ \A index \in Nat : GetElement(x, index) =
                       IF index < Len(xs) THEN xs[index + 1] ELSE NoNode
<1> DEFINE w == SkipWhitespace(t, 1)
           v == ParseNodeValue(t, w)
           x == v.value
           first == SkipWhitespace(t, w + 1)
           ys == Read(t)[first]["elements"].value
<1>1. 1 \in Positions(t)
  BY DEF Positions, Texts
<1>2. w \in Positions(t) /\ SkipWhitespace(t, w) = w /\ v = ParseNodeValue(t, 1)
  BY <1>1, ValueIs
<1>3. v.next # Fail
  BY <1>2
<1> HIDE DEF w
<1>4. w \in 1 .. Len(t) /\ w + 1 \in Positions(t) /\ (IsScalar(t, w, x) \/ HasItems(t, w, x))
  BY <1>2, <1>3, NodeIs
<1>5. After(t, 1, "lbracket") = IF At(t, w) = "lbracket" THEN w + 1 ELSE Fail
  BY DEF After, Past, w
<1> HIDE DEF v, x
<1>6. << >> \in Seq({}) /\ Len(<< >>) = 0
  OBVIOUS
<1>7. CASE At(t, w) = "lbracket"
  <2>1. \/ At(t, first) = "rbracket" /\ x = MakeArray(<< >>)
        \/ Read(t)[first]["elements"].next # Fail /\ x = MakeArray(ys)
    BY <1>4, <1>7 DEF IsScalar, HasItems, Booleans, Digits
  <2>2. first \in Positions(t) /\ Read(t)[first]["elements"] = Read(t)[w + 1]["elements"]
    BY <1>4, ValueIs
  <2>3. \A xs : /\ GetElement(MakeArray(xs), 0) = GetElement(MakeArray(xs), 0)
                /\ \A index \in Nat : Len(xs) \in Nat =>
                      GetElement(MakeArray(xs), index) =
                         IF index < Len(xs) THEN xs[index + 1] ELSE NoNode
    BY DEF GetElement, MakeArray, Is
  <2>4. CASE At(t, first) = "rbracket" /\ x = MakeArray(<< >>)
    <3>1. SkipValue(t, w + 1) = Fail
      BY <1>4, <2>4, NothingAt
    <3>2. w + 1 \in 0 .. Len(t) + 1
      BY <1>4 DEF Positions, Texts
    <3>3. Stands(t, << >>, 0, w + 1)
      BY <1>6, <3>1, <3>2 DEF Stands
    <3>4. QED
      BY <1>2, <1>5, <1>6, <1>7, <2>3, <2>4, <3>3 DEF x
  <2>5. CASE Read(t)[first]["elements"].next # Fail /\ x = MakeArray(ys)
    <3>1. ys = Read(t)[w + 1]["elements"].value /\ Read(t)[w + 1]["elements"].next # Fail
      BY <2>2, <2>5
    <3>2. Len(ys) \in Nat /\ Len(ys) > 0
      BY <2>2, <2>5, CountIs
    <3>3. Stands(t, ys, 0, w + 1)
      <4>1. 0 < Len(ys) /\ Len(ys) = Len(ys) - 0 /\ \A k \in 1 .. Len(ys) : 0 + k = k
        BY <3>2
      <4> HIDE DEF ys
      <4>2. QED
        BY <1>4, <3>1, <4>1 DEF Stands
    <3> HIDE DEF ys
    <3>4. QED
      BY <1>2, <1>5, <1>7, <2>3, <2>5, <3>2, <3>3 DEF x
  <2>6. QED
    BY <2>1, <2>4, <2>5
<1>8. CASE At(t, w) # "lbracket"
  <2>1. ~Is("array", x)
    BY <1>4, <1>8 DEF IsScalar, HasItems, Is, MakeString, MakeBoolean, MakeNull, MakeNumber, MakeObject
  <2>2. \A index : GetElement(x, index) = NoNode
    BY <2>1 DEF GetElement
  <2>3. Stands(t, << >>, 0, Fail)
    <3>1. SkipValue(t, Fail) = Fail /\ Fail \in 0 .. Len(t) + 1
      BY DEF SkipValue, SkipPart, Fail, Texts
    <3>2. QED
      BY <1>6, <3>1 DEF Stands
  <2>4. QED
    BY <1>2, <1>5, <1>6, <1>8, <2>2, <2>3 DEF x
<1>9. QED
  BY <1>7, <1>8

LEMMA IntoIndexIs ==
  ASSUME NEW t, NEW x, StandsFor(t, x), NEW index \in Int
  PROVE  StandsFor(IntoIndex(t, index), ElementAt(x, index))
<1> DEFINE p == FindElement(t, index)
<1>1. CASE index < 0
  BY <1>1 DEF IntoIndex, ElementAt
<1>2. CASE ~(index < 0)
  <2>1. index \in Nat
    BY <1>2
  <2>2. IntoIndex(t, index) = ValueText(t, p) /\ ElementAt(x, index) = GetElement(x, index)
    BY <1>2 DEF IntoIndex, ElementAt
  <2>3. t \in Texts
    BY NothingIn DEF StandsFor
  <2>4. \E xs : /\ Len(xs) \in Nat /\ Stands(t, xs, 0, After(t, 1, "lbracket"))
                /\ GetElement(x, index) = IF index < Len(xs) THEN xs[index + 1] ELSE NoNode
    <3>1. CASE t = << >> /\ x = NoNode
      <4>1. After(t, 1, "lbracket") = Fail
        BY <3>1, NothingIn
      <4>2. SkipValue(t, Fail) = Fail /\ Fail \in 0 .. Len(t) + 1 /\ Len(<< >>) = 0
        BY <2>3 DEF SkipValue, SkipPart, Fail, Texts
      <4>3. Stands(t, << >>, 0, Fail)
        BY <4>2 DEF Stands
      <4>4. GetElement(NoNode, index) = NoNode
        BY DEF GetElement, Is, NoNode
      <4>5. QED
        BY <2>1, <3>1, <4>1, <4>2, <4>3, <4>4
    <3>2. CASE t \in Texts /\ ParseNodeValue(t, 1).next # Fail /\ ParseNodeValue(t, 1).value = x
      BY <2>1, <3>2, ArrayIs
    <3>3. QED
      BY <3>1, <3>2 DEF StandsFor
  <2>5. PICK xs : /\ Len(xs) \in Nat /\ Stands(t, xs, 0, After(t, 1, "lbracket"))
                  /\ GetElement(x, index) = IF index < Len(xs) THEN xs[index + 1] ELSE NoNode
    BY <2>4
  <2>6. /\ index < Len(xs) => Starts(t, p, xs[index + 1])
        /\ index >= Len(xs) => SkipValue(t, p) = Fail
    BY <2>1, <2>3, <2>5, ElementIs DEF FindElement
  <2> HIDE DEF p
  <2>7. CASE index < Len(xs)
    <3>1. GetElement(x, index) = xs[index + 1] /\ Starts(t, p, xs[index + 1])
      BY <2>5, <2>6, <2>7
    <3>2. QED
      BY <2>2, <2>3, <3>1, TextStandsFor
  <2>8. CASE ~(index < Len(xs))
    <3>1. GetElement(x, index) = NoNode
      BY <2>5, <2>8
    <3>2. index >= Len(xs)
      BY <2>1, <2>5, <2>8
    <3>3. ValueText(t, p) = << >>
      BY <2>3, <2>6, <3>2, TextStandsFor
    <3>4. QED
      BY <2>2, <3>1, <3>3 DEF StandsFor
  <2>9. QED
    BY <2>7, <2>8
<1>3. QED
  BY <1>1, <1>2

TextStep(t, segment) == IntoIndex(IntoKey(t, segment.key), segment.index)
NodeStep(x, segment) == ElementAt(MemberAt(x, segment.key), segment.index)

Walked(s, x, path, f, g) ==
    /\ f = [i \in 0 .. Len(path) |-> IF i = 0 THEN s ELSE TextStep(f[i - 1], path[i])]
    /\ g = [i \in 0 .. Len(path) |-> IF i = 0 THEN x ELSE NodeStep(g[i - 1], path[i])]
    /\ FindNestedKey(s, path) = f[Len(path)]
    /\ NodeAt(x, path) = g[Len(path)]

\* The walk down a path, through texts and through nodes, is well defined.
LEMMA PathIs ==
  ASSUME NEW s, NEW x, NEW path, Len(path) \in Nat
  PROVE  \E f, g : Walked(s, x, path, f, g)
<1> DEFINE Texted(f, m) == f = [i \in 0 .. m |-> IF i = 0 THEN s ELSE TextStep(f[i - 1], path[i])]
           Noded(g, m) == g = [i \in 0 .. m |-> IF i = 0 THEN x ELSE NodeStep(g[i - 1], path[i])]
           P == {m \in Nat : (\E f : Texted(f, m)) /\ (\E g : Noded(g, m))}
<1>1. 0 \in P
  <2>1. Texted([i \in 0 .. 0 |-> s], 0) /\ Noded([i \in 0 .. 0 |-> x], 0)
    OBVIOUS
  <2> HIDE DEF Texted, Noded
  <2>2. QED
    BY <2>1
<1>2. ASSUME NEW m \in P PROVE m + 1 \in P
  <2>1. PICK f, g : Texted(f, m) /\ Noded(g, m)
    OBVIOUS
  <2> DEFINE h == [i \in 0 .. m + 1 |-> IF i = 0 THEN s ELSE TextStep(f[i - 1], path[i])]
             k == [i \in 0 .. m + 1 |-> IF i = 0 THEN x ELSE NodeStep(g[i - 1], path[i])]
  <2>2. /\ m \in Nat
        /\ \A i \in 0 .. m : f[i] = IF i = 0 THEN s ELSE TextStep(f[i - 1], path[i])
        /\ \A i \in 0 .. m : g[i] = IF i = 0 THEN x ELSE NodeStep(g[i - 1], path[i])
    BY <2>1
  <2>3. \A i \in 0 .. m : h[i] = f[i] /\ k[i] = g[i]
    BY <2>2
  <2>4. \A i \in 0 .. m + 1 : i # 0 => i - 1 \in 0 .. m
    BY <2>2
  <2>5. h = [i \in 0 .. m + 1 |-> IF i = 0 THEN s ELSE TextStep(h[i - 1], path[i])]
    BY <2>3, <2>4
  <2>6. k = [i \in 0 .. m + 1 |-> IF i = 0 THEN x ELSE NodeStep(k[i - 1], path[i])]
    BY <2>3, <2>4
  <2> HIDE DEF h, k
  <2>7. Texted(h, m + 1) /\ Noded(k, m + 1)
    BY <2>5, <2>6
  <2> HIDE DEF Texted, Noded
  <2>8. QED
    BY <2>2, <2>7
<1> HIDE DEF P
<1>3. Nat \subseteq P
  BY <1>1, <1>2, Upwards
<1>4. (\E f : Texted(f, Len(path))) /\ (\E g : Noded(g, Len(path)))
  BY <1>3 DEF P
<1> DEFINE f == CHOOSE h : Texted(h, Len(path))
           g == CHOOSE h : Noded(h, Len(path))
<1>5. Texted(f, Len(path)) /\ Noded(g, Len(path))
  BY <1>4
<1>6. FindNestedKey(s, path) = f[Len(path)] /\ NodeAt(x, path) = g[Len(path)]
  BY DEF FindNestedKey, NodeAt, TextStep, NodeStep
<1> HIDE DEF f, g
<1>7. Walked(s, x, path, f, g)
  BY <1>5, <1>6 DEF Walked
<1>8. QED
  BY <1>7

\* A path leads through the text to what it leads to through the nodes.
LEMMA NestedIs ==
  ASSUME NEW s, NEW x, StandsFor(s, x),
         NEW path \in Seq([key : Seq(STRING), index : Int])
  PROVE  StandsFor(FindNestedKey(s, path), NodeAt(x, path))
<1>1. Len(path) \in Nat
  OBVIOUS
<1>2. PICK f, g : Walked(s, x, path, f, g)
  BY <1>1, PathIs
<1> DEFINE P == {i \in Nat : i <= Len(path) => StandsFor(f[i], g[i])}
<1>3. 0 \in P
  <2>1. f[0] = s /\ g[0] = x
    BY <1>1, <1>2 DEF Walked
  <2>2. QED
    BY <2>1
<1>4. ASSUME NEW i \in P PROVE i + 1 \in P
  <2>1. SUFFICES ASSUME i + 1 <= Len(path) PROVE StandsFor(f[i + 1], g[i + 1])
    BY <1>4
  <2>2. i \in Nat /\ i <= Len(path) /\ StandsFor(f[i], g[i])
    BY <1>1, <1>4, <2>1
  <2>3. i + 1 \in 0 .. Len(path) /\ i + 1 # 0 /\ (i + 1) - 1 = i /\ i + 1 \in 1 .. Len(path)
    BY <1>1, <2>1, <2>2
  <2>4. f[i + 1] = TextStep(f[i], path[i + 1]) /\ g[i + 1] = NodeStep(g[i], path[i + 1])
    BY <1>2, <2>3 DEF Walked
  <2>5. StandsFor(IntoKey(f[i], path[i + 1].key), MemberAt(g[i], path[i + 1].key))
    BY <2>2, IntoKeyIs
  <2>6. path[i + 1].index \in Int
    <3>1. path[i + 1] \in [key : Seq(STRING), index : Int]
      BY <2>3, ElementOfSeq
    <3>2. QED
      BY <3>1
  <2>7. QED
    BY <2>4, <2>5, <2>6, IntoIndexIs DEF TextStep, NodeStep
<1> HIDE DEF P
<1>5. Nat \subseteq P
  BY <1>3, <1>4, Upwards
<1>6. StandsFor(f[Len(path)], g[Len(path)])
  BY <1>1, <1>5 DEF P
<1>7. QED
  BY <1>2, <1>6 DEF Walked

\* What is read at the start of the text of a node is what the node gives.
LEMMA TextReads ==
  ASSUME NEW t, NEW x, StandsFor(t, x)
  PROVE  ReadsAs(t, 1, x)
<1> DEFINE w == SkipWhitespace(t, 1)
<1>1. t \in Texts
  BY NothingIn DEF StandsFor
<1>2. 1 \in Positions(t) /\ 1 \in 0 .. Len(t) + 1
  BY <1>1 DEF Positions, Texts
<1>3. w \in Positions(t) /\ SkipWhitespace(t, w) = w /\ ParseNodeValue(t, 1) = ParseNodeValue(t, w)
  BY <1>1, <1>2, ValueIs
<1>4. /\ ParseString(t, 1) = ParseString(t, w) /\ ParseNumber(t, 1) = ParseNumber(t, w)
      /\ ParseBool(t, 1) = ParseBool(t, w)
  BY <1>1, <1>2, ScalarsAhead
<1>5. CASE t = << >> /\ x = NoNode
  <2>1. w = 1 /\ At(t, 1) = "end"
    BY <1>5, NothingIn
  <2>2. /\ ParseString(t, 1) = NotParsed /\ ParseNumber(t, 1) = NotParsed
        /\ ParseBool(t, 1) = NotParsed
    <3>1. SkipWhitespace(t, 1) = 1 /\ At(t, 1) \notin {"quote", "minus"} \cup Booleans \cup Digits
      BY <2>1 DEF Booleans, Digits
    <3>2. QED
      BY <1>1, <1>2, <3>1, FirstSymbol
  <2>3. \A d : OrElse(NotParsed, d) = d
    BY Nexts DEF OrElse
  <2>4. \A d : NodeString(NoNode, d) = d /\ NodeInt(NoNode, d) = d /\ NodeBool(NoNode, d) = d
    BY DEF NodeString, NodeInt, NodeBool, Is, NoNode
  <2>5. QED
    BY <1>5, <2>2, <2>3, <2>4 DEF ReadsAs
<1>6. CASE ParseNodeValue(t, 1).next # Fail /\ ParseNodeValue(t, 1).value = x
  <2> HIDE DEF w
  <2>1. ReadsAs(t, w, x)
    BY <1>1, <1>3, <1>6, NodeReads
  <2>2. QED
    BY <1>4, <2>1 DEF ReadsAs
<1>7. QED
  BY <1>5, <1>6 DEF StandsFor

LEMMA KeysAgree ==
  ASSUME NEW s \in Texts, ParseNodeValue(s, 1).next # Fail, NEW key
  PROVE  KeyGettersAgree(s, ParseNodeValue(s, 1).value, key)
<1> DEFINE node == ParseNodeValue(s, 1).value
           p == FindKey(s, key)
           x == GetObjectMember(node, key)
<1>1. FoundIs(s, p, x)
  BY KeyIs
<1>2. Fail \in 0 .. Len(s) + 1 /\ At(s, Fail) = "end"
  BY DEF Fail, Texts, At
<1>3. SkipWhitespace(s, Fail) = Fail
  BY <1>2, Solids
<1> DEFINE q == IF key = << >> THEN 1 ELSE p
           y == IF key = << >> THEN node ELSE x
<1>4. ReadsAs(s, p, x) /\ (p # Fail <=> x # NoNode)
  <2> HIDE DEF p, x
  <2>1. CASE p = Fail /\ x = NoNode
    <3>1. /\ ParseString(s, p) = NotParsed /\ ParseNumber(s, p) = NotParsed
          /\ ParseBool(s, p) = NotParsed
      BY <1>2, <1>3, <2>1, FirstSymbol DEF Booleans, Digits
    <3>2. \A d : OrElse(NotParsed, d) = d
      BY Nexts DEF OrElse
    <3>3. \A d : NodeString(NoNode, d) = d /\ NodeInt(NoNode, d) = d /\ NodeBool(NoNode, d) = d
      BY DEF NodeString, NodeInt, NodeBool, Is, NoNode
    <3>4. QED
      BY <2>1, <3>1, <3>2, <3>3 DEF ReadsAs
  <2>2. CASE Starts(s, p, x)
    <3>1. p # Fail
      BY <2>2 DEF Starts, Positions, Fail, Texts
    <3>2. QED
      BY <2>2, <3>1, NodeReads DEF Starts
  <2>3. QED
    BY <1>1, <2>1, <2>2 DEF FoundIs
<1>5. LengthFrom(s, SkipWhitespace(s, After(s, q, "lbracket"))) = NodeLength(y)
  <2>1. CASE key # << >> /\ p = Fail
    <3>1. x = NoNode
      BY <1>4, <2>1
    <3> HIDE DEF p, x
    <3>2. After(s, q, "lbracket") = Fail
      BY <1>2, <2>1, AfterIs
    <3>3. LengthFrom(s, SkipWhitespace(s, Fail)) = -1
      BY <1>2, <1>3 DEF LengthFrom
    <3>4. NodeLength(NoNode) = -1
      BY DEF NodeLength, Is, NoNode
    <3>5. QED
      BY <2>1, <3>1, <3>2, <3>3, <3>4
  <2>2. CASE key # << >> /\ p # Fail
    <3> HIDE DEF p, x
    <3>1. Starts(s, p, x)
      BY <1>1, <2>2 DEF FoundIs
    <3>2. QED
      BY <2>2, <3>1, LengthIs DEF Starts
  <2>3. CASE key = << >>
    <3> DEFINE w == SkipWhitespace(s, 1)
    <3>1. 1 \in Positions(s)
      BY DEF Positions, Texts
    <3>2. w \in Positions(s) /\ SkipWhitespace(s, w) = w /\ ParseNodeValue(s, w) = ParseNodeValue(s, 1)
      BY <3>1, ValueIs
    <3>3. After(s, 1, "lbracket") = After(s, w, "lbracket")
      BY <3>2 DEF After
    <3> HIDE DEF w
    <3>4. LengthFrom(s, SkipWhitespace(s, After(s, w, "lbracket"))) = NodeLength(ParseNodeValue(s, w).value)
      BY <3>2, LengthIs
    <3>5. QED
      BY <2>3, <3>2, <3>3, <3>4
  <2>4. QED
    BY <2>1, <2>2, <2>3
<1>6. ArrayLength(s, key) = NodeLength(y)
  BY <1>5 DEF ArrayLength
<1>7. HasKey(s, key) <=> x # NoNode
  BY <1>4 DEF HasKey
<1>8. /\ GetString(s, key, "default") = NodeString(x, "default")
      /\ GetInt(s, key, "default") = NodeInt(x, "default")
      /\ GetBool(s, key, "default") = NodeBool(x, "default")
  BY <1>4 DEF ReadsAs, GetString, GetInt, GetBool
<1>9. QED
  BY <1>6, <1>7, <1>8 DEF KeyGettersAgree

\* Whatever the texts a client sends, the keys and the paths: from every
\* position of every text the walk of the getters ends where the parser of
\* nodes ends, and on a text that is JSON the getters give what the nodes give.
THEOREM ReadersAlwaysAgree ==
  ASSUME bodies \subseteq Bodies
  PROVE  ReadersAgree
<1>1. SUFFICES ASSUME NEW body \in bodies
               PROVE  SkipsWhatItParses(body) /\ GettersAgree(body)
  BY DEF ReadersAgree
<1>2. body \in Texts
  BY BodiesAssumption DEF Texts
<1>3. SkipsWhatItParses(body)
  BY <1>2, WalkEnds
<1>4. GettersAgree(body)
  <2> DEFINE v == ParseNodeValue(body, 1)
  <2>1. SUFFICES ASSUME Accepted(body)
                 PROVE  LET node == ParseNode(body).value IN
                        /\ \A key \in GetterKeys : KeyGettersAgree(body, node, key)
                        /\ \A path \in GetterPaths : PathGettersAgree(body, node, path)
    BY DEF GettersAgree
  <2>2. v.next # Fail /\ ParseNode(body) = v
    BY <2>1, Nexts DEF Accepted, ParseNode, Whole
  <2>3. \A key \in GetterKeys : KeyGettersAgree(body, v.value, key)
    BY <1>2, <2>2, KeysAgree
  <2>4. ASSUME NEW path \in GetterPaths PROVE PathGettersAgree(body, v.value, path)
    <3>1. path \in Seq([key : Seq(STRING), index : Int])
      BY PathsAssumption
    <3>2. StandsFor(body, v.value)
      BY <1>2, <2>2 DEF StandsFor
    <3>3. StandsFor(FindNestedKey(body, path), NodeAt(v.value, path))
      BY <3>1, <3>2, NestedIs
    <3>4. ReadsAs(FindNestedKey(body, path), 1, NodeAt(v.value, path))
      BY <3>3, TextReads
    <3>5. QED
      BY <3>4 DEF ReadsAs, PathGettersAgree, GetNestedString, GetNestedInt
  <2>5. QED
    BY <2>2, <2>3, <2>4
<1>5. QED
  BY <1>3, <1>4

-----------------------------------------------------------------------------
(* Strings of the grammar.                                                 *)

\* No symbol of the text stands for its end.
NoEnd(s) == \A k \in 1 .. Len(s) : At(s, k) # "end"

\* A choice of characters is made of those behind it.
LEMMA CharsIs ==
  ASSUME NEW s, NEW j \in Nat, NEW k \in 1 .. j
  PROVE  Chars(s, j)[k] <=> IsChars(s, Chars(s, j), j, k)
<1> DEFINE All(f) == [p \in 1 .. j |-> IsChars(s, f, j, p)]
           F == [f \in [1 .. j -> BOOLEAN] |-> All(f)]
<1>1. ASSUME NEW f PROVE All(f) \in [1 .. j -> BOOLEAN]
  <2>1. \A p \in 1 .. j : IsChars(s, f, j, p) \in BOOLEAN
    BY DEF IsChars
  <2>2. QED
    BY <2>1
<1>2. F \in [[1 .. j -> BOOLEAN] -> [1 .. j -> BOOLEAN]]
  <2> HIDE DEF All
  <2>1. QED
    BY <1>1
<1>3. ASSUME NEW f \in [1 .. j -> BOOLEAN], NEW g \in [1 .. j -> BOOLEAN], NEW p \in 1 .. j,
             \A q \in p + 1 .. j : f[q] = g[q]
      PROVE  F[f][p] = F[g][p]
  <2>1. IsChars(s, f, j, p) = IsChars(s, g, j, p)
    <3>1. p < j => f[p + 1] = g[p + 1]
      BY <1>3
    <3>2. p < j - 1 => f[p + 2] = g[p + 2]
      BY <1>3
    <3>3. QED
      BY <3>1, <3>2 DEF IsChars
  <2>2. QED
    BY <2>1
<1>4. PICK f \in [1 .. j -> BOOLEAN] : f = F[f]
  <2> DEFINE V == BOOLEAN
  <2>1. LooksAhead(j, V, F)
    BY <1>2, <1>3 DEF LooksAhead
  <2>2. PICK v : v \in V
    OBVIOUS
  <2> HIDE DEF F, V
  <2>3. \E f \in [1 .. j -> V] : f = F[f]
    BY <2>1, <2>2, Descending
  <2>4. QED
    BY <2>3 DEF V
<1>5. f = All(f)
  BY <1>4
<1> DEFINE chars == CHOOSE h : h = [p \in 1 .. j |-> IsChars(s, h, j, p)]
<1>6. chars = [p \in 1 .. j |-> IsChars(s, chars, j, p)]
  BY <1>5
<1>7. Chars(s, j) = chars
  BY DEF Chars
<1> HIDE DEF chars
<1>8. chars[k] = IsChars(s, chars, j, k)
  BY <1>6
<1>9. QED
  BY <1>7, <1>8

\* What is read up to a quote is characters up to it.
LEMMA RestIsChars ==
  ASSUME NEW s \in Texts, NEW pos \in Positions(s), StringRest(s)[pos].next # Fail
  PROVE  LET j == StringRest(s)[pos].next - 1 IN
         j \in pos .. Len(s) /\ s[j] = "quote" /\ Chars(s, j)[pos]
<1> DEFINE n == Len(s) + 1
           f == StringRest(s)
           Good(p, q) == q - 1 \in p .. Len(s) /\ s[q - 1] = "quote" /\ Chars(s, q - 1)[p]
           P == {p \in 1 .. n : f[p].next # Fail => Good(p, f[p].next)}
<1>1. n \in Nat /\ Positions(s) = 1 .. n /\ Len(s) \in Nat
  BY DEF Texts, Positions
<1>2. \A p \in 1 .. n : f[p] = CharsFrom(s, f, p)
  BY <1>1, StringRestIs
<1> HIDE DEF f
<1>3. ASSUME NEW p \in 1 .. n, \A q \in p + 1 .. n : q \in P, f[p].next # Fail
      PROVE  Good(p, f[p].next)
  <2>1. CASE At(s, p) = "end"
    BY <1>2, <1>3, <2>1, Nexts DEF CharsFrom
  <2>2. CASE At(s, p) = "quote"
    <3>1. p \in 1 .. Len(s) /\ s[p] = "quote"
      BY <2>2, SomethingAt
    <3>2. f[p].next = p + 1
      BY <1>2, <2>2, Nexts DEF CharsFrom
    <3>3. Chars(s, p)[p]
      BY <3>1, CharsIs DEF IsChars
    <3>4. p + 1 - 1 = p
      OBVIOUS
    <3>5. QED
      BY <3>1, <3>2, <3>3, <3>4
  <2>3. CASE At(s, p) = "bs" /\ p < Len(s)
    <3>1. p + 2 \in p + 1 .. n /\ s[p] = "bs"
      BY <1>1, <2>3, SomethingAt
    <3>2. f[p] = Joined(Unescaped(s[p + 1]), f[p + 2])
      BY <1>2, <2>3 DEF CharsFrom
    <3>3. f[p].next = f[p + 2].next
      BY <3>2, Nexts
    <3>4. Good(p + 2, f[p].next)
      BY <1>3, <3>1, <3>3
    <3> DEFINE j == f[p].next - 1
    <3>5. j \in p + 2 .. Len(s) /\ s[j] = "quote" /\ Chars(s, j)[p + 2]
      BY <3>4
    <3> HIDE DEF j
    <3>6. j \in Nat /\ p \in 1 .. j /\ p < j - 1 /\ j \in p .. Len(s)
      BY <1>1, <3>5
    <3>7. Chars(s, j)[p]
      BY <3>1, <3>5, <3>6, CharsIs DEF IsChars
    <3>8. QED
      BY <3>5, <3>6, <3>7 DEF j
  <2>4. CASE At(s, p) \notin {"end", "quote"} /\ ~(At(s, p) = "bs" /\ p < Len(s))
    <3>1. p + 1 \in p + 1 .. n /\ s[p] = At(s, p) /\ p \in 1 .. Len(s)
      BY <1>1, <2>4, SomethingAt
    <3>2. f[p] = Joined(s[p], f[p + 1])
      BY <1>2, <2>4 DEF CharsFrom
    <3>3. f[p].next = f[p + 1].next
      BY <3>2, Nexts
    <3>4. Good(p + 1, f[p].next)
      BY <1>3, <3>1, <3>3
    <3> DEFINE j == f[p].next - 1
    <3>5. j \in p + 1 .. Len(s) /\ s[j] = "quote" /\ Chars(s, j)[p + 1]
      BY <3>4
    <3> HIDE DEF j
    <3>6. j \in Nat /\ p \in 1 .. j /\ p < j /\ j \in p .. Len(s) /\ p < Len(s)
      BY <1>1, <3>5
    <3>7. s[p] \notin {"quote", "bs"}
      BY <2>4, <3>1, <3>6
    <3>8. Chars(s, j)[p]
      BY <3>5, <3>6, <3>7, CharsIs DEF IsChars
    <3>9. QED
      BY <3>5, <3>6, <3>8 DEF j
  <2>5. QED
    BY <2>1, <2>2, <2>3, <2>4
<1> HIDE DEF Good
<1>4. 1 .. n \subseteq P
  <2>1. ASSUME NEW p \in 1 .. n, \A q \in p + 1 .. n : q \in P PROVE p \in P
    BY <1>3, <2>1
  <2> HIDE DEF P
  <2>2. QED
    BY <1>1, <2>1, Backwards
<1>5. Good(pos, f[pos].next)
  BY <1>1, <1>4 DEF f
<1>6. QED
  BY <1>5 DEF Good, f

\* Characters up to a quote are read up to it.
LEMMA CharsAreRead ==
  ASSUME NEW s \in Texts, NoEnd(s), NEW j \in 1 .. Len(s), s[j] = "quote"
  PROVE  \A k \in 1 .. j : Chars(s, j)[k] => StringRest(s)[k].next = j + 1
<1> DEFINE n == Len(s) + 1
           f == StringRest(s)
           P == {k \in 1 .. j : Chars(s, j)[k] => f[k].next = j + 1}
<1>1. n \in Nat /\ Positions(s) = 1 .. n /\ Len(s) \in Nat /\ j \in Nat /\ j \in Int
  BY DEF Texts, Positions
<1>2. \A p \in 1 .. n : f[p] = CharsFrom(s, f, p)
  BY <1>1, StringRestIs
<1> HIDE DEF f
<1>3. ASSUME NEW k \in 1 .. j, \A q \in k + 1 .. j : q \in P, Chars(s, j)[k]
      PROVE  f[k].next = j + 1
  <2>1. k \in 1 .. n /\ k \in 1 .. Len(s) /\ At(s, k) = s[k] /\ At(s, k) # "end"
    BY <1>1 DEF NoEnd, At, Texts
  <2>2. IsChars(s, Chars(s, j), j, k)
    BY <1>1, <1>3, CharsIs
  <2>3. CASE k = j
    BY <1>2, <2>1, <2>3, Nexts DEF CharsFrom
  <2>4. CASE k < j /\ s[k] \notin {"quote", "bs"} /\ Chars(s, j)[k + 1]
    <3>1. k + 1 \in k + 1 .. j
      BY <1>1, <2>4
    <3>2. f[k + 1].next = j + 1
      BY <1>3, <2>4, <3>1
    <3>3. f[k] = Joined(s[k], f[k + 1])
      BY <1>2, <2>1, <2>4 DEF CharsFrom
    <3>4. QED
      BY <3>2, <3>3, Nexts
  <2>5. CASE k < j - 1 /\ s[k] = "bs" /\ Chars(s, j)[k + 2]
    <3>1. k + 2 \in k + 1 .. j /\ k < Len(s)
      BY <1>1, <2>5
    <3>2. f[k + 2].next = j + 1
      BY <1>3, <2>5, <3>1
    <3>3. f[k] = Joined(Unescaped(s[k + 1]), f[k + 2])
      BY <1>2, <2>1, <2>5, <3>1 DEF CharsFrom
    <3>4. QED
      BY <3>2, <3>3, Nexts
  <2>6. QED
    BY <2>2, <2>3, <2>4, <2>5 DEF IsChars
<1>4. 1 .. j \subseteq P
  <2>1. ASSUME NEW p \in 1 .. j, \A q \in p + 1 .. j : q \in P PROVE p \in P
    BY <1>3, <2>1
  <2> HIDE DEF P
  <2>2. QED
    BY <1>1, <2>1, Backwards
<1>5. QED
  BY <1>4 DEF f

\* White space before a position, and behind it.
White(s, i, j) == \A k \in i .. j : At(s, k) \in Whitespace

LEMMA SkipIsWhite ==
  ASSUME NEW s \in Texts, NEW pos \in 0 .. Len(s) + 1
  PROVE  White(s, pos, SkipWhitespace(s, pos) - 1)
<1>1. "end" \notin Whitespace
  BY DEF Whitespace
<1>2. IsFirstNot(s, pos, Whitespace, SkipWhitespace(s, pos))
  BY <1>1, FirstNotIs DEF SkipWhitespace
<1>3. QED
  BY <1>2 DEF IsFirstNot, White

LEMMA WhiteIsSkipped ==
  ASSUME NEW s \in Texts, NEW pos \in 0 .. Len(s) + 1, NEW q \in pos .. Len(s) + 1,
         White(s, pos, q - 1), At(s, q) \notin Whitespace
  PROVE  SkipWhitespace(s, pos) = q
<1>1. "end" \notin Whitespace
  BY DEF Whitespace
<1>2. IsFirstNot(s, pos, Whitespace, q)
  BY DEF IsFirstNot, White
<1>3. QED
  BY <1>1, <1>2, FirstNotIsOne DEF SkipWhitespace

\* A string is read where the grammar has one, and nowhere else.
LEMMA ReadIsString ==
  ASSUME NEW s \in Texts, NEW pos \in 0 .. Len(s) + 1, ParseString(s, pos).next # Fail
  PROVE  LET w == SkipWhitespace(s, pos)
             q == ParseString(s, pos).next
         IN  w \in 1 .. Len(s) /\ q - 1 \in w + 1 .. Len(s) /\ IsString(s, w, q - 1)
<1> DEFINE w == SkipWhitespace(s, pos)
           q == ParseString(s, pos).next
<1>1. After(s, pos, "quote") = Past(s, w, "quote")
  BY DEF After
<1>2. ParseString(s, pos) = OpenString(s, Past(s, w, "quote")) /\ q # Fail
  BY <1>1 DEF ParseString
<1> HIDE DEF w, q
<1>3. At(s, w) = "quote"
  <2>1. CASE At(s, w) # "quote"
    <3>1. ParseString(s, pos) = NotParsed
      BY <1>2, <2>1 DEF Past, OpenString
    <3>2. QED
      BY <1>2, <3>1, Nexts DEF q
  <2>2. QED
    BY <2>1
<1>4. w \in 1 .. Len(s) /\ w + 1 \in Positions(s) /\ s[w] = "quote" /\ w + 1 # Fail
  BY <1>3, SomethingAt DEF Fail
<1>5. q = StringRest(s)[w + 1].next
  BY <1>2, <1>3, <1>4 DEF Past, OpenString, q
<1>6. q - 1 \in w + 1 .. Len(s) /\ s[q - 1] = "quote" /\ Chars(s, q - 1)[w + 1]
  BY <1>2, <1>4, <1>5, RestIsChars
<1>7. w < q - 1
  BY <1>4, <1>6
<1>8. IsString(s, w, q - 1)
  BY <1>4, <1>6, <1>7 DEF IsString
<1>9. QED
  BY <1>4, <1>6, <1>8 DEF w, q

LEMMA StringIsRead ==
  ASSUME NEW s \in Texts, NoEnd(s), NEW a \in 1 .. Len(s), NEW b \in 1 .. Len(s),
         IsString(s, a, b), NEW pos, SkipWhitespace(s, pos) = a
  PROVE  ParseString(s, pos).next = b + 1
<1>1. /\ At(s, a) = "quote" /\ a + 1 \in 1 .. b /\ a + 1 # Fail
      /\ s[b] = "quote" /\ Chars(s, b)[a + 1]
  BY DEF IsString, At, Texts, Fail
<1>2. ParseString(s, pos) = StringRest(s)[a + 1]
  BY <1>1 DEF ParseString, After, Past, OpenString
<1>3. QED
  BY <1>1, <1>2, CharsAreRead

\* A number as well; what stands behind it must not be a digit.
LEMMA ReadIsNumber ==
  ASSUME NEW s \in Texts, NEW pos \in 0 .. Len(s) + 1, ParseNumber(s, pos).next # Fail
  PROVE  LET w == SkipWhitespace(s, pos)
             q == ParseNumber(s, pos).next
         IN  w \in 1 .. Len(s) /\ q - 1 \in w .. Len(s) /\ IsNumber(s, w, q - 1)
<1> DEFINE w == SkipWhitespace(s, pos)
           first == IF At(s, w) = "minus" THEN w + 1 ELSE w
           q == FirstNot(s, first, Digits)
<1>1. w \in pos .. Len(s) + 1 /\ Len(s) \in Nat /\ pos \in Nat
  BY Solids DEF Texts
<1>2. \E x : ParseNumber(s, pos) = IF q = w THEN NotParsed ELSE Parsed(q, x)
  BY DEF ParseNumber
<1> HIDE DEF w
<1>3. first \in w .. Len(s) + 1
  BY <1>1, SomethingAt
<1>4. first \in 0 .. Len(s) + 1 /\ "end" \notin Digits
  BY <1>1, <1>3 DEF Digits
<1> HIDE DEF q
<1>5. q # w /\ ParseNumber(s, pos).next = q
  BY <1>2, Nexts
<1> HIDE DEF first
<1>6. IsFirstNot(s, first, Digits, q)
  BY <1>4, FirstNotIs DEF q
<1>7. q \in first .. Len(s) + 1 /\ \A k \in first .. q - 1 : At(s, k) \in Digits
  BY <1>6 DEF IsFirstNot
<1>8. q - 1 \in w .. Len(s) /\ q \in Int /\ w \in Int
  BY <1>1, <1>3, <1>5, <1>7
<1>9. At(s, w) \in {"minus"} \cup Digits
  <2>1. CASE At(s, w) # "minus"
    <3>1. first = w
      BY <2>1 DEF first
    <3>2. w \in first .. q - 1
      BY <1>8, <3>1
    <3>3. QED
      BY <1>7, <3>2
  <2>2. QED
    BY <2>1
<1>10. w \in 1 .. Len(s) /\ At(s, w) = s[w]
  <2>1. At(s, w) # "end"
    BY <1>9 DEF Digits
  <2>2. QED
    BY <2>1, SomethingAt
<1>11. ASSUME NEW k \in w + 1 .. q - 1 PROVE s[k] \in Digits
  <2>1. first = w \/ first = w + 1
    BY DEF first
  <2>2. k \in first .. q - 1
    BY <1>8, <2>1
  <2>3. At(s, k) \in Digits /\ At(s, k) # "end"
    BY <1>4, <1>7, <2>2
  <2>4. QED
    BY <2>3, SomethingAt
<1>12. IsNumber(s, w, q - 1)
  BY <1>9, <1>10, <1>11 DEF IsNumber
<1>13. QED
  BY <1>5, <1>8, <1>10, <1>12 DEF w

LEMMA NumberIsRead ==
  ASSUME NEW s \in Texts, NEW a \in 1 .. Len(s), NEW b \in a .. Len(s),
         IsNumber(s, a, b), At(s, b + 1) \notin Digits, NEW pos, SkipWhitespace(s, pos) = a
  PROVE  ParseNumber(s, pos).next = b + 1
<1> DEFINE first == IF At(s, a) = "minus" THEN a + 1 ELSE a
           q == FirstNot(s, first, Digits)
<1>1. Len(s) \in Nat /\ "end" \notin Digits /\ "minus" \notin Digits
  BY DEF Texts, Digits
<1>2. \A k \in a .. b : At(s, k) = s[k]
  BY DEF At, Texts
<1>3. At(s, a) \in {"minus"} \cup Digits /\ \A k \in a + 1 .. b : At(s, k) \in Digits
  BY <1>2 DEF IsNumber
<1>4. \A k \in first .. b : At(s, k) \in Digits
  BY <1>1, <1>3
<1>5. first \in 0 .. Len(s) + 1 /\ b + 1 \in first .. Len(s) + 1 /\ b + 1 # a /\ b + 1 - 1 = b
  BY <1>1
<1> HIDE DEF first
<1>6. IsFirstNot(s, first, Digits, b + 1)
  BY <1>4, <1>5 DEF IsFirstNot
<1>7. q = b + 1
  BY <1>1, <1>5, <1>6, FirstNotIsOne
<1>8. \E x : ParseNumber(s, pos) = IF q = a THEN NotParsed ELSE Parsed(q, x)
  BY DEF ParseNumber, first
<1> HIDE DEF q
<1>9. QED
  BY <1>5, <1>7, <1>8, Nexts

-----------------------------------------------------------------------------
(* The grammar as a recursion, from the short parts of a text to the long. *)

Tables(n, V) == [1 .. n + 1 -> [0 .. n -> V]]
SameInside(n, f, g, i, j) ==
    \A a \in 1 .. n + 1, b \in 0 .. n : b - a < j - i => f[a][b] = g[a][b]
LooksInside(n, V, F) ==
    /\ F \in [Tables(n, V) -> Tables(n, V)]
    /\ \A f, g \in Tables(n, V) : \A i \in 1 .. n + 1, j \in 0 .. n :
          SameInside(n, f, g, i, j) => F[f][i][j] = F[g][i][j]

LEMMA Widening ==
  ASSUME NEW n \in Nat, NEW V, NEW v \in V, NEW F, LooksInside(n, V, F)
  PROVE  \E f \in Tables(n, V) : f = F[f]
<1> DEFINE I == 1 .. n + 1
           J == 0 .. n
           Settled(f, m) == \A i \in I, j \in J : j - i + n + 1 < m => f[i][j] = F[f][i][j]
           P == {m \in Nat : \E f \in Tables(n, V) : Settled(f, m)}
<1>1. 0 \in P
  <2> DEFINE f == [i \in I |-> [j \in J |-> v]]
  <2>1. f \in Tables(n, V)
    BY DEF Tables
  <2>2. \A i \in I, j \in J : ~(j - i + n + 1 < 0)
    OBVIOUS
  <2>3. Settled(f, 0)
    BY <2>2
  <2> HIDE DEF Settled, f
  <2>4. QED
    BY <2>1, <2>3
<1>2. ASSUME NEW m \in P PROVE m + 1 \in P
  <2>1. m \in Nat /\ m + 1 \in Nat
    OBVIOUS
  <2>2. PICK f \in Tables(n, V) : Settled(f, m)
    OBVIOUS
  <2>3. F[f] \in Tables(n, V)
    BY <2>2 DEF LooksInside
  <2>4. ASSUME NEW i \in I, NEW j \in J, j - i + n + 1 < m + 1
        PROVE  F[f][i][j] = F[F[f]][i][j]
    <3>1. \A a \in I, b \in J : b - a < j - i => b - a + n + 1 < m
      BY <2>1, <2>4
    <3>2. SameInside(n, f, F[f], i, j)
      BY <2>2, <3>1 DEF SameInside
    <3>3. QED
      BY <2>2, <2>3, <3>2 DEF LooksInside
  <2>5. Settled(F[f], m + 1)
    BY <2>4
  <2> HIDE DEF Settled
  <2>6. QED
    BY <2>1, <2>3, <2>5
<1>3. Nat \subseteq P
  <2> HIDE DEF P
  <2>1. QED
    BY <1>1, <1>2, Upwards
<1>4. PICK f \in Tables(n, V) : Settled(f, n + n + 1)
  <2>1. n + n + 1 \in P
    BY <1>3
  <2>2. QED
    BY <2>1
<1>5. \A i \in I, j \in J : j - i + n + 1 < n + n + 1
  OBVIOUS
<1>6. \A i \in I, j \in J : f[i][j] = F[f][i][j]
  BY <1>4, <1>5
<1>7. F[f] \in Tables(n, V)
  BY <1>4 DEF LooksInside
<1>8. \A i \in I : f[i] = F[f][i]
  BY <1>4, <1>6, <1>7 DEF Tables
<1>9. f = F[f]
  BY <1>4, <1>7, <1>8 DEF Tables
<1>10. QED
  BY <1>4, <1>9

\* What is inside decides what a part of the text is.
LEMMA ValueInside ==
  ASSUME NEW s \in Texts, NEW i \in 1 .. Len(s) + 1, NEW j \in 0 .. Len(s), NEW f, NEW g,
         SameInside(Len(s), f, g, i, j)
  PROVE  IsValue(s, f, i, j) <=> IsValue(s, g, i, j)
<1>1. Len(s) \in Nat
  BY DEF Texts
<1>2. ASSUME NEW a \in i .. j, NEW b \in i .. j, a < b PROVE f[a + 1][b - 1] = g[a + 1][b - 1]
  <2>1. /\ a + 1 \in 1 .. Len(s) + 1 /\ b - 1 \in 0 .. Len(s)
        /\ (b - 1) - (a + 1) < j - i
    BY <1>1, <1>2
  <2>2. QED
    BY <2>1 DEF SameInside
<1>3. ASSUME NEW a \in i .. j, NEW b \in i .. j
      PROVE  IsTrimmedValue(s, f, a, b) <=> IsTrimmedValue(s, g, a, b)
  <2>1. \A open, close, part :
            IsEnclosed(s, f, a, b, open, close, part) <=>
                IsEnclosed(s, g, a, b, open, close, part)
    BY <1>2 DEF IsEnclosed
  <2>2. QED
    BY <2>1 DEF IsTrimmedValue
<1>4. QED
  BY <1>3 DEF IsValue

LEMMA ElementsInside ==
  ASSUME NEW s \in Texts, NEW i \in 1 .. Len(s) + 1, NEW j \in 0 .. Len(s), NEW f, NEW g,
         SameInside(Len(s), f, g, i, j)
  PROVE  IsElements(s, f, i, j) <=> IsElements(s, g, i, j)
<1>1. Len(s) \in Nat
  BY DEF Texts
<1>2. ASSUME NEW k \in i .. j
      PROVE  f[i][k - 1] = g[i][k - 1] /\ f[k + 1][j] = g[k + 1][j]
  <2>1. /\ k - 1 \in 0 .. Len(s) /\ (k - 1) - i < j - i
        /\ k + 1 \in 1 .. Len(s) + 1 /\ j - (k + 1) < j - i
    BY <1>1
  <2>2. QED
    BY <2>1 DEF SameInside
<1>3. IsValue(s, f, i, j) <=> IsValue(s, g, i, j)
  BY ValueInside
<1>4. QED
  BY <1>2, <1>3 DEF IsElements

LEMMA MemberInside ==
  ASSUME NEW s \in Texts, NEW i \in 1 .. Len(s) + 1, NEW j \in 0 .. Len(s), NEW f, NEW g,
         SameInside(Len(s), f, g, i, j)
  PROVE  IsMember(s, f, i, j) <=> IsMember(s, g, i, j)
<1>1. Len(s) \in Nat
  BY DEF Texts
<1>2. ASSUME NEW k \in i .. j PROVE f[k + 1][j] = g[k + 1][j]
  <2>1. k + 1 \in 1 .. Len(s) + 1 /\ j - (k + 1) < j - i
    BY <1>1
  <2>2. QED
    BY <2>1 DEF SameInside
<1>3. QED
  BY <1>2 DEF IsMember

LEMMA MembersInside ==
  ASSUME NEW s \in Texts, NEW i \in 1 .. Len(s) + 1, NEW j \in 0 .. Len(s), NEW f, NEW g,
         SameInside(Len(s), f, g, i, j)
  PROVE  IsMembers(s, f, i, j) <=> IsMembers(s, g, i, j)
<1>1. Len(s) \in Nat
  BY DEF Texts
<1>2. ASSUME NEW k \in i .. j
      PROVE  /\ f[k + 1][j] = g[k + 1][j]
             /\ IsMember(s, f, i, k - 1) <=> IsMember(s, g, i, k - 1)
  <2>1. /\ k + 1 \in 1 .. Len(s) + 1 /\ j - (k + 1) < j - i
        /\ k - 1 \in 0 .. Len(s) /\ \A x \in Int : x < (k - 1) - i => x < j - i
    BY <1>1
  <2>2. f[k + 1][j] = g[k + 1][j]
    BY <2>1 DEF SameInside
  <2>3. SameInside(Len(s), f, g, i, k - 1)
    <3>1. \A a \in 1 .. Len(s) + 1, b \in 0 .. Len(s) : b - a < (k - 1) - i => b - a < j - i
      BY <1>1
    <3>2. QED
      BY <3>1 DEF SameInside
  <2>4. QED
    BY <2>1, <2>2, <2>3, MemberInside
<1>3. IsMember(s, f, i, j) <=> IsMember(s, g, i, j)
  BY MemberInside
<1>4. QED
  BY <1>2, <1>3 DEF IsMembers

\* The grammar is what its rules say.
LEMMA GrammarIs ==
  ASSUME NEW s \in Texts, NEW i \in 1 .. Len(s) + 1, NEW j \in 0 .. Len(s)
  PROVE  /\ Grammar(s)[i][j]["value"] <=> IsValue(s, Grammar(s), i, j)
         /\ Grammar(s)[i][j]["elements"] <=> IsElements(s, Grammar(s), i, j)
         /\ Grammar(s)[i][j]["members"] <=> IsMembers(s, Grammar(s), i, j)
<1> DEFINE n == Len(s)
           V == [Parts -> BOOLEAN]
           Rule(f, a, b) == [part \in Parts |-> IsPart(s, f, a, b, part)]
           All(f) == [a \in 1 .. n + 1 |-> [b \in 0 .. n |-> Rule(f, a, b)]]
           F == [f \in Tables(n, V) |-> All(f)]
<1>1. n \in Nat
  BY DEF Texts
<1>2. \A f, a, b : /\ IsPart(s, f, a, b, "value") <=> IsValue(s, f, a, b)
                   /\ IsPart(s, f, a, b, "elements") <=> IsElements(s, f, a, b)
                   /\ IsPart(s, f, a, b, "members") <=> IsMembers(s, f, a, b)
  BY DEF IsPart
<1>3. ASSUME NEW f, NEW a, NEW b, NEW part \in Parts
      PROVE  IsPart(s, f, a, b, part) \in BOOLEAN
  <2>1. /\ IsValue(s, f, a, b) \in BOOLEAN /\ IsElements(s, f, a, b) \in BOOLEAN
        /\ IsMembers(s, f, a, b) \in BOOLEAN
    BY DEF IsValue, IsElements, IsMembers
  <2>2. CASE part = "value"
    BY <2>1, <2>2 DEF IsPart
  <2>3. CASE part = "members"
    BY <2>1, <2>3 DEF IsPart
  <2>4. CASE part = "elements"
    BY <2>1, <2>4 DEF IsPart
  <2>5. QED
    BY <2>2, <2>3, <2>4 DEF Parts
<1>4. \A f, a, b : Rule(f, a, b) \in V
  BY <1>3
<1>5. ASSUME NEW f, NEW g, NEW a \in 1 .. n + 1, NEW b \in 0 .. n, SameInside(n, f, g, a, b)
      PROVE  Rule(f, a, b) = Rule(g, a, b)
  <2>1. /\ IsValue(s, f, a, b) <=> IsValue(s, g, a, b)
        /\ IsElements(s, f, a, b) <=> IsElements(s, g, a, b)
        /\ IsMembers(s, f, a, b) <=> IsMembers(s, g, a, b)
    BY <1>5, ValueInside, ElementsInside, MembersInside
  <2>2. ASSUME NEW part \in Parts
        PROVE  IsPart(s, f, a, b, part) = IsPart(s, g, a, b, part)
    <3>1. IsPart(s, f, a, b, part) <=> IsPart(s, g, a, b, part)
      BY <1>2, <2>1 DEF Parts
    <3>2. QED
      BY <1>3, <3>1
  <2>3. QED
    BY <2>2
<1> HIDE DEF Rule, V
<1>6. LooksInside(n, V, F)
  <2>1. \A f : All(f) \in Tables(n, V)
    BY <1>4 DEF Tables
  <2>2. F \in [Tables(n, V) -> Tables(n, V)]
    <3> HIDE DEF All
    <3>1. QED
      BY <2>1
  <2>3. ASSUME NEW f \in Tables(n, V), NEW g \in Tables(n, V),
               NEW a \in 1 .. n + 1, NEW b \in 0 .. n, SameInside(n, f, g, a, b)
        PROVE  F[f][a][b] = F[g][a][b]
    BY <1>5, <2>3
  <2>4. QED
    BY <2>2, <2>3 DEF LooksInside
<1>7. PICK f \in Tables(n, V) : f = F[f]
  <2>1. PICK v : v \in V
    BY <1>4
  <2> HIDE DEF F, n
  <2>2. QED
    BY <1>1, <1>6, <2>1, Widening
<1>8. f = All(f)
  BY <1>7
<1> DEFINE is == CHOOSE h : h = [a \in 1 .. Len(s) + 1 |->
                    [b \in 0 .. Len(s) |-> [part \in Parts |-> IsPart(s, h, a, b, part)]]]
<1>9. is = [a \in 1 .. Len(s) + 1 |->
                    [b \in 0 .. Len(s) |-> [part \in Parts |-> IsPart(s, is, a, b, part)]]]
  BY <1>8 DEF Rule
<1>10. Grammar(s) = is
  BY DEF Grammar
<1> HIDE DEF is
<1>11. is[i][j] = [part \in Parts |-> IsPart(s, is, i, j, part)]
  <2> DEFINE e(a) == [b \in 0 .. Len(s) |-> [part \in Parts |-> IsPart(s, is, a, b, part)]]
  <2>1. is[i] = e(i)
    <3>1. is = [a \in 1 .. Len(s) + 1 |-> e(a)]
      BY <1>9
    <3> HIDE DEF e
    <3>2. QED
      BY <3>1
  <2>2. QED
    BY <2>1
<1>12. \A part \in Parts : is[i][j][part] = IsPart(s, is, i, j, part)
  BY <1>11
<1>13. QED
  BY <1>2, <1>10, <1>12 DEF Parts

-----------------------------------------------------------------------------
(* What the parser takes, the grammar has.                                 *)

\* The value read from p to q, with white space around it, is one of the
\* grammar, and so are the items read from p on up to the bracket at e.
ReadsValue(s, p, q) ==
    \A i \in 1 .. p, j \in q - 1 .. Len(s) :
        White(s, i, p - 1) /\ White(s, q, j) => Grammar(s)[i][j]["value"]
ReadsItems(s, p, e, part, close) ==
    /\ e \in p .. Len(s) /\ s[e] = close
    /\ \A i \in 1 .. p : White(s, i, p - 1) => Grammar(s)[i][e - 1][part]
SoundAt(s, p) ==
    LET read == Read(s)[p] IN
    /\ read["value"].next # Fail => ReadsValue(s, p, read["value"].next)
    /\ read["elements"].next # Fail =>
          ReadsItems(s, p, read["elements"].next - 1, "elements", "rbracket")
    /\ read["members"].next # Fail =>
          ReadsItems(s, p, read["members"].next - 1, "members", "rbrace")

LEMMA WhiteJoins ==
  ASSUME NEW s, NEW i \in Int, NEW p \in Int, NEW w \in Int, White(s, i, p - 1), White(s, p, w - 1)
  PROVE  White(s, i, w - 1)
<1>1. ASSUME NEW k \in i .. w - 1 PROVE k \in i .. p - 1 \/ k \in p .. w - 1
  OBVIOUS
<1>2. QED
  BY <1>1 DEF White

LEMMA TrimmedIs ==
  ASSUME NEW s \in Texts, NEW i \in Int, NEW j \in Int, NEW a \in i .. j, NEW b \in a .. j,
         White(s, i, a - 1), White(s, b + 1, j),
         At(s, a) \notin Whitespace, At(s, b) \notin Whitespace
  PROVE  Trimmed(s, i, j, a, b)
<1>1. a \in Solid(s, i, j) /\ b \in Solid(s, i, j)
  BY DEF Solid
<1>2. ASSUME NEW k \in Solid(s, i, j) PROVE k \in a .. b
  <2>1. k \in i .. j /\ At(s, k) \notin Whitespace
    BY DEF Solid
  <2>2. ~(k \in i .. a - 1) /\ ~(k \in b + 1 .. j)
    BY <2>1 DEF White
  <2>3. QED
    BY <2>1, <2>2
<1>3. QED
  BY <1>1, <1>2 DEF Trimmed

\* What is read between brackets, and nothing but white space there.
LEMMA SoundItems ==
  ASSUME NEW s \in Texts, NEW w \in 1 .. Len(s), NEW open, NEW close, NEW part, NEW q,
         s[w] = open, close # "end",
         LET first == SkipWhitespace(s, w + 1) IN
         \/ At(s, first) = close /\ q = first + 1
         \/ q \in Int /\ ReadsItems(s, first, q - 1, part, close)
  PROVE  /\ q - 1 \in w .. Len(s) /\ s[q - 1] = close
         /\ IsEnclosed(s, Grammar(s), w, q - 1, open, close, part)
<1> DEFINE first == SkipWhitespace(s, w + 1)
           e == q - 1
<1>1. w + 1 \in 0 .. Len(s) + 1 /\ Len(s) \in Nat
  BY DEF Texts
<1>2. first \in w + 1 .. Len(s) + 1 /\ White(s, w + 1, first - 1)
  BY <1>1, Solids, SkipIsWhite
<1>3. \/ At(s, first) = close /\ e = first
      \/ e \in Int /\ ReadsItems(s, first, e, part, close)
  <2>1. CASE At(s, first) = close /\ q = first + 1
    BY <1>2, <2>1
  <2>2. CASE q \in Int /\ ReadsItems(s, first, q - 1, part, close)
    BY <2>2
  <2>3. QED
    BY <2>1, <2>2
<1> HIDE DEF first, e
<1>4. CASE At(s, first) = close /\ e = first
  <2>1. e \in w + 1 .. Len(s) /\ s[e] = close /\ w < e
    BY <1>2, <1>4, SomethingAt
  <2>2. Solid(s, w + 1, e - 1) = {}
    BY <1>2, <1>4 DEF Solid, White
  <2>3. IsEnclosed(s, Grammar(s), w, e, open, close, part)
    BY <2>1, <2>2 DEF IsEnclosed
  <2>4. QED
    BY <2>1, <2>3 DEF e
<1>5. CASE e \in Int /\ ReadsItems(s, first, e, part, close)
  <2>1. e \in first .. Len(s) /\ s[e] = close
    BY <1>5 DEF ReadsItems
  <2>2. w + 1 \in 1 .. first
    BY <1>2
  <2>3. Grammar(s)[w + 1][e - 1][part]
    BY <1>2, <1>5, <2>2 DEF ReadsItems
  <2>4. w < e /\ e \in w .. Len(s)
    BY <1>2, <2>1
  <2>5. IsEnclosed(s, Grammar(s), w, e, open, close, part)
    BY <2>1, <2>3, <2>4 DEF IsEnclosed
  <2>6. QED
    BY <2>1, <2>4, <2>5 DEF e
<1>6. QED
  BY <1>3, <1>4, <1>5

\* The value itself, from its first symbol to its last.
LEMMA SoundNode ==
  ASSUME NEW s \in Texts, NEW w \in Positions(s), SkipWhitespace(s, w) = w,
         \A x \in w + 1 .. Len(s) + 1 : SoundAt(s, x),
         NodeFrom(s, Read(s), w).next # Fail
  PROVE  LET q == NodeFrom(s, Read(s), w).next IN
         /\ w \in 1 .. Len(s) /\ q - 1 \in w .. Len(s) /\ At(s, q - 1) \notin Whitespace
         /\ IsTrimmedValue(s, Grammar(s), w, q - 1)
<1> DEFINE r == Read(s)
           q == NodeFrom(s, r, w).next
<1>1. w \in 0 .. Len(s) + 1 /\ Len(s) \in Nat
  BY DEF Positions, Texts
<1>2. At(s, w) # "end"
  <2>1. At(s, w) = "end" => NodeFrom(s, r, w) = NotParsed
    BY DEF NodeFrom, Booleans
  <2>2. QED
    BY <2>1, Nexts
<1>3. w \in 1 .. Len(s) /\ w + 1 \in Positions(s) /\ At(s, w) = s[w]
  BY <1>2, SomethingAt
<1>4. \A k \in 1 .. Len(s) : At(s, k) = s[k]
  BY DEF At, Texts
<1>5. CASE At(s, w) = "quote"
  <2>1. q = ParseString(s, w).next
    BY <1>5, Nexts DEF NodeFrom, Booleans
  <2> HIDE DEF q
  <2>2. q - 1 \in w + 1 .. Len(s) /\ IsString(s, w, q - 1)
    <3>1. ParseString(s, w).next # Fail
      BY <2>1 DEF q
    <3>2. QED
      BY <1>1, <2>1, <3>1, ReadIsString
  <2>3. s[q - 1] = "quote" /\ q - 1 \in 1 .. Len(s) /\ q - 1 \in w .. Len(s)
    BY <1>1, <1>3, <2>2 DEF IsString
  <2>4. At(s, q - 1) \notin Whitespace
    BY <1>4, <2>3 DEF Whitespace
  <2>5. QED
    BY <1>3, <2>2, <2>3, <2>4 DEF q, IsTrimmedValue
<1>6. CASE At(s, w) \in Booleans \/ At(s, w) \in {"null", "n"}
  <2>1. q = w + 1 /\ At(s, w) \in Booleans \cup {"null"}
    <3>1. CASE At(s, w) \in Booleans
      <4>1. q = ParseBool(s, w).next
        BY <3>1, Nexts DEF NodeFrom, Booleans
      <4>2. ParseBool(s, w) = Parsed(w + 1, At(s, w) = "true")
        BY <3>1 DEF ParseBool
      <4>3. QED
        BY <3>1, <4>1, <4>2 DEF Parsed
    <3>2. CASE At(s, w) \in {"null", "n"}
      <4>1. q = ParseNull(s, w).next
        BY <3>2, Nexts DEF NodeFrom, Booleans
      <4>2. At(s, w) = "null"
        <5>1. At(s, w) # "null" => ParseNull(s, w).next = Fail
          BY <1>1, FirstSymbol, Nexts
        <5>2. QED
          BY <4>1, <5>1
      <4>3. ParseNull(s, w) = Parsed(w + 1, TRUE)
        BY <4>2 DEF ParseNull
      <4>4. QED
        BY <4>1, <4>2, <4>3 DEF Parsed
    <3>3. QED
      BY <1>6, <3>1, <3>2
  <2> HIDE DEF q
  <2>2. q - 1 = w
    BY <1>1, <2>1
  <2>3. IsWord(s, w, w) /\ At(s, w) \notin Whitespace
    BY <1>3, <2>1 DEF IsWord, Whitespace, Booleans
  <2>4. QED
    BY <1>3, <2>2, <2>3 DEF q, IsTrimmedValue
<1>7. CASE At(s, w) = "lbrace" \/ At(s, w) = "lbracket"
  <2> DEFINE first == SkipWhitespace(s, w + 1)
             Inside(part, close) == \/ At(s, first) = close /\ q = first + 1
                                    \/ q \in Int /\ ReadsItems(s, first, q - 1, part, close)
  <2>1. w + 1 \in 0 .. Len(s) + 1
    BY <1>1, <1>3
  <2>2. first \in w + 1 .. Len(s) + 1 /\ first \in Positions(s)
    BY <1>1, <2>1, Solids DEF Positions
  <2>3. SoundAt(s, first)
    BY <2>2
  <2>4. \A part \in Parts : IsParsed(s, first, r[first][part])
    BY <2>2, ReadIs
  <2>5. \A part \in Parts : r[first][part].next # Fail => r[first][part].next \in Int
    BY <2>2, <2>4, ParsedAhead DEF Ahead
  <2>6. CASE At(s, w) = "lbrace"
    <3>1. NodeFrom(s, r, w) = ParseObjectNode(s, r, first)
      BY <2>6 DEF NodeFrom, Booleans
    <3> HIDE DEF first
    <3>2. Inside("members", "rbrace")
      <4>1. CASE At(s, first) = "rbrace"
        BY <3>1, <4>1, Nexts DEF ParseObjectNode
      <4>2. CASE At(s, first) # "rbrace"
        <5>1. q = r[first]["members"].next
          BY <3>1, <4>2, Nexts DEF ParseObjectNode
        <5>2. q \in Int
          BY <2>5, <5>1 DEF Parts
        <5>3. QED
          BY <2>3, <5>1, <5>2 DEF SoundAt
      <4>3. QED
        BY <4>1, <4>2
    <3> HIDE DEF q
    <3>3. /\ q - 1 \in w .. Len(s) /\ s[q - 1] = "rbrace"
          /\ IsEnclosed(s, Grammar(s), w, q - 1, "lbrace", "rbrace", "members")
      BY <1>3, <2>6, <3>2, SoundItems DEF first
    <3>4. At(s, q - 1) \notin Whitespace
      BY <1>3, <1>4, <3>3 DEF Whitespace
    <3>5. QED
      BY <1>3, <3>3, <3>4 DEF q, IsTrimmedValue
  <2>7. CASE At(s, w) = "lbracket"
    <3>1. NodeFrom(s, r, w) = ParseArrayNode(s, r, first)
      BY <2>7 DEF NodeFrom, Booleans
    <3> HIDE DEF first
    <3>2. Inside("elements", "rbracket")
      <4>1. CASE At(s, first) = "rbracket"
        BY <3>1, <4>1, Nexts DEF ParseArrayNode
      <4>2. CASE At(s, first) # "rbracket"
        <5>1. q = r[first]["elements"].next
          BY <3>1, <4>2, Nexts DEF ParseArrayNode
        <5>2. q \in Int
          BY <2>5, <5>1 DEF Parts
        <5>3. QED
          BY <2>3, <5>1, <5>2 DEF SoundAt
      <4>3. QED
        BY <4>1, <4>2
    <3> HIDE DEF q
    <3>3. /\ q - 1 \in w .. Len(s) /\ s[q - 1] = "rbracket"
          /\ IsEnclosed(s, Grammar(s), w, q - 1, "lbracket", "rbracket", "elements")
      BY <1>3, <2>7, <3>2, SoundItems DEF first
    <3>4. At(s, q - 1) \notin Whitespace
      BY <1>3, <1>4, <3>3 DEF Whitespace
    <3>5. QED
      BY <1>3, <3>3, <3>4 DEF q, IsTrimmedValue
  <2>8. QED
    BY <1>7, <2>6, <2>7
<1>8. CASE At(s, w) \notin {"quote", "null", "n", "lbrace", "lbracket"} \cup Booleans
  <2>1. q = ParseNumber(s, w).next
    BY <1>2, <1>8, Nexts DEF NodeFrom, Booleans
  <2> HIDE DEF q
  <2>2. q - 1 \in w .. Len(s) /\ IsNumber(s, w, q - 1)
    <3>1. ParseNumber(s, w).next # Fail
      BY <2>1 DEF q
    <3>2. QED
      BY <1>1, <2>1, <3>1, ReadIsNumber
  <2>3. q - 1 \in 1 .. Len(s) /\ s[q - 1] \in {"minus"} \cup Digits
    BY <1>3, <2>2 DEF IsNumber
  <2>4. At(s, q - 1) \notin Whitespace
    BY <1>4, <2>3 DEF Whitespace, Digits
  <2>5. QED
    BY <1>3, <2>2, <2>4 DEF q, IsTrimmedValue
<1>9. QED
  BY <1>5, <1>6, <1>7, <1>8

LEMMA SoundValue ==
  ASSUME NEW s \in Texts, NEW p \in Positions(s),
         \A x \in p + 1 .. Len(s) + 1 : SoundAt(s, x), ParseNodeValue(s, p).next # Fail
  PROVE  ReadsValue(s, p, ParseNodeValue(s, p).next)
<1> DEFINE w == SkipWhitespace(s, p)
           q == ParseNodeValue(s, p).next
<1>1. p \in 0 .. Len(s) + 1 /\ p \in Int /\ p >= 1 /\ Len(s) \in Nat
  BY DEF Positions, Texts
<1>2. w \in p .. Len(s) + 1 /\ w \in Positions(s) /\ SkipWhitespace(s, w) = w
  BY ValueIs
<1>3. q = NodeFrom(s, Read(s), w).next
  BY ValueIs
<1>4. White(s, p, w - 1) /\ At(s, w) \notin Whitespace
  BY <1>1, SkipIsWhite, Solids
<1> HIDE DEF w
<1>5. \A x \in w + 1 .. Len(s) + 1 : SoundAt(s, x)
  BY <1>1, <1>2
<1>6. NodeFrom(s, Read(s), w).next # Fail
  BY <1>3
<1> HIDE DEF q
<1>7. /\ w \in 1 .. Len(s) /\ q - 1 \in w .. Len(s) /\ At(s, q - 1) \notin Whitespace
      /\ IsTrimmedValue(s, Grammar(s), w, q - 1)
  BY <1>2, <1>3, <1>5, <1>6, SoundNode
<1> DEFINE e == q - 1
<1>8. q \in Int /\ q = e + 1
  <2>1. q \in Int
    <3>1. "value" \in Parts /\ p # Fail
      BY <1>1 DEF Parts, Fail
    <3>2. IsParsed(s, p, ParseNodeValue(s, p))
      BY <3>1, ReadIs DEF ParseNodeValue, ReadPart
    <3>3. q = Fail \/ q \in p + 1 .. Len(s) + 1
      BY <3>2, ParsedAhead DEF Ahead, q
    <3>4. QED
      BY <3>3 DEF Fail
  <2>2. QED
    BY <2>1
<1>9. ASSUME NEW i \in 1 .. p, NEW j \in e .. Len(s), White(s, i, p - 1), White(s, q, j)
      PROVE  Grammar(s)[i][j]["value"]
  <2>1. i \in Int /\ j \in Int /\ w \in i .. j /\ e \in w .. j /\ p \in Int /\ w \in Int
    BY <1>1, <1>2, <1>7, <1>8, <1>9
  <2>2. White(s, i, w - 1)
    BY <1>4, <1>9, <2>1, WhiteJoins
  <2>3. White(s, e + 1, j)
    BY <1>8, <1>9
  <2> HIDE DEF e
  <2>4. Trimmed(s, i, j, w, e)
    BY <1>4, <1>7, <2>1, <2>2, <2>3, TrimmedIs DEF e
  <2>5. IsValue(s, Grammar(s), i, j)
    <3>1. w \in i .. j /\ e \in i .. j
      BY <2>1
    <3>2. IsTrimmedValue(s, Grammar(s), w, e)
      BY <1>7 DEF e
    <3>3. QED
      BY <2>4, <3>1, <3>2 DEF IsValue
  <2>6. i \in 1 .. Len(s) + 1 /\ j \in 0 .. Len(s)
    BY <1>1, <1>9, <2>1, <1>7
  <2>7. QED
    BY <2>5, <2>6, GrammarIs
<1>10. QED
  BY <1>9 DEF ReadsValue, q

\* Items read up to the bracket that closes them, or the comma in between.
LEMMA SoundMore ==
  ASSUME NEW s \in Texts, NEW v \in Positions(s), NEW part, NEW close, close # "comma",
         close # "end",
         LET w == SkipWhitespace(s, v) IN
         More(s, Read(s), w, part, close).next # Fail
  PROVE  LET w == SkipWhitespace(s, v)
             q == More(s, Read(s), w, part, close).next
         IN  /\ w \in v .. Len(s) /\ White(s, v, w - 1)
             /\ \/ At(s, w) = close /\ q - 1 = w
                \/ At(s, w) = "comma" /\ q = Read(s)[w + 1][part].next
<1> DEFINE w == SkipWhitespace(s, v)
           q == More(s, Read(s), w, part, close).next
<1>1. v \in 0 .. Len(s) + 1 /\ Len(s) \in Nat /\ v \in Int
  BY DEF Positions, Texts
<1>2. w \in v .. Len(s) + 1 /\ White(s, v, w - 1)
  BY <1>1, Solids, SkipIsWhite
<1>3. At(s, w) \in {close, "comma"}
  <2>1. CASE At(s, w) \notin {close, "comma"}
    <3>1. More(s, Read(s), w, part, close) = NotParsed
      BY <2>1 DEF More
    <3>2. QED
      BY <3>1, Nexts
  <2>2. QED
    BY <2>1
<1>4. w \in 1 .. Len(s)
  BY <1>3, SomethingAt
<1>5. w \in v .. Len(s)
  BY <1>2, <1>4
<1>6. At(s, w) = close => q - 1 = w
  <2>1. At(s, w) = close => q = w + 1
    BY Nexts DEF More
  <2> HIDE DEF q, w
  <2>2. QED
    BY <1>4, <2>1
<1>7. At(s, w) = "comma" => q = Read(s)[w + 1][part].next
  BY DEF More
<1>8. QED
  BY <1>2, <1>3, <1>5, <1>6, <1>7

LEMMA SoundElements ==
  ASSUME NEW s \in Texts, NEW p \in Positions(s),
         \A x \in p + 1 .. Len(s) + 1 : SoundAt(s, x), Read(s)[p]["elements"].next # Fail
  PROVE  ReadsItems(s, p, Read(s)[p]["elements"].next - 1, "elements", "rbracket")
<1> DEFINE v == ParseNodeValue(s, p).next
           w == SkipWhitespace(s, v)
           q == Read(s)[p]["elements"].next
           G == Grammar(s)
<1>1. p \in Int /\ p >= 1 /\ p <= Len(s) + 1 /\ Len(s) \in Nat
  BY DEF Positions, Texts
<1>2. v # Fail /\ v \in p + 1 .. Len(s) + 1
  BY ElementsAre
<1>3. q = More(s, Read(s), w, "elements", "rbracket").next
  <2>1. ValueFrom(s, Read(s), p) = ParseNodeValue(s, p)
    BY ValueIs DEF ValueFrom
  <2>2. Read(s)[p]["elements"] = WithElement(s, Read(s), ParseNodeValue(s, p))
    BY <2>1, ValueIs DEF ElementsFrom
  <2>3. QED
    BY <2>2, Nexts DEF WithElement
<1>4. v \in Positions(s) /\ v \in Int
  BY <1>1, <1>2 DEF Positions
<1>5. ReadsValue(s, p, v)
  BY <1>2, SoundValue
<1>6. q # Fail
  OBVIOUS
<1> HIDE DEF v, q
<1>7. /\ w \in v .. Len(s) /\ White(s, v, w - 1)
      /\ \/ At(s, w) = "rbracket" /\ q - 1 = w
         \/ At(s, w) = "comma" /\ q = Read(s)[w + 1]["elements"].next
  BY <1>3, <1>4, <1>6, SoundMore
<1> HIDE DEF w
<1>8. w \in 1 .. Len(s) /\ w \in p + 1 .. Len(s) /\ w - 1 \in v - 1 .. Len(s) /\ s[w] = At(s, w)
  BY <1>1, <1>2, <1>4, <1>7 DEF At, Texts
<1>9. ASSUME NEW i \in 1 .. p, White(s, i, p - 1) PROVE G[i][w - 1]["value"]
  BY <1>5, <1>7, <1>8, <1>9 DEF ReadsValue
<1>10. \A i \in 1 .. p : i \in 1 .. Len(s) + 1 /\ i \in Int
  BY <1>1
<1>11. CASE At(s, w) = "rbracket" /\ q - 1 = w
  <2>1. ASSUME NEW i \in 1 .. p, White(s, i, p - 1) PROVE G[i][w - 1]["elements"]
    <3>1. w - 1 \in 0 .. Len(s)
      BY <1>8
    <3>2. IsElements(s, G, i, w - 1)
      BY <1>9, <1>10, <2>1, <3>1, GrammarIs DEF IsElements
    <3>3. QED
      BY <1>10, <3>1, <3>2, GrammarIs
  <2>2. w \in p .. Len(s)
    BY <1>1, <1>8
  <2>3. ReadsItems(s, p, w, "elements", "rbracket")
    BY <1>8, <1>11, <2>1, <2>2 DEF ReadsItems
  <2>4. QED
    BY <1>11, <2>3 DEF q
<1>12. CASE At(s, w) = "comma" /\ q = Read(s)[w + 1]["elements"].next
  <2> DEFINE e == q - 1
  <2>1. w + 1 \in p + 1 .. Len(s) + 1
    BY <1>1, <1>8
  <2>2. ReadsItems(s, w + 1, e, "elements", "rbracket")
    BY <1>6, <1>12, <2>1 DEF SoundAt
  <2> HIDE DEF e
  <2>3. e \in w + 1 .. Len(s) /\ s[e] = "rbracket" /\ G[w + 1][e - 1]["elements"]
    <3> DEFINE x == w + 1
    <3>1. x \in 1 .. x /\ White(s, x, x - 1)
      BY <1>8 DEF White
    <3> HIDE DEF x
    <3>2. e \in x .. Len(s) /\ s[e] = "rbracket" /\ G[x][e - 1]["elements"]
      BY <2>2, <3>1 DEF ReadsItems, x
    <3>3. QED
      BY <3>2 DEF x
  <2>4. ASSUME NEW i \in 1 .. p, White(s, i, p - 1) PROVE G[i][e - 1]["elements"]
    <3>1. e - 1 \in 0 .. Len(s) /\ w \in i .. e - 1
      <4>1. e \in w + 1 .. Len(s) /\ w \in p + 1 .. Len(s)
        BY <1>8, <2>3
      <4>2. QED
        BY <1>1, <4>1
    <3>2. IsElements(s, G, i, e - 1)
      BY <1>8, <1>9, <1>12, <2>3, <2>4, <3>1 DEF IsElements
    <3>3. QED
      BY <1>10, <3>1, <3>2, GrammarIs
  <2>5. e \in p .. Len(s)
    BY <1>1, <1>8, <2>3
  <2>6. ReadsItems(s, p, e, "elements", "rbracket")
    BY <2>3, <2>4, <2>5 DEF ReadsItems
  <2>7. QED
    BY <2>6 DEF e, q
<1>13. QED
  BY <1>7, <1>11, <1>12

\* A name and the colon behind it.
LEMMA NameIs ==
  ASSUME NEW s \in Texts, NEW p \in Positions(s),
         LET name == ParseString(s, p) IN After(s, name.next, "colon") # Fail
  PROVE  LET a == SkipWhitespace(s, p)
             b == ParseString(s, p).next - 1
             c == SkipWhitespace(s, ParseString(s, p).next)
         IN  /\ After(s, ParseString(s, p).next, "colon") = c + 1 /\ s[c] = "colon"
             /\ a \in p .. Len(s) /\ b \in a .. Len(s) /\ c \in b + 1 .. Len(s)
             /\ IsString(s, a, b)
             /\ \A i \in 1 .. p : White(s, i, p - 1) => Trimmed(s, i, c - 1, a, b)
<1> DEFINE a == SkipWhitespace(s, p)
           n == ParseString(s, p).next
           b == n - 1
           c == SkipWhitespace(s, n)
<1>1. p \in 0 .. Len(s) + 1 /\ p \in Int /\ p >= 1 /\ Len(s) \in Nat
  BY DEF Positions, Texts
<1>2. White(s, p, a - 1) /\ At(s, a) \notin Whitespace /\ a \in p .. Len(s) + 1
  BY <1>1, SkipIsWhite, Solids
<1>3. After(s, n, "colon") = Past(s, c, "colon")
  BY DEF After
<1>4. At(s, c) = "colon" /\ After(s, n, "colon") = c + 1
  BY <1>3 DEF Past
<1>5. Ahead(s, a, n) /\ n # Fail
  <2>1. Ahead(s, a, n)
    BY <1>1, ScalarsAhead, ParsedAhead
  <2>2. n = Fail => After(s, n, "colon") = Fail
    BY <1>1, AfterIs DEF Fail
  <2>3. QED
    BY <2>1, <2>2
<1>6. ParseString(s, p).next # Fail
  BY <1>5
<1>7. a \in 1 .. Len(s) /\ b \in a + 1 .. Len(s) /\ IsString(s, a, b)
  BY <1>1, <1>6, ReadIsString
<1> HIDE DEF a
<1>8. n \in a + 1 .. Len(s) + 1
  BY <1>5 DEF Ahead
<1> HIDE DEF n
<1>9. c \in n .. Len(s) + 1 /\ White(s, n, c - 1)
  <2>1. n \in 0 .. Len(s) + 1
    BY <1>7, <1>8
  <2>2. QED
    BY <2>1, SkipIsWhite, Solids
<1> HIDE DEF c
<1>10. c \in 1 .. Len(s) /\ s[c] = "colon"
  BY <1>4, SomethingAt
<1>11. b + 1 = n /\ n \in Int
  BY <1>8
<1>12. b \in a .. Len(s) /\ c \in b + 1 .. Len(s) /\ a \in p .. Len(s) /\ b \in Int
  BY <1>2, <1>7, <1>9, <1>10, <1>11
<1>13. At(s, b) \notin Whitespace
  <2>1. s[b] = "quote" /\ b \in 1 .. Len(s)
    BY <1>7 DEF IsString
  <2>2. At(s, b) = s[b]
    BY <2>1 DEF At, Texts
  <2>3. QED
    BY <2>1, <2>2 DEF Whitespace
<1> HIDE DEF b
<1>14. ASSUME NEW i \in 1 .. p, White(s, i, p - 1) PROVE Trimmed(s, i, c - 1, a, b)
  <2>1. /\ i \in Int /\ c - 1 \in Int /\ a \in Int
        /\ a \in i .. c - 1 /\ b \in a .. c - 1
    BY <1>1, <1>10, <1>12
  <2>2. White(s, i, a - 1)
    BY <1>1, <1>2, <1>14, <2>1, WhiteJoins
  <2>3. White(s, b + 1, c - 1)
    BY <1>9, <1>11
  <2>4. QED
    BY <1>2, <1>13, <2>1, <2>2, <2>3, TrimmedIs
<1>15. QED
  BY <1>4, <1>7, <1>10, <1>12, <1>14 DEF a, b, c, n

LEMMA SoundMembers ==
  ASSUME NEW s \in Texts, NEW p \in Positions(s),
         \A x \in p + 1 .. Len(s) + 1 : SoundAt(s, x), Read(s)[p]["members"].next # Fail
  PROVE  ReadsItems(s, p, Read(s)[p]["members"].next - 1, "members", "rbrace")
<1> DEFINE name == ParseString(s, p)
           a == SkipWhitespace(s, p)
           b == name.next - 1
           c == SkipWhitespace(s, name.next)
           colon == After(s, name.next, "colon")
           v == ReadPart(Read(s), colon, "value").next
           w == SkipWhitespace(s, v)
           q == Read(s)[p]["members"].next
           G == Grammar(s)
<1>1. p \in Int /\ p >= 1 /\ p <= Len(s) + 1 /\ Len(s) \in Nat
  BY DEF Positions, Texts
<1>2. q = More(s, Read(s), w, "members", "rbrace").next
  <2>1. Read(s)[p]["members"] = MemberFrom(s, Read(s), name)
    BY ValueIs DEF MembersFrom
  <2>2. QED
    BY <2>1, Nexts DEF MemberFrom, WithMember
<1>3. q # Fail
  OBVIOUS
<1>4. v # Fail
  <2>1. CASE v = Fail
    <3>1. w = Fail
      BY <1>1, <2>1, Solids DEF Fail
    <3>2. At(s, w) = "end"
      BY <3>1 DEF At, Texts, Fail
    <3>3. More(s, Read(s), w, "members", "rbrace") = NotParsed
      BY <3>2 DEF More
    <3>4. QED
      BY <1>2, <1>3, <3>3, Nexts
  <2>2. QED
    BY <2>1
<1>5. colon # Fail
  BY <1>4, Nexts DEF ReadPart
<1>6. /\ colon = c + 1 /\ s[c] = "colon"
      /\ a \in p .. Len(s) /\ b \in a .. Len(s) /\ c \in b + 1 .. Len(s)
      /\ IsString(s, a, b)
      /\ \A i \in 1 .. p : White(s, i, p - 1) => Trimmed(s, i, c - 1, a, b)
  BY <1>5, NameIs
<1>7. v = Read(s)[colon]["value"].next
  BY <1>5 DEF ReadPart
<1> HIDE DEF v, q, colon, name, a, b, c
<1>8. /\ c \in p + 1 .. Len(s) /\ c \in Int /\ colon \in p + 1 .. Len(s) + 1
      /\ colon \in 1 .. Len(s) + 1 /\ colon \in Int /\ colon - 1 = c
  <2>1. a \in Int /\ b \in Int /\ c \in Int /\ p <= a /\ a <= b /\ b + 1 <= c /\ c <= Len(s)
    BY <1>1, <1>6
  <2>2. QED
    BY <1>1, <1>6, <2>1
<1>9. ReadsValue(s, colon, v)
  BY <1>4, <1>7, <1>8 DEF SoundAt
<1>10. v \in colon + 1 .. Len(s) + 1 /\ v \in Int /\ v \in Positions(s)
  <2>1. colon \in Positions(s) /\ "value" \in Parts
    BY <1>8 DEF Positions, Parts
  <2>2. Ahead(s, colon, v)
    BY <1>7, <2>1, ReadIs, ParsedAhead
  <2>3. v \in colon + 1 .. Len(s) + 1
    BY <1>4, <2>2 DEF Ahead
  <2>4. QED
    BY <1>1, <1>8, <2>3 DEF Positions
<1>11. /\ w \in v .. Len(s) /\ White(s, v, w - 1)
       /\ \/ At(s, w) = "rbrace" /\ q - 1 = w
          \/ At(s, w) = "comma" /\ q = Read(s)[w + 1]["members"].next
  BY <1>2, <1>3, <1>10, SoundMore
<1> HIDE DEF w
<1>12. /\ w \in 1 .. Len(s) /\ w \in p + 1 .. Len(s) /\ w - 1 \in v - 1 .. Len(s)
       /\ c \in p .. w - 1 /\ w - 1 \in 0 .. Len(s) /\ w \in Int
  BY <1>1, <1>8, <1>10, <1>11
<1>13. s[w] = At(s, w)
  BY <1>12 DEF At, Texts
<1>14. G[c + 1][w - 1]["value"]
  <2>1. colon \in 1 .. colon /\ White(s, colon, colon - 1)
    BY <1>8 DEF White
  <2>2. G[colon][w - 1]["value"]
    BY <1>9, <1>11, <1>12, <2>1 DEF ReadsValue
  <2>3. QED
    BY <1>6, <2>2
<1>15. \A i \in 1 .. p : i \in 1 .. Len(s) + 1 /\ i \in Int
  BY <1>1
<1>16. ASSUME NEW i \in 1 .. p, White(s, i, p - 1) PROVE IsMember(s, G, i, w - 1)
  <2>1. c \in i .. w - 1 /\ a \in i .. c - 1 /\ b \in i .. c - 1
    <3>1. a \in Int /\ b \in Int /\ p <= a /\ a <= b /\ b + 1 <= c
      BY <1>1, <1>6
    <3>2. i \in Int /\ i <= p /\ c \in Int /\ c <= w - 1 /\ w \in Int
      BY <1>1, <1>8, <1>12, <1>15
    <3>3. QED
      BY <1>1, <3>1, <3>2
  <2>2. Trimmed(s, i, c - 1, a, b)
    BY <1>6, <1>16
  <2>3. QED
    BY <1>6, <1>14, <2>1, <2>2 DEF IsMember
<1>17. CASE At(s, w) = "rbrace" /\ q - 1 = w
  <2>1. ASSUME NEW i \in 1 .. p, White(s, i, p - 1) PROVE G[i][w - 1]["members"]
    <3>1. IsMembers(s, G, i, w - 1)
      BY <1>16, <2>1 DEF IsMembers
    <3>2. QED
      BY <1>12, <1>15, <3>1, GrammarIs
  <2>2. w \in p .. Len(s)
    BY <1>1, <1>12
  <2>3. ReadsItems(s, p, w, "members", "rbrace")
    BY <1>13, <1>17, <2>1, <2>2 DEF ReadsItems
  <2>4. QED
    BY <1>17, <2>3 DEF q
<1>18. CASE At(s, w) = "comma" /\ q = Read(s)[w + 1]["members"].next
  <2> DEFINE e == q - 1
             x == w + 1
  <2>1. x \in p + 1 .. Len(s) + 1 /\ x \in 1 .. x /\ White(s, x, x - 1)
    BY <1>1, <1>12 DEF White
  <2>2. ReadsItems(s, x, e, "members", "rbrace")
    BY <1>3, <1>18, <2>1 DEF SoundAt
  <2> HIDE DEF e, x
  <2>3. e \in x .. Len(s) /\ s[e] = "rbrace" /\ G[x][e - 1]["members"]
    BY <2>1, <2>2 DEF ReadsItems
  <2>4. e \in w + 1 .. Len(s) /\ G[w + 1][e - 1]["members"]
    BY <2>3 DEF x
  <2>5. ASSUME NEW i \in 1 .. p, White(s, i, p - 1) PROVE G[i][e - 1]["members"]
    <3>1. e - 1 \in 0 .. Len(s) /\ w \in i .. e - 1
      <4>1. e \in w + 1 .. Len(s) /\ w \in p + 1 .. Len(s)
        BY <1>12, <2>4
      <4>2. QED
        BY <1>1, <4>1
    <3>2. IsMembers(s, G, i, e - 1)
      BY <1>13, <1>16, <1>18, <2>4, <2>5, <3>1 DEF IsMembers
    <3>3. QED
      BY <1>15, <3>1, <3>2, GrammarIs
  <2>6. e \in p .. Len(s)
    BY <1>1, <1>12, <2>4
  <2>7. ReadsItems(s, p, e, "members", "rbrace")
    BY <2>3, <2>5, <2>6 DEF ReadsItems
  <2>8. QED
    BY <2>7 DEF e, q
<1>19. QED
  BY <1>11, <1>17, <1>18

LEMMA Sound ==
  ASSUME NEW s \in Texts
  PROVE  \A p \in Positions(s) : SoundAt(s, p)
<1> DEFINE n == Len(s) + 1
           P == {p \in 1 .. n : SoundAt(s, p)}
<1>1. n \in Nat /\ Positions(s) = 1 .. n
  BY DEF Texts, Positions
<1>2. ASSUME NEW p \in 1 .. n, \A q \in p + 1 .. n : q \in P PROVE p \in P
  <2>1. p \in Positions(s) /\ \A x \in p + 1 .. Len(s) + 1 : SoundAt(s, x)
    BY <1>1, <1>2
  <2>2. Read(s)[p]["value"] = ParseNodeValue(s, p)
    BY <1>1 DEF ParseNodeValue, ReadPart, Fail
  <2>3. SoundAt(s, p)
    BY <2>1, <2>2, SoundValue, SoundElements, SoundMembers DEF SoundAt
  <2>4. QED
    BY <2>3
<1> HIDE DEF P
<1>3. 1 .. n \subseteq P
  BY <1>1, <1>2, Backwards
<1>4. QED
  BY <1>1, <1>3 DEF P

\* A text that is accepted is a value of the grammar.
LEMMA AcceptedIsValue ==
  ASSUME NEW s \in Texts, Accepted(s)
  PROVE  Value(s)
<1> DEFINE q == ParseNodeValue(s, 1).next
<1>1. q # Fail /\ SkipWhitespace(s, q) = Len(s) + 1
  BY Nexts DEF Accepted, ParseNode, Whole
<1>2. 1 \in Positions(s) /\ Len(s) \in Nat /\ "value" \in Parts
  BY DEF Positions, Texts, Parts
<1>3. Read(s)[1]["value"] = ParseNodeValue(s, 1)
  BY DEF ParseNodeValue, ReadPart, Fail
<1>4. q \in 2 .. Len(s) + 1
  <2>1. IsParsed(s, 1, ParseNodeValue(s, 1))
    BY <1>2, <1>3, ReadIs
  <2>2. QED
    BY <1>1, <2>1, ParsedAhead DEF Ahead
<1>5. ReadsValue(s, 1, q)
  BY <1>1, <1>2, <1>3, Sound DEF SoundAt
<1> HIDE DEF q
<1>6. White(s, q, Len(s)) /\ Len(s) \in q - 1 .. Len(s) /\ White(s, 1, 0)
  <2>1. q \in 0 .. Len(s) + 1 /\ Len(s) + 1 - 1 = Len(s)
    BY <1>2, <1>4
  <2>2. White(s, q, Len(s) + 1 - 1)
    BY <1>1, <2>1, SkipIsWhite
  <2>3. QED
    BY <1>2, <1>4, <2>1, <2>2 DEF White
<1>7. QED
  BY <1>5, <1>6 DEF ReadsValue, Value

-----------------------------------------------------------------------------
(* What the grammar has, the parser takes.                                 *)

\* The parser reads the value from i to j up to the white space behind it, and
\* items up to the bracket behind j.
TakesValue(s, i, j) ==
    LET q == Read(s)[i]["value"].next IN
    Grammar(s)[i][j]["value"] /\ At(s, j + 1) \notin Digits =>
        q # Fail /\ q \in i + 1 .. j + 1 /\ White(s, q, j)
TakesItems(s, i, j, part, close) ==
    Grammar(s)[i][j][part] /\ At(s, j + 1) = close => Read(s)[i][part].next = j + 1 + 1
TakesAll(s, i, j) ==
    /\ TakesValue(s, i, j)
    /\ TakesItems(s, i, j, "elements", "rbracket")
    /\ TakesItems(s, i, j, "members", "rbrace")
TakesInside(s, i, j) ==
    \A a \in 1 .. Len(s) + 1, b \in 0 .. Len(s) : b - a < j - i => TakesAll(s, a, b)

LEMMA TrimmedAt ==
  ASSUME NEW s \in Texts, NEW i \in 1 .. Len(s) + 1, NEW j \in 0 .. Len(s), NEW a, NEW b,
         Trimmed(s, i, j, a, b)
  PROVE  /\ a \in i .. j /\ b \in a .. j /\ SkipWhitespace(s, i) = a /\ White(s, b + 1, j)
         /\ At(s, a) \notin Whitespace
<1>1. Len(s) \in Nat
  BY DEF Texts
<1>2. /\ a \in i .. j /\ b \in i .. j /\ At(s, a) \notin Whitespace
      /\ \A k \in i .. j : At(s, k) \notin Whitespace => k \in a .. b
  BY DEF Trimmed, Solid
<1>3. b \in a .. j
  BY <1>2 DEF Trimmed, Solid
<1>4. \A k \in i .. a - 1 : k \in i .. j /\ ~(k \in a .. b)
  BY <1>2
<1>5. White(s, i, a - 1)
  BY <1>2, <1>4 DEF White
<1>6. \A k \in b + 1 .. j : k \in i .. j /\ ~(k \in a .. b)
  BY <1>2
<1>7. White(s, b + 1, j)
  BY <1>2, <1>6 DEF White
<1>8. i \in 0 .. Len(s) + 1 /\ a \in i .. Len(s) + 1
  BY <1>1, <1>2
<1>9. SkipWhitespace(s, i) = a
  BY <1>2, <1>5, <1>8, WhiteIsSkipped
<1>10. QED
  BY <1>2, <1>3, <1>7, <1>9

\* What is read first, from white space on.
LEMMA ItemsBegin ==
  ASSUME NEW s \in Texts, NEW p \in Positions(s)
  PROVE  LET w == SkipWhitespace(s, p) IN
         /\ Read(s)[w]["elements"] = Read(s)[p]["elements"]
         /\ Read(s)[w]["members"] = Read(s)[p]["members"]
         /\ Read(s)[p]["elements"].next # Fail => At(s, w) # "rbracket"
         /\ Read(s)[p]["members"].next # Fail => At(s, w) # "rbrace"
<1> DEFINE w == SkipWhitespace(s, p)
<1>1. p \in 0 .. Len(s) + 1 /\ Len(s) \in Nat
  BY DEF Positions, Texts
<1>2. w \in Positions(s) /\ Read(s)[w]["elements"] = Read(s)[p]["elements"]
  BY ValueIs
<1>3. Read(s)[w]["members"] = Read(s)[p]["members"]
  <2>1. ParseString(s, p) = ParseString(s, w)
    BY <1>1, ScalarsAhead
  <2> HIDE DEF w
  <2>2. /\ Read(s)[p]["members"] = MembersFrom(s, Read(s), p)
        /\ Read(s)[w]["members"] = MembersFrom(s, Read(s), w)
    BY <1>2, ValueIs
  <2>3. QED
    BY <2>1, <2>2 DEF MembersFrom
<1>4. ASSUME Read(s)[p]["elements"].next # Fail PROVE At(s, w) # "rbracket"
  <2>1. ParseNodeValue(s, p).next # Fail
    BY <1>4, ElementsAre
  <2>2. SkipValue(s, p) # Fail
    BY <1>1, <2>1, WalkEnds
  <2>3. QED
    BY <2>2, NothingAt
<1>5. ASSUME Read(s)[p]["members"].next # Fail PROVE At(s, w) # "rbrace"
  <2> DEFINE colon == After(s, ParseString(s, p).next, "colon")
  <2>1. SkipWhitespace(s, colon) # Fail
    BY <1>5, MembersAre DEF MemberValue
  <2>2. SkipWhitespace(s, Fail) = Fail
    BY <1>1, Solids DEF Fail
  <2>3. colon # Fail
    BY <2>1, <2>2
  <2>4. \E b : b \in w .. Len(s) /\ w \in p .. Len(s) /\ IsString(s, w, b)
    BY <2>3, NameIs
  <2> HIDE DEF w
  <2>5. s[w] = "quote" /\ w \in 1 .. Len(s)
    BY <1>2, <2>4 DEF IsString, Positions
  <2>6. QED
    BY <2>5 DEF At, Texts
<1>6. QED
  BY <1>2, <1>3, <1>4, <1>5

LEMMA BracketsAreRead ==
  ASSUME NEW s \in Texts, NEW a \in 1 .. Len(s), NEW b \in 1 .. Len(s), NEW open, NEW close,
         NEW part, <<part, close>> \in {<<"elements", "rbracket">>, <<"members", "rbrace">>},
         IsEnclosed(s, Grammar(s), a, b, open, close, part),
         TakesItems(s, a + 1, b - 1, part, close)
  PROVE  LET first == SkipWhitespace(s, a + 1) IN
         \/ At(s, first) = close /\ first = b
         \/ At(s, first) # close /\ Read(s)[first][part].next = b + 1
<1> DEFINE first == SkipWhitespace(s, a + 1)
<1>1. /\ Len(s) \in Nat /\ a < b /\ a + 1 \in Positions(s) /\ a + 1 \in 0 .. Len(s) + 1
      /\ b - 1 + 1 = b
  BY DEF Texts, IsEnclosed, Positions
<1>2. At(s, b) = close
  BY DEF At, Texts, IsEnclosed
<1>3. \/ part = "elements" /\ close = "rbracket"
      \/ part = "members" /\ close = "rbrace"
  OBVIOUS
<1>4. CASE Solid(s, a + 1, b - 1) = {}
  <2>1. White(s, a + 1, b - 1)
    BY <1>4 DEF Solid, White
  <2>2. close \notin Whitespace /\ b \in a + 1 .. Len(s) + 1
    BY <1>1, <1>3 DEF Whitespace
  <2>3. first = b
    BY <1>1, <1>2, <2>1, <2>2, WhiteIsSkipped
  <2>4. QED
    BY <1>2, <2>3
<1>5. CASE Grammar(s)[a + 1][b - 1][part]
  <2>1. Read(s)[a + 1][part].next = b + 1
    BY <1>1, <1>2, <1>5 DEF TakesItems
  <2>2. b + 1 # Fail
    BY DEF Fail
  <2>3. Read(s)[first][part] = Read(s)[a + 1][part] /\ At(s, first) # close
    BY <1>1, <1>3, <2>1, <2>2, ItemsBegin
  <2>4. QED
    BY <2>1, <2>3
<1>6. QED
  BY <1>4, <1>5 DEF IsEnclosed

LEMMA NodeTaken ==
  ASSUME NEW s \in Texts, NoEnd(s), NEW a \in 1 .. Len(s), NEW b \in a .. Len(s),
         SkipWhitespace(s, a) = a, IsTrimmedValue(s, Grammar(s), a, b),
         At(s, b + 1) \notin Digits,
         a < b => TakesAll(s, a + 1, b - 1)
  PROVE  NodeFrom(s, Read(s), a).next = b + 1
<1> DEFINE r == Read(s)
           first == SkipWhitespace(s, a + 1)
<1>1. Len(s) \in Nat /\ b \in 1 .. Len(s) /\ At(s, a) = s[a] /\ At(s, a) # "end"
  BY DEF Texts, At, NoEnd
<1>2. CASE IsWord(s, a, b)
  <2>1. a = b /\ At(s, a) \in Booleans \cup {"null"}
    BY <1>1, <1>2 DEF IsWord
  <2>2. CASE At(s, a) \in Booleans
    <3>1. NodeFrom(s, r, a).next = ParseBool(s, a).next
      BY <2>2, Nexts DEF NodeFrom, Booleans
    <3>2. ParseBool(s, a) = Parsed(a + 1, At(s, a) = "true")
      BY <2>2 DEF ParseBool
    <3>3. QED
      BY <2>1, <3>1, <3>2 DEF Parsed
  <2>3. CASE At(s, a) = "null"
    <3>1. NodeFrom(s, r, a).next = ParseNull(s, a).next
      BY <2>3, Nexts DEF NodeFrom, Booleans
    <3>2. ParseNull(s, a) = Parsed(a + 1, TRUE)
      BY <2>3 DEF ParseNull
    <3>3. QED
      BY <2>1, <3>1, <3>2 DEF Parsed
  <2>4. QED
    BY <2>1, <2>2, <2>3
<1>3. CASE IsNumber(s, a, b)
  <2>1. At(s, a) \in {"minus"} \cup Digits
    BY <1>1, <1>3 DEF IsNumber
  <2>2. NodeFrom(s, r, a).next = ParseNumber(s, a).next
    <3>1. At(s, a) \notin {"end", "lbrace", "lbracket", "quote", "null", "n"} \cup Booleans
      BY <2>1 DEF Digits, Booleans
    <3>2. QED
      BY <3>1, Nexts DEF NodeFrom, Booleans
  <2>3. QED
    BY <1>3, <2>2, NumberIsRead
<1>4. CASE IsString(s, a, b)
  <2>1. At(s, a) = "quote"
    BY <1>1, <1>4 DEF IsString
  <2>2. NodeFrom(s, r, a).next = ParseString(s, a).next
    BY <2>1, Nexts DEF NodeFrom, Booleans
  <2>3. QED
    BY <1>1, <1>4, <2>2, StringIsRead
<1>5. CASE IsEnclosed(s, Grammar(s), a, b, "lbracket", "rbracket", "elements")
  <2>1. a < b /\ At(s, a) = "lbracket"
    BY <1>1, <1>5 DEF IsEnclosed
  <2>2. NodeFrom(s, r, a) = ParseArrayNode(s, r, first)
    BY <2>1 DEF NodeFrom, Booleans
  <2>3. TakesItems(s, a + 1, b - 1, "elements", "rbracket")
    BY <2>1 DEF TakesAll
  <2>4. \/ At(s, first) = "rbracket" /\ first = b
        \/ At(s, first) # "rbracket" /\ r[first]["elements"].next = b + 1
    BY <1>1, <1>5, <2>3, BracketsAreRead
  <2> HIDE DEF first, r
  <2>5. QED
    BY <2>2, <2>4, Nexts DEF ParseArrayNode, r
<1>6. CASE IsEnclosed(s, Grammar(s), a, b, "lbrace", "rbrace", "members")
  <2>1. a < b /\ At(s, a) = "lbrace"
    BY <1>1, <1>6 DEF IsEnclosed
  <2>2. NodeFrom(s, r, a) = ParseObjectNode(s, r, first)
    BY <2>1 DEF NodeFrom, Booleans
  <2>3. TakesItems(s, a + 1, b - 1, "members", "rbrace")
    BY <2>1 DEF TakesAll
  <2>4. \/ At(s, first) = "rbrace" /\ first = b
        \/ At(s, first) # "rbrace" /\ r[first]["members"].next = b + 1
    BY <1>1, <1>6, <2>3, BracketsAreRead
  <2> HIDE DEF first, r
  <2>5. QED
    BY <2>2, <2>4, Nexts DEF ParseObjectNode, r
<1>7. QED
  BY <1>2, <1>3, <1>4, <1>5, <1>6 DEF IsTrimmedValue

LEMMA ValueTaken ==
  ASSUME NEW s \in Texts, NoEnd(s), NEW i \in 1 .. Len(s) + 1, NEW j \in 0 .. Len(s),
         TakesInside(s, i, j)
  PROVE  TakesValue(s, i, j)
<1> DEFINE G == Grammar(s)
           q == Read(s)[i]["value"].next
<1>1. Len(s) \in Nat /\ i \in Positions(s) /\ i # Fail
  BY DEF Texts, Positions, Fail
<1>2. SUFFICES ASSUME G[i][j]["value"], At(s, j + 1) \notin Digits
               PROVE  q # Fail /\ q \in i + 1 .. j + 1 /\ White(s, q, j)
  BY DEF TakesValue
<1>3. PICK a \in i .. j, b \in i .. j : Trimmed(s, i, j, a, b) /\ IsTrimmedValue(s, G, a, b)
  BY <1>2, GrammarIs DEF IsValue
<1>4. /\ a \in i .. j /\ b \in a .. j /\ SkipWhitespace(s, i) = a /\ White(s, b + 1, j)
      /\ At(s, a) \notin Whitespace
  BY <1>3, TrimmedAt
<1>5. a \in 1 .. Len(s) /\ b \in a .. Len(s) /\ a \in 0 .. Len(s) + 1
  BY <1>1, <1>4
<1>6. SkipWhitespace(s, a) = a
  BY <1>4, <1>5, Solids
<1>7. At(s, b + 1) \notin Digits
  <2>1. CASE b = j
    BY <1>2, <2>1
  <2>2. CASE b # j
    <3>1. b + 1 \in b + 1 .. j
      BY <1>4, <2>2
    <3>2. At(s, b + 1) \in Whitespace
      BY <1>4, <3>1 DEF White
    <3>3. QED
      BY <3>2 DEF Whitespace, Digits
  <2>3. QED
    BY <2>1, <2>2
<1>8. a < b => TakesAll(s, a + 1, b - 1)
  <2>1. SUFFICES ASSUME a < b PROVE TakesAll(s, a + 1, b - 1)
    OBVIOUS
  <2>2. a + 1 \in 1 .. Len(s) + 1 /\ b - 1 \in 0 .. Len(s) /\ (b - 1) - (a + 1) < j - i
    BY <1>4, <1>5, <2>1
  <2>3. QED
    BY <2>2 DEF TakesInside
<1>9. NodeFrom(s, Read(s), a).next = b + 1
  BY <1>3, <1>5, <1>6, <1>7, <1>8, NodeTaken
<1>10. q = b + 1
  <2>1. Read(s)[i]["value"] = ParseNodeValue(s, i)
    BY <1>1 DEF ParseNodeValue, ReadPart
  <2>2. QED
    BY <1>1, <1>4, <1>9, <2>1, ValueIs
<1> HIDE DEF q
<1>11. b + 1 # Fail /\ b + 1 \in i + 1 .. j + 1
  BY <1>4, <1>5 DEF Fail
<1>12. QED
  BY <1>4, <1>10, <1>11

\* What is read next, of elements and of members.
LEMMA NextRead ==
  ASSUME NEW s \in Texts, NEW p \in Positions(s)
  PROVE  LET colon == After(s, ParseString(s, p).next, "colon")
             v == Read(s)[p]["value"].next
             u == ReadPart(Read(s), colon, "value").next
         IN  /\ Read(s)[p]["elements"].next =
                   More(s, Read(s), SkipWhitespace(s, v), "elements", "rbracket").next
             /\ Read(s)[p]["members"].next =
                   More(s, Read(s), SkipWhitespace(s, u), "members", "rbrace").next
<1>1. p # Fail
  BY DEF Positions, Fail, Texts
<1>2. Read(s)[p]["value"] = ParseNodeValue(s, p)
  BY <1>1 DEF ParseNodeValue, ReadPart
<1>3. ValueFrom(s, Read(s), p) = ParseNodeValue(s, p)
  BY ValueIs DEF ValueFrom
<1>4. Read(s)[p]["elements"] = WithElement(s, Read(s), ParseNodeValue(s, p))
  BY <1>3, ValueIs DEF ElementsFrom
<1>5. Read(s)[p]["members"] = MemberFrom(s, Read(s), ParseString(s, p))
  BY ValueIs DEF MembersFrom
<1>6. QED
  BY <1>2, <1>4, <1>5, Nexts DEF WithElement, MemberFrom, WithMember

\* Behind an item that ends with white space up to e, at k, there is the
\* bracket or a comma.
LEMMA CloseTaken ==
  ASSUME NEW s \in Texts, NEW v, NEW e, NEW k \in 1 .. Len(s), e = k - 1, v \in 1 .. k,
         White(s, v, e), NEW close, close \in {"rbracket", "rbrace"}, At(s, k) = close,
         NEW part
  PROVE  More(s, Read(s), SkipWhitespace(s, v), part, close).next = k + 1
<1>1. v \in 0 .. Len(s) + 1 /\ k \in v .. Len(s) + 1 /\ At(s, k) \notin Whitespace
  BY DEF Texts, Whitespace
<1>2. SkipWhitespace(s, v) = k
  BY <1>1, WhiteIsSkipped
<1>3. More(s, Read(s), k, part, close) = Parsed(k + 1, << >>)
  BY DEF More
<1>4. QED
  BY <1>2, <1>3, Nexts

LEMMA CommaTaken ==
  ASSUME NEW s \in Texts, NEW v, NEW e, NEW k \in 1 .. Len(s), e = k - 1, v \in 1 .. k,
         White(s, v, e), At(s, k) = "comma"
  PROVE  LET w == SkipWhitespace(s, v) IN
         /\ More(s, Read(s), w, "elements", "rbracket") = Read(s)[k + 1]["elements"]
         /\ More(s, Read(s), w, "members", "rbrace") = Read(s)[k + 1]["members"]
<1>1. v \in 0 .. Len(s) + 1 /\ k \in v .. Len(s) + 1 /\ At(s, k) \notin Whitespace
  BY DEF Texts, Whitespace
<1>2. SkipWhitespace(s, v) = k
  BY <1>1, WhiteIsSkipped
<1>3. /\ More(s, Read(s), k, "elements", "rbracket") = Read(s)[k + 1]["elements"]
      /\ More(s, Read(s), k, "members", "rbrace") = Read(s)[k + 1]["members"]
  BY DEF More
<1>4. QED
  BY <1>2, <1>3

LEMMA ElementsTaken ==
  ASSUME NEW s \in Texts, NEW i \in 1 .. Len(s) + 1, NEW j \in 0 .. Len(s),
         TakesInside(s, i, j), TakesValue(s, i, j)
  PROVE  TakesItems(s, i, j, "elements", "rbracket")
<1> DEFINE G == Grammar(s)
           v == Read(s)[i]["value"].next
           q == Read(s)[i]["elements"].next
<1>1. Len(s) \in Nat /\ i \in Positions(s) /\ i \in Int /\ i >= 1
  BY DEF Texts, Positions
<1>2. SUFFICES ASSUME G[i][j]["elements"], At(s, j + 1) = "rbracket" PROVE q = j + 1 + 1
  BY DEF TakesItems
<1>3. q = More(s, Read(s), SkipWhitespace(s, v), "elements", "rbracket").next
  BY <1>1, NextRead
<1> HIDE DEF q, v
<1>4. j + 1 \in 1 .. Len(s) /\ j + 1 - 1 = j
  BY <1>2, SomethingAt
<1>5. CASE IsValue(s, G, i, j)
  <2>1. v \in i + 1 .. j + 1 /\ White(s, v, j)
    <3>1. At(s, j + 1) \notin Digits
      BY <1>2 DEF Digits
    <3>2. G[i][j]["value"]
      BY <1>5, GrammarIs
    <3>3. QED
      BY <3>1, <3>2 DEF TakesValue, v
  <2>2. v \in 1 .. j + 1
    BY <1>1, <2>1
  <2> DEFINE k == j + 1
  <2>3. k \in 1 .. Len(s) /\ j = k - 1 /\ v \in 1 .. k /\ At(s, k) = "rbracket"
    BY <1>2, <1>4, <2>2
  <2> HIDE DEF k
  <2>4. q = k + 1
    BY <1>3, <2>1, <2>3, CloseTaken
  <2>5. QED
    BY <2>4 DEF k
<1>6. ASSUME NEW k \in i .. j, s[k] = "comma", G[i][k - 1]["value"], G[k + 1][j]["elements"]
      PROVE  q = j + 1 + 1
  <2>1. /\ k \in 1 .. Len(s) /\ k - 1 \in 0 .. Len(s) /\ (k - 1) - i < j - i /\ k - 1 + 1 = k
        /\ k + 1 \in 1 .. Len(s) + 1 /\ j - (k + 1) < j - i
    BY <1>1, <1>6
  <2>2. At(s, k) = "comma"
    <3>1. k \in DOMAIN s
      BY <2>1 DEF Texts
    <3>2. QED
      BY <1>6, <3>1 DEF At
  <2>3. TakesValue(s, i, k - 1) /\ TakesItems(s, k + 1, j, "elements", "rbracket")
    BY <2>1 DEF TakesInside, TakesAll
  <2>4. v \in i + 1 .. k /\ White(s, v, k - 1)
    <3>1. At(s, k - 1 + 1) \notin Digits
      BY <2>1, <2>2 DEF Digits
    <3>2. v \in i + 1 .. k - 1 + 1 /\ White(s, v, k - 1)
      BY <1>6, <2>3, <3>1 DEF TakesValue, v
    <3>3. QED
      BY <2>1, <3>2
  <2>5. v \in 1 .. k
    BY <1>1, <2>4
  <2>6. q = Read(s)[k + 1]["elements"].next
    <3> DEFINE e == k - 1
    <3>1. e = k - 1 /\ White(s, v, e) /\ k \in 1 .. Len(s) /\ v \in 1 .. k
      BY <2>1, <2>4, <2>5
    <3> HIDE DEF e
    <3>2. QED
      BY <1>3, <2>2, <3>1, CommaTaken
  <2>7. QED
    BY <1>2, <1>6, <2>3, <2>6 DEF TakesItems
<1>7. QED
  BY <1>2, <1>5, <1>6, GrammarIs DEF IsElements

\* A member is read up to the white space behind it.
LEMMA MemberTaken ==
  ASSUME NEW s \in Texts, NoEnd(s), NEW i \in 1 .. Len(s) + 1, NEW j \in 0 .. Len(s),
         \A k \in i .. j : TakesValue(s, k + 1, j),
         IsMember(s, Grammar(s), i, j), At(s, j + 1) \notin Digits
  PROVE  LET colon == After(s, ParseString(s, i).next, "colon")
             v == ReadPart(Read(s), colon, "value").next
         IN  v \in 1 .. j + 1 /\ White(s, v, j)
<1> DEFINE G == Grammar(s)
           n == ParseString(s, i).next
           colon == After(s, n, "colon")
           v == ReadPart(Read(s), colon, "value").next
<1>1. PICK k \in i .. j : /\ s[k] = "colon" /\ G[k + 1][j]["value"]
                          /\ \E a, b \in i .. k - 1 : Trimmed(s, i, k - 1, a, b) /\ IsString(s, a, b)
  BY DEF IsMember
<1>2. PICK a \in i .. k - 1, b \in i .. k - 1 : Trimmed(s, i, k - 1, a, b) /\ IsString(s, a, b)
  BY <1>1
<1>3. Len(s) \in Nat /\ k \in 1 .. Len(s) /\ k - 1 \in 0 .. Len(s) /\ k \in Int
  BY DEF Texts
<1>4. a \in i .. k - 1 /\ b \in a .. k - 1 /\ SkipWhitespace(s, i) = a /\ White(s, b + 1, k - 1)
  BY <1>2, <1>3, TrimmedAt
<1>5. n = b + 1
  <2>1. a \in 1 .. Len(s) /\ b \in 1 .. Len(s)
    BY <1>3, <1>4
  <2>2. QED
    BY <1>2, <1>4, <2>1, StringIsRead
<1> HIDE DEF n
<1>6. SkipWhitespace(s, n) = k
  <2>1. n \in 0 .. Len(s) + 1 /\ k \in n .. Len(s) + 1
    <3>1. b + 1 \in 1 .. k /\ k <= Len(s)
      BY <1>3, <1>4
    <3>2. QED
      BY <1>3, <1>5, <3>1
  <2>2. At(s, k) \notin Whitespace
    BY <1>1, <1>3 DEF At, Texts, Whitespace
  <2>3. White(s, n, k - 1)
    BY <1>4, <1>5
  <2>4. QED
    BY <2>1, <2>2, <2>3, WhiteIsSkipped
<1>7. colon = k + 1
  <2>1. At(s, k) = "colon"
    BY <1>1, <1>3 DEF At, Texts
  <2>2. QED
    BY <1>6, <2>1 DEF After, Past
<1>8. k + 1 # Fail
  BY <1>3 DEF Fail
<1> HIDE DEF colon
<1>9. v = Read(s)[k + 1]["value"].next
  BY <1>7, <1>8 DEF ReadPart
<1> HIDE DEF v
<1>10. v \in k + 1 + 1 .. j + 1 /\ White(s, v, j)
  BY <1>1, <1>9 DEF TakesValue
<1>11. v \in 1 .. j + 1
  BY <1>3, <1>10
<1>12. QED
  BY <1>10, <1>11 DEF v, colon, n

LEMMA MembersTaken ==
  ASSUME NEW s \in Texts, NoEnd(s), NEW i \in 1 .. Len(s) + 1, NEW j \in 0 .. Len(s),
         TakesInside(s, i, j)
  PROVE  TakesItems(s, i, j, "members", "rbrace")
<1> DEFINE G == Grammar(s)
           colon == After(s, ParseString(s, i).next, "colon")
           v == ReadPart(Read(s), colon, "value").next
           q == Read(s)[i]["members"].next
<1>1. Len(s) \in Nat /\ i \in Positions(s) /\ i \in Int /\ i >= 1
  BY DEF Texts, Positions
<1>2. SUFFICES ASSUME G[i][j]["members"], At(s, j + 1) = "rbrace" PROVE q = j + 1 + 1
  BY DEF TakesItems
<1>3. q = More(s, Read(s), SkipWhitespace(s, v), "members", "rbrace").next
  BY <1>1, NextRead
<1>4. j + 1 \in 1 .. Len(s) /\ j + 1 - 1 = j
  BY <1>2, SomethingAt
<1>5. ASSUME NEW e \in 0 .. j, IsMember(s, G, i, e), At(s, e + 1) \notin Digits
      PROVE  v \in 1 .. e + 1 /\ White(s, v, e)
  <2>1. ASSUME NEW k \in i .. e PROVE TakesValue(s, k + 1, e)
    <3>1. e - (k + 1) < j - i /\ k + 1 \in 1 .. Len(s) + 1 /\ e \in 0 .. Len(s)
      BY <1>1, <1>5
    <3>2. QED
      BY <3>1 DEF TakesInside, TakesAll
  <2>2. e \in 0 .. Len(s)
    BY <1>1, <1>5
  <2>3. QED
    BY <1>5, <2>1, <2>2, MemberTaken
<1> HIDE DEF q, v
<1>6. CASE IsMember(s, G, i, j)
  <2>1. v \in 1 .. j + 1 /\ White(s, v, j)
    <3>1. At(s, j + 1) \notin Digits /\ j \in 0 .. j
      BY <1>2 DEF Digits
    <3>2. QED
      BY <1>5, <1>6, <3>1
  <2> DEFINE k == j + 1
  <2>2. k \in 1 .. Len(s) /\ j = k - 1 /\ v \in 1 .. k /\ At(s, k) = "rbrace"
    BY <1>2, <1>4, <2>1
  <2> HIDE DEF k
  <2>3. q = k + 1
    BY <1>3, <2>1, <2>2, CloseTaken
  <2>4. QED
    BY <2>3 DEF k
<1>7. ASSUME NEW k \in i .. j, s[k] = "comma", IsMember(s, G, i, k - 1),
             G[k + 1][j]["members"]
      PROVE  q = j + 1 + 1
  <2>1. /\ k \in 1 .. Len(s) /\ k - 1 \in 0 .. j /\ k - 1 + 1 = k
        /\ k + 1 \in 1 .. Len(s) + 1 /\ j - (k + 1) < j - i
    BY <1>1, <1>7
  <2>2. At(s, k) = "comma"
    BY <1>7, <2>1 DEF At, Texts
  <2>3. TakesItems(s, k + 1, j, "members", "rbrace")
    BY <2>1 DEF TakesInside, TakesAll
  <2>4. v \in 1 .. k /\ White(s, v, k - 1)
    <3>1. At(s, k - 1 + 1) \notin Digits
      BY <2>1, <2>2 DEF Digits
    <3>2. v \in 1 .. k - 1 + 1 /\ White(s, v, k - 1)
      BY <1>5, <1>7, <2>1, <3>1
    <3>3. QED
      BY <2>1, <3>2
  <2>5. q = Read(s)[k + 1]["members"].next
    <3> DEFINE e == k - 1
    <3>1. e = k - 1 /\ White(s, v, e) /\ k \in 1 .. Len(s)
      BY <2>1, <2>4
    <3> HIDE DEF e
    <3>2. QED
      BY <1>3, <2>2, <2>4, <3>1, CommaTaken
  <2>6. QED
    BY <1>2, <1>7, <2>3, <2>5 DEF TakesItems
<1>8. QED
  BY <1>2, <1>6, <1>7, GrammarIs DEF IsMembers

LEMMA Complete ==
  ASSUME NEW s \in Texts, NoEnd(s)
  PROVE  \A i \in 1 .. Len(s) + 1, j \in 0 .. Len(s) : TakesAll(s, i, j)
<1> DEFINE n == Len(s)
           Small(m) == \A i \in 1 .. n + 1, j \in 0 .. n : j - i + n + 1 < m => TakesAll(s, i, j)
           P == {m \in Nat : Small(m)}
<1>1. n \in Nat
  BY DEF Texts
<1>2. 0 \in P
  <2>1. \A i \in 1 .. n + 1, j \in 0 .. n : ~(j - i + n + 1 < 0)
    BY <1>1
  <2>2. QED
    BY <2>1
<1>3. ASSUME NEW m \in P PROVE m + 1 \in P
  <2>1. m \in Nat /\ m + 1 \in Nat /\ Small(m)
    OBVIOUS
  <2>2. ASSUME NEW i \in 1 .. n + 1, NEW j \in 0 .. n, j - i + n + 1 < m + 1
        PROVE  TakesAll(s, i, j)
    <3>1. \A a \in 1 .. n + 1, b \in 0 .. n : b - a < j - i => b - a + n + 1 < m
      BY <1>1, <2>1, <2>2
    <3>2. TakesInside(s, i, j)
      BY <2>1, <3>1 DEF TakesInside
    <3> HIDE DEF n
    <3>3. i \in 1 .. Len(s) + 1 /\ j \in 0 .. Len(s)
      BY DEF n
    <3>4. QED
      BY <3>2, <3>3, ValueTaken, ElementsTaken, MembersTaken DEF TakesAll
  <2>3. Small(m + 1)
    BY <2>2
  <2> HIDE DEF Small
  <2>4. QED
    BY <2>1, <2>3
<1>4. n + n + 1 \in P
  <2>1. Nat \subseteq P
    <3> HIDE DEF P
    <3>1. QED
      BY <1>2, <1>3, Upwards
  <2>2. n + n + 1 \in Nat
    BY <1>1
  <2> HIDE DEF P, n
  <2>3. QED
    BY <2>1, <2>2
<1>5. \A i \in 1 .. n + 1, j \in 0 .. n : j - i + n + 1 < n + n + 1
  BY <1>1
<1>6. Small(n + n + 1)
  BY <1>4
<1>7. QED
  BY <1>5, <1>6

\* A value of the grammar is accepted.
LEMMA ValueIsAccepted ==
  ASSUME NEW s \in Texts, NoEnd(s), Value(s)
  PROVE  Accepted(s)
<1> DEFINE n == Len(s)
           v == ParseNodeValue(s, 1)
<1>1. n \in Nat /\ 1 \in 1 .. n + 1 /\ n \in 0 .. n
  BY DEF Texts
<1>2. At(s, n + 1) = "end"
  BY <1>1 DEF At, Texts
<1>3. TakesValue(s, 1, n)
  BY <1>1, Complete DEF TakesAll
<1>4. Read(s)[1]["value"] = v
  BY DEF ParseNodeValue, ReadPart, Fail
<1>5. v.next # Fail /\ v.next \in 1 + 1 .. n + 1 /\ White(s, v.next, n)
  <2>1. At(s, n + 1) \notin Digits /\ Grammar(s)[1][n]["value"]
    BY <1>2 DEF Digits, Value
  <2> HIDE DEF v
  <2>2. QED
    BY <1>3, <1>4, <2>1 DEF TakesValue
<1> HIDE DEF v
<1>6. SkipWhitespace(s, v.next) = n + 1
  <2>1. v.next \in 0 .. n + 1 /\ n + 1 \in v.next .. n + 1 /\ n + 1 - 1 = n
    BY <1>1, <1>5
  <2>2. At(s, n + 1) \notin Whitespace
    BY <1>2 DEF Whitespace
  <2> DEFINE k == n + 1
  <2>3. /\ v.next \in 0 .. Len(s) + 1 /\ k \in v.next .. Len(s) + 1
        /\ At(s, k) \notin Whitespace /\ White(s, v.next, k - 1)
    BY <1>5, <2>1, <2>2
  <2> HIDE DEF k, n
  <2>4. SkipWhitespace(s, v.next) = k
    BY <2>3, WhiteIsSkipped
  <2>5. QED
    BY <2>4 DEF k
<1>7. ParseNode(s) = v
  BY <1>5, <1>6 DEF ParseNode, Whole, v
<1>8. QED
  BY <1>5, <1>7 DEF Accepted

\* The parser accepts a text exactly when the grammar has it as a value,
\* whatever the texts a client sends.
THEOREM ParserIsGrammar ==
  ASSUME bodies \subseteq Bodies
  PROVE  AcceptsExactlyValues
<1>1. SUFFICES ASSUME NEW body \in bodies PROVE Accepted(body) <=> Value(body)
  BY DEF AcceptsExactlyValues
<1>2. body \in Texts /\ NoEnd(body)
  <2>1. body \in Seq(STRING \ {"end"})
    BY BodiesAssumption
  <2>2. \A k \in 1 .. Len(body) : body[k] \in STRING \ {"end"}
    BY <2>1
  <2>3. NoEnd(body)
    BY <2>1, <2>2 DEF NoEnd, At
  <2>4. body \in Texts
    BY <2>1 DEF Texts
  <2>5. QED
    BY <2>3, <2>4
<1>3. QED
  BY <1>2, AcceptedIsValue, ValueIsAccepted

=============================================================================
