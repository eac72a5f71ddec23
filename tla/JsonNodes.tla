------------------------------ MODULE JsonNodes ------------------------------
(***************************************************************************)
(* The store of JSON nodes.  The script works on nodes through integer     *)
(* handles: `jsonNodes` maps a handle to a node, a node points to its      *)
(* children.  The natives run on the main thread, which alone changes      *)
(* nodes; a worker thread only stores the tree of an answer it has parsed, *)
(* also between two steps of a native that loops over its arguments.       *)
(*                                                                         *)
(* A node is an address of the heap.  Addresses are given out in ascending *)
(* order and not reused, as if freed memory were never seen again; what no *)
(* handle leads to has been freed.  A scalar is a node without children    *)
(* and with a value; numbers, strings, booleans and null differ in nothing *)
(* the store does.                                                         *)
(***************************************************************************)
EXTENDS Naturals, Sequences, FiniteSets

CONSTANTS
    Scalars,      \* values of scalar nodes
    Names,        \* keys of members
    EmptyName,    \* the empty key, which a parsed text may contain
    Trees,        \* the trees parsed texts give, each a small heap of its own
    ObjectCalls,  \* the lists of arguments of JsonObject
    ArrayCalls,   \* the lists of arguments of JsonArray
    MaxNodes,     \* bound: nodes ever made
    MaxHandles    \* bound: handles ever given out

Addresses == 1 .. MaxNodes
Handles   == 1 .. MaxHandles
Keys      == Names \cup {EmptyName}
Nil       == 0
NoValue   == "no value"
NodeTypes == {"object", "array", "scalar"}

\* The children of an object are its members in order, with their keys; of
\* an array its elements, with the empty key.
Child == [key : Keys, node : Addresses]
Node  == [type : NodeTypes, value : Scalars \cup {NoValue}, children : Seq(Child)]
Fresh == [type |-> "scalar", value |-> NoValue, children |-> <<>>]

ASSUME NamesAssumption == EmptyName \notin Names
ASSUME CallsAssumption ==
    \A args \in ObjectCalls \cup ArrayCalls : args \in Seq([key : Keys, from : Nat])
ASSUME BoundsAssumption == MaxNodes \in Nat /\ MaxHandles \in Nat

VARIABLES
    heap,             \* nodes by address
    nextAddress,
    jsonNodes,        \* addresses by handle; Nil for a handle not in the map
    nextJsonNodeId,
    call,             \* the looping native under way
    origin            \* history: the first node of the root a node was made for

vars == <<heap, nextAddress, jsonNodes, nextJsonNodeId, call, origin>>

\* An argument of a builder: a key, and the handle of the value.  For an
\* append, the children of the right node still to be copied.
Argument == [key : Keys, from : Nat]
Builders == {"object", "array"}
NoCall == [op |-> "none", root |-> Nil, handle |-> Nil, args |-> <<>>, at |-> 1]
Call(op, root, handle, args) ==
    [op |-> op, root |-> root, handle |-> handle, args |-> args, at |-> 1]
MainIdle == call = NoCall

ChildrenIn(h, a) == {h[a].children[i].node : i \in DOMAIN h[a].children}

Children(a)      == ChildrenIn(heap, a)

\* The nodes of the tree at an address: all that hang below it, and no
\* other.  Children come later than their parents, so there is one such set.
IsTree(S, a) ==
    /\ \A x \in S : Children(x) \subseteq S
    /\ \A y \in S \ {a} : \E x \in S : y \in Children(x)
Held == UNION {Children(x) : x \in 1 .. (nextAddress - 1)}
TreesAt(a) ==
    {S \in {{a} \cup T : T \in SUBSET (Held \cap (a + 1) .. (nextAddress - 1))} : IsTree(S, a)}

\* Every tree of Trees numbers its nodes from the root, parents first.
ASSUME TreesAssumption ==
    \A t \in Trees :
        /\ t \in Seq([type : NodeTypes, value : Scalars \cup {NoValue},
                      children : Seq([key : Keys, node : Nat])])
        /\ t # <<>>
        /\ \A a \in DOMAIN t : ChildrenIn(t, a) \subseteq (a + 1) .. Len(t)
        /\ \A a, b \in DOMAIN t :
              \A i \in DOMAIN t[a].children, k \in DOMAIN t[b].children :
                  t[a].children[i].node = t[b].children[k].node => a = b /\ i = k

Init ==
    /\ heap = [a \in Addresses |-> Fresh] /\ nextAddress = 1
    /\ jsonNodes = [h \in Handles |-> Nil] /\ nextJsonNodeId = 1
    /\ call = NoCall
    /\ origin = [a \in Addresses |-> Nil]

-----------------------------------------------------------------------------
(* Handles.                                                                *)

Known(h)     == h \in Handles /\ jsonNodes[h] # Nil
IsA(h, type) == Known(h) /\ heap[jsonNodes[h]].type = type
Without(hs)  == [h \in Handles |-> IF h \in hs THEN Nil ELSE jsonNodes[h]]

\* The store with some handles erased and a new one for the address.
StoreJsonNode(store, a) ==
    /\ nextJsonNodeId \in Handles
    /\ jsonNodes' = [store EXCEPT ![nextJsonNodeId] = a]
    /\ nextJsonNodeId' = nextJsonNodeId + 1

SameHeap  == UNCHANGED <<heap, nextAddress, origin>>
SameStore == UNCHANGED <<jsonNodes, nextJsonNodeId>>

-----------------------------------------------------------------------------
(* Making, copying and linking nodes.                                      *)

\* Clone: the nodes S of a heap, renamed in their order to the addresses
\* from nextAddress on.
Place(S, b) == nextAddress + Cardinality({x \in S : x < b})
Moved(node, S) ==
    [node EXCEPT !.children =
        [i \in DOMAIN node.children |->
            [key |-> node.children[i].key, node |-> Place(S, node.children[i].node)]]]
Clone(h, S) ==
    [a \in Addresses |->
        IF \E b \in S : Place(S, b) = a
        THEN Moved(h[CHOOSE b \in S : Place(S, b) = a], S)
        ELSE heap[a]]
\* n new nodes, the first of which is at nextAddress; root is the node they
\* were made for.
Allocate(n, root) ==
    /\ nextAddress + n <= MaxNodes + 1
    /\ nextAddress' = nextAddress + n
    /\ origin' = [a \in Addresses |-> IF a \in nextAddress .. nextAddress + n - 1
                                      THEN root ELSE origin[a]]

\* SetObjectMember: the first member with the key gets the new value, or a
\* member is added.  An empty key is refused.
PositionOf(children, key) ==
    LET found == {i \in DOMAIN children : children[i].key = key} IN
    IF found = {} THEN Nil ELSE CHOOSE i \in found : \A k \in found : i <= k

\* Mutant: a member is added although there is one with its key.
AddMember(children, key, a) ==
    IF key = EmptyName THEN children ELSE Append(children, [key |-> key, node |-> a])

SetObjectMember(children, key, a) ==
    LET i == PositionOf(children, key) IN
    CASE key = EmptyName -> children
      [] key # EmptyName /\ i # Nil -> [children EXCEPT ![i].node = a]
      [] key # EmptyName /\ i = Nil -> Append(children, [key |-> key, node |-> a])
Linked(parent, children, key, a) ==
    IF heap[parent].type = "object" THEN SetObjectMember(children, key, a)
    ELSE Append(children, [key |-> EmptyName, node |-> a])

\* The node at nextAddress becomes a child of parent, in a heap that has it.
Link(h, parent, key) ==
    [h EXCEPT ![parent].children = Linked(parent, @, key, nextAddress)]

ScalarNode(value) == [type |-> "scalar", value |-> value, children |-> <<>>]
EmptyNode(type)   == [type |-> type, value |-> NoValue, children |-> <<>>]

\* A new node with a handle of its own.
MakeNode(node) ==
    /\ Allocate(1, nextAddress)
    /\ heap' = [heap EXCEPT ![nextAddress] = node]
    /\ StoreJsonNode(jsonNodes, nextAddress)

\* A copy of the tree at an address becomes a child of parent.
InsertCopy(parent, key, a) ==
    \E S \in TreesAt(a) :
        /\ Allocate(Cardinality(S), origin[parent])
        /\ heap' = Link(Clone(heap, S), parent, key)

-----------------------------------------------------------------------------
(* The natives that need one step.  A call that is refused changes nothing *)
(* and is no step.                                                         *)

JsonNodeObject == MainIdle /\ MakeNode(EmptyNode("object")) /\ UNCHANGED call
JsonNodeArray  == MainIdle /\ MakeNode(EmptyNode("array")) /\ UNCHANGED call
\* JsonNodeString, Int, Float, Bool and Null.
JsonNodeScalar(value) == MainIdle /\ MakeNode(ScalarNode(value)) /\ UNCHANGED call

\* A parsed text, for a native or on a worker thread.
ParseJsonNode(tree) ==
    /\ Allocate(Len(tree), nextAddress) /\ heap' = Clone(tree, DOMAIN tree)
    /\ StoreJsonNode(jsonNodes, nextAddress)
    /\ UNCHANGED call

\* Mutant: the node itself becomes the member, not a copy of it.
SetAlias(object, key, value) ==
    /\ MainIdle /\ IsA(object, "object") /\ Known(value) /\ key # EmptyName
    /\ heap' = [heap EXCEPT ![jsonNodes[object]].children =
                    SetObjectMember(@, key, jsonNodes[value])]
    /\ UNCHANGED <<nextAddress, origin, call>> /\ SameStore

JsonNodeSet(object, key, value) ==
    /\ MainIdle /\ IsA(object, "object") /\ Known(value) /\ key # EmptyName
    /\ InsertCopy(jsonNodes[object], key, jsonNodes[value])
    /\ UNCHANGED call /\ SameStore
JsonNodeArrayPush(array, value) ==
    /\ MainIdle /\ IsA(array, "array") /\ Known(value)
    /\ InsertCopy(jsonNodes[array], EmptyName, jsonNodes[value])
    /\ UNCHANGED call /\ SameStore

\* The same with a scalar made for it: JsonNodeSetString ... SetNull and
\* JsonNodeArrayPushString ... PushNull.
InsertScalar(parent, key, value) ==
    /\ Allocate(1, origin[parent])
    /\ heap' = Link([heap EXCEPT ![nextAddress] = ScalarNode(value)], parent, key)
JsonNodeSetScalar(object, key, value) ==
    /\ MainIdle /\ IsA(object, "object") /\ key # EmptyName
    /\ InsertScalar(jsonNodes[object], key, value)
    /\ UNCHANGED call /\ SameStore
JsonNodeArrayPushScalar(array, value) ==
    /\ MainIdle /\ IsA(array, "array")
    /\ InsertScalar(jsonNodes[array], EmptyName, value)
    /\ UNCHANGED call /\ SameStore

\* A handle for the child itself: the script reads and changes it in place.
GetChild(parent, i) ==
    /\ StoreJsonNode(jsonNodes, heap[jsonNodes[parent]].children[i].node)
    /\ SameHeap /\ UNCHANGED call
JsonNodeGet(object, key) ==
    /\ MainIdle /\ IsA(object, "object")
    /\ LET i == PositionOf(heap[jsonNodes[object]].children, key) IN
       i # Nil /\ GetChild(object, i)
JsonNodeArrayGet(array, i) ==
    /\ MainIdle /\ IsA(array, "array")
    /\ i \in DOMAIN heap[jsonNodes[array]].children /\ GetChild(array, i)

\* The handle goes; nodes that other handles lead to stay.
ReleaseJsonNode(h) ==
    /\ MainIdle /\ Known(h)
    /\ jsonNodes' = Without({h})
    /\ UNCHANGED <<nextJsonNodeId, call>> /\ SameHeap

-----------------------------------------------------------------------------
(* The natives that loop.                                                  *)

\* JsonObject(key, value, ...) and JsonArray(value, ...): the parent first,
\* then a copy of every argument, then the arguments are released.
BeginBuilder(type, args) ==
    /\ MainIdle /\ MakeNode(EmptyNode(type))
    /\ call' = Call(type, nextAddress, nextJsonNodeId, args)

\* An odd number of arguments: the object is released, the arguments stay.
OddArguments ==
    /\ MainIdle /\ nextJsonNodeId \in Handles
    /\ nextJsonNodeId' = nextJsonNodeId + 1
    /\ UNCHANGED <<jsonNodes, call>> /\ SameHeap

Next_(c) == [c EXCEPT !.at = @ + 1]
Current  == call.args[call.at]
Fits     == Known(Current.from) /\ (call.op = "object" => Current.key # EmptyName)
Consumed(n) == {call.args[i].from : i \in 1 .. n}

BuilderStep ==
    /\ call.op \in Builders /\ call.at \in DOMAIN call.args /\ Fits
    /\ InsertCopy(call.root, Current.key, jsonNodes[Current.from])
    /\ call' = Next_(call) /\ SameStore

\* Mutant: a builder that fails keeps what it was given.
BuilderKeeps ==
    /\ call.op \in Builders /\ call.at \in DOMAIN call.args /\ ~Fits
    /\ jsonNodes' = Without({call.handle})
    /\ call' = NoCall /\ UNCHANGED nextJsonNodeId /\ SameHeap

\* What was read so far is released, and the parent.
BuilderFails ==
    /\ call.op \in Builders /\ call.at \in DOMAIN call.args /\ ~Fits
    /\ jsonNodes' = Without(Consumed(call.at - 1) \cup {call.handle})
    /\ call' = NoCall /\ UNCHANGED nextJsonNodeId /\ SameHeap
BuilderEnds ==
    /\ call.op \in Builders /\ call.at = Len(call.args) + 1
    /\ jsonNodes' = Without(Consumed(Len(call.args)))
    /\ call' = NoCall /\ UNCHANGED nextJsonNodeId /\ SameHeap

\* JsonAppend: a copy of the left node, copies of the right one's children
\* behind it, a handle for it, and both arguments are consumed.
BeginAppend(left, right) ==
    /\ MainIdle
    /\ \E type \in {"object", "array"} : IsA(left, type) /\ IsA(right, type)
    /\ \E S \in TreesAt(jsonNodes[left]) :
          Allocate(Cardinality(S), nextAddress) /\ heap' = Clone(heap, S)
    /\ call' = Call("append", nextAddress, Nil,
                    <<[key |-> EmptyName, from |-> left], [key |-> EmptyName, from |-> right]>>)
    /\ SameStore
Right == heap[jsonNodes[call.args[2].from]].children
AppendStep ==
    /\ call.op = "append" /\ call.at \in DOMAIN Right
    /\ InsertCopy(call.root, Right[call.at].key, Right[call.at].node)
    /\ call' = Next_(call) /\ SameStore
AppendEnds ==
    /\ call.op = "append" /\ call.at = Len(Right) + 1
    /\ StoreJsonNode(Without(Consumed(2)), call.root)
    /\ call' = NoCall /\ SameHeap

\* A change of gamemode: every handle goes.  It waits for no worker; a tree
\* that one stores later stays.
Reset ==
    /\ MainIdle /\ \E h \in Handles : Known(h)
    /\ jsonNodes' = [h \in Handles |-> Nil]
    /\ UNCHANGED <<nextJsonNodeId, call>> /\ SameHeap

\* A script passes handles it got, or the -1 of a call that failed.
GivenOut(args) == \A i \in DOMAIN args : args[i].from < nextJsonNodeId

Natives ==
    \/ JsonNodeObject \/ JsonNodeArray \/ OddArguments \/ Reset
    \/ \E v \in Scalars : JsonNodeScalar(v)
    \/ \E h \in Handles, k \in Keys :
          \/ JsonNodeGet(h, k) \/ \E g \in Handles : JsonNodeSet(h, k, g)
          \/ \E v \in Scalars : JsonNodeSetScalar(h, k, v)
    \/ \E h \in Handles :
          \/ ReleaseJsonNode(h)
          \/ \E g \in Handles : JsonNodeArrayPush(h, g) \/ BeginAppend(h, g)
          \/ \E v \in Scalars : JsonNodeArrayPushScalar(h, v)
          \/ \E i \in Addresses : JsonNodeArrayGet(h, i)
    \/ \E args \in ObjectCalls : GivenOut(args) /\ BeginBuilder("object", args)
    \/ \E args \in ArrayCalls : GivenOut(args) /\ BeginBuilder("array", args)
    \/ BuilderStep \/ BuilderFails \/ BuilderEnds
    \/ AppendStep \/ AppendEnds
Next == Natives \/ \E tree \in Trees : ParseJsonNode(tree)
Spec == Init /\ [][Next]_vars

-----------------------------------------------------------------------------
(* Properties.                                                             *)

\* The values the heap, the store and the call under way may take.
TypeOK ==
    /\ heap \in [Addresses -> [type : NodeTypes, value : Scalars \cup {NoValue},
                               children : Seq([key : Keys, node : Nat])]]
    /\ nextAddress \in 1 .. MaxNodes + 1
    /\ jsonNodes \in [Handles -> Addresses \cup {Nil}]
    /\ nextJsonNodeId \in 1 .. MaxHandles + 1
    /\ call \in [op : {"none", "append"} \cup Builders, root : Addresses \cup {Nil},
                 handle : Handles \cup {Nil}, args : Seq(Argument), at : Nat \ {0}]
    /\ origin \in [Addresses -> Addresses \cup {Nil}]

\* Nodes form trees, whatever the script does: a child was made after its
\* parent and hangs in one place only, so the recursions of Clone and
\* StringifyNode come to an end, and so does the release of the pointers.
Forest ==
    /\ \A a \in Addresses : Children(a) \subseteq (a + 1) .. (nextAddress - 1)
    /\ \A a, b \in Addresses :
          \A i \in DOMAIN heap[a].children, k \in DOMAIN heap[b].children :
              heap[a].children[i].node = heap[b].children[k].node => a = b /\ i = k

\* A node that was set into another or appended is copied: a child belongs
\* to the same root as its parent, so handles of roots that were made by
\* different calls lead to no common node, and a change through one is never
\* seen through the other.  Only JsonNodeGet and JsonNodeArrayGet give a
\* second handle into a tree.
CopiesAreSeparate ==
    \A a \in Addresses : \A b \in Children(a) : origin[b] = origin[a]

ValueAt(a) ==
    LET value[b \in Addresses] ==
            [type |-> heap[b].type, value |-> heap[b].value,
             children |-> [i \in DOMAIN heap[b].children |->
                 <<heap[b].children[i].key, value[heap[b].children[i].node]>>]]
    IN  value[a]
ChildValues(a) == [i \in DOMAIN heap[a].children |-> ValueAt(heap[a].children[i].node)]
With(a, key)   == {i \in DOMAIN heap[a].children : heap[a].children[i].key = key}
FirstWith(a, key) == ChildValues(a)[CHOOSE i \in With(a, key) : \A k \in With(a, key) : i <= k]
LastWith(a, key)  == ChildValues(a)[CHOOSE i \in With(a, key) : \A k \in With(a, key) : i >= k]

\* What JsonAppend has done to the store and the heap when it ends.
AppendOutcome ==
    call.op = "append" /\ call'.op = "none" =>
        LET left   == jsonNodes[call.args[1].from]
            right  == jsonNodes[call.args[2].from]
            merged == jsonNodes'[nextJsonNodeId]
        IN  /\ \A h \in Handles \ {nextJsonNodeId} :
                  jsonNodes'[h] = IF h \in Consumed(2) THEN Nil ELSE jsonNodes[h]
            /\ heap[merged].type = heap[left].type
            /\ heap[left].type = "array" =>
                  ChildValues(merged) = ChildValues(left) \o ChildValues(right)
            /\ heap[left].type = "object" =>
                  \A k \in Names :
                      /\ With(merged, k) = {} <=> With(left, k) \cup With(right, k) = {}
                      /\ With(right, k) # {} =>
                             FirstWith(merged, k) = LastWith(right, k)
                      /\ With(right, k) = {} /\ With(left, k) # {} =>
                             FirstWith(merged, k) = FirstWith(left, k)
\* JsonAppend takes all or nothing: when it gives a handle, its two
\* arguments are gone and no other handle has changed, and the new node has
\* the elements of the left array and then those of the right one, or, for
\* every key, what the right object ends with under that key, and else what
\* the left one starts with.
AppendMerges == [][AppendOutcome]_vars

\* What a builder has done to the store when it ends.
BuilderOutcome ==
    call.op \in Builders /\ call'.op = "none" =>
        \/ /\ jsonNodes'[call.handle] # Nil
           /\ \A h \in Handles :
                 jsonNodes'[h] = IF h \in Consumed(Len(call.args)) THEN Nil ELSE jsonNodes[h]
        \/ \E n \in DOMAIN call.args :
              /\ \/ ~Known(call.args[n].from)
                 \/ call.op = "object" /\ call.args[n].key = EmptyName
              /\ \A h \in Handles :
                    jsonNodes'[h] = IF h \in Consumed(n - 1) \cup {call.handle} THEN Nil
                                    ELSE jsonNodes[h]
\* A builder that ends well has consumed every argument.  One that fails
\* gives no node and has consumed those before the argument it failed at;
\* the later ones stay in the store, where the script, which wrote them as
\* arguments of the call, has no handle to release them by.
BuilderSettles == [][BuilderOutcome]_vars
=============================================================================
