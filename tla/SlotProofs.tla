------------------------------ MODULE SlotProofs ------------------------------
(***************************************************************************)
(* Proofs about MessageSlot and SlotUsers, for every set of processes,     *)
(* minors, messages, channels and sizes.                                   *)
(***************************************************************************)
EXTENDS SlotUsers, FiniteSetTheorems, SequenceTheorems, WellFoundedInduction,
        TLAPS

(***************************************************************************)
(* The list.  Every link goes to an earlier node, so that the first node   *)
(* of a minor is the last that was allocated of those on the list.         *)
(***************************************************************************)

ListType ==
  /\ allocated \in Nat
  /\ head \in 0 .. allocated
  /\ \A n \in 1 .. allocated : node[n].next \in 0 .. n - 1

\* S has the next node of each of its nodes.
ClosedSet(S) == \A j \in S \ {Null} : node[j].next \in S

LEMMA InNodesFrom ==
  ASSUME NEW n, NEW k
  PROVE  k \in NodesFrom(n) <=>
           /\ k \in 1 .. allocated
           /\ \A S \in SUBSET (0 .. allocated) : n \in S /\ ClosedSet(S) => k \in S
  BY DEF NodesFrom, ClosedSet

\* A walk from node n comes by n and earlier nodes only.
LEMMA NodesFromBelow ==
  ASSUME ListType, NEW n \in 0 .. allocated
  PROVE  NodesFrom(n) \subseteq 1 .. n
<1> SUFFICES ASSUME NEW k \in NodesFrom(n) PROVE k \in 1 .. n
  OBVIOUS
<1>1. 0 .. n \in SUBSET (0 .. allocated) /\ n \in 0 .. n
  BY DEF ListType
<1>2. ClosedSet(0 .. n)
  BY DEF ListType, ClosedSet, Null
<1>3. k \in 1 .. allocated /\ k \in 0 .. n
  BY <1>1, <1>2, InNodesFrom
<1> QED BY <1>3 DEF ListType

\* A walk from n goes on with the node that n is linked to.
LEMMA NodesFromStep ==
  ASSUME ListType, NEW n \in 1 .. allocated
  PROVE  NodesFrom(n) = {n} \cup NodesFrom(node[n].next)
<1> DEFINE next == node[n].next
<1>1. next \in 0 .. allocated /\ n \in 0 .. allocated /\ n # Null
  BY DEF ListType, Null
<1>2. ASSUME NEW k \in NodesFrom(n), k # n
      PROVE  k \in NodesFrom(next)
  <2>1. SUFFICES ASSUME NEW S \in SUBSET (0 .. allocated), next \in S, ClosedSet(S)
                 PROVE  k \in S
    BY <1>2, InNodesFrom
  <2>2. S \cup {n} \in SUBSET (0 .. allocated) /\ ClosedSet(S \cup {n})
    BY <1>1, <2>1 DEF ClosedSet
  <2>3. k \in S \cup {n}
    BY <1>2, <2>2, InNodesFrom
  <2> QED BY <1>2, <2>3
<1>3. n \in NodesFrom(n)
  BY InNodesFrom
<1>4. ASSUME NEW k \in NodesFrom(next)
      PROVE  k \in NodesFrom(n)
  BY <1>1, InNodesFrom DEF ClosedSet
<1> QED BY <1>2, <1>3, <1>4

LEMMA NodesFromNull ==
  ASSUME ListType
  PROVE  NodesFrom(Null) = {}
  BY NodesFromBelow DEF ListType, Null

\* Of two nodes that a walk comes by, the later comes first and leads to the other.
LEMMA NodesFromChain ==
  ASSUME ListType, NEW n \in 0 .. allocated,
         NEW x \in NodesFrom(n), NEW y \in NodesFrom(n), y <= x
  PROVE  y \in NodesFrom(x)
<1> DEFINE S == {j \in 0 .. allocated :
                   j \in NodesFrom(x) \cup {Null} \/ (j > x /\ x \in NodesFrom(j))}
<1>1. x \in 1 .. n /\ y \in 1 .. n /\ allocated \in Nat
  BY NodesFromBelow DEF ListType
<1>2. x \in NodesFrom(x)
  BY <1>1, InNodesFrom
<1>3. n \in S
  BY <1>1, <1>2
<1>4. ClosedSet(S)
  <2> SUFFICES ASSUME NEW j \in S \ {Null} PROVE node[j].next \in S
    BY DEF ClosedSet
  <2>1. /\ j \in 1 .. allocated /\ node[j].next \in 0 .. allocated
        /\ node[j].next < j
    BY DEF ListType, Null
  <2>2. NodesFrom(j) = {j} \cup NodesFrom(node[j].next)
    BY <2>1, NodesFromStep
  <2>3. CASE j \in NodesFrom(x)
    <3>1. CASE node[j].next = Null
      BY <2>1, <3>1
    <3>2. CASE node[j].next # Null
      <4>1. node[j].next \in NodesFrom(x)
        <5>1. node[j].next \in 1 .. allocated
          BY <2>1, <3>2 DEF Null
        <5>2. ASSUME NEW T \in SUBSET (0 .. allocated), x \in T, ClosedSet(T)
              PROVE  node[j].next \in T
          <6>1. j \in T
            BY <2>3, <5>2, InNodesFrom
          <6> QED BY <5>2, <6>1 DEF ClosedSet
        <5> QED BY <5>1, <5>2, InNodesFrom
      <4> QED BY <2>1, <4>1
    <3> QED BY <3>1, <3>2
  <2>4. CASE j > x /\ x \in NodesFrom(j)
    <3>1. x \in NodesFrom(node[j].next)
      BY <2>2, <2>4
    <3>2. x <= node[j].next
      BY <2>1, <3>1, NodesFromBelow, <1>1
    <3>3. CASE node[j].next = x
      BY <1>2, <2>1, <3>3
    <3>4. CASE node[j].next # x
      BY <1>1, <2>1, <3>1, <3>2, <3>4
    <3> QED BY <3>3, <3>4
  <2> QED BY <2>3, <2>4, <1>1
<1>5. y \in S
  <2>1. S \in SUBSET (0 .. allocated)
    OBVIOUS
  <2> HIDE DEF S
  <2> QED BY <1>3, <1>4, <2>1, InNodesFrom
<1> QED BY <1>1, <1>5 DEF Null

\* A set of places that is not empty has a last one.
LEMMA LastPlace ==
  ASSUME NEW a \in Nat, NEW S \in SUBSET (1 .. a), S # {}
  PROVE  \E k \in S : \A j \in S : j <= k
<1> DEFINE D == {a - k : k \in S}
           R == OpToRel(<, Nat)
<1>1. \A k \in S : k \in Nat /\ a - k \in Nat
  OBVIOUS
<1>2. D # {} /\ D \subseteq Nat
  BY <1>1
<1>3. PICK d \in D : \A e \in D : <<e, d>> \notin R
  <2> HIDE DEF D
  <2> QED BY <1>2, NatLessThanWellFounded, WFMin
<1>4. \A b, c \in Nat : b < c => <<b, c>> \in R
  BY DEF OpToRel
<1>5. PICK k \in S : d = a - k
  OBVIOUS
<1> HIDE DEF R
<1>6. ASSUME NEW j \in S PROVE j <= k
  <2>1. a - j \in D /\ a - j \in Nat /\ d \in Nat
    BY <1>1, <1>5
  <2>2. ~ (a - j < d)
    BY <1>3, <1>4, <2>1
  <2>3. j \in Nat /\ k \in Nat
    BY <1>1, <1>5
  <2> QED BY <1>5, <2>2, <2>3
<1> QED BY <1>5, <1>6

\* The first node of a minor is the last of its nodes that a walk comes by.
LEMMA FirstIsLast ==
  ASSUME ListType, NEW n \in 0 .. allocated, NEW m
  PROVE  /\ Hits(n, m) = {} => FirstFrom(n, m) = Null
         /\ Hits(n, m) # {} => /\ FirstFrom(n, m) \in Hits(n, m)
                               /\ \A k \in Hits(n, m) : k <= FirstFrom(n, m)
<1>1. CASE Hits(n, m) = {}
  BY <1>1 DEF FirstFrom
<1>2. CASE Hits(n, m) # {}
  <2>1. Hits(n, m) \subseteq NodesFrom(n) /\ NodesFrom(n) \subseteq 1 .. n
        /\ n \in Nat /\ allocated \in Nat
    BY NodesFromBelow DEF Hits, ListType
  <2>2. PICK k \in Hits(n, m) : \A j \in Hits(n, m) : j <= k
    BY <1>2, <2>1, LastPlace
  <2>3. Hits(n, m) \subseteq NodesFrom(k)
    BY <2>1, <2>2, NodesFromChain
  <2> DEFINE f == CHOOSE h \in Hits(n, m) : Hits(n, m) \subseteq NodesFrom(h)
  <2>4. f \in Hits(n, m) /\ Hits(n, m) \subseteq NodesFrom(f)
    BY <2>3
  <2>5. f = FirstFrom(n, m)
    BY <1>2 DEF FirstFrom
  <2> HIDE DEF f
  <2>6. NodesFrom(f) \subseteq 1 .. f
    BY <2>1, <2>4, NodesFromBelow
  <2>7. \A j \in Hits(n, m) : j <= f
    BY <2>1, <2>4, <2>6
  <2> QED BY <1>2, <2>4, <2>5, <2>7
<1> QED BY <1>1, <1>2

LEMMA FirstFromType ==
  ASSUME ListType, NEW n \in 0 .. allocated, NEW m
  PROVE  /\ FirstFrom(n, m) \in 0 .. n
         /\ FirstFrom(n, m) # Null =>
              /\ FirstFrom(n, m) \in Hits(n, m)
              /\ FirstFrom(n, m) \in 1 .. allocated
              /\ node[FirstFrom(n, m)].value = m
         /\ (FirstFrom(n, m) = Null) <=> (Hits(n, m) = {})
<1>1. Hits(n, m) \subseteq 1 .. n /\ n \in Nat /\ allocated \in Nat
  BY NodesFromBelow DEF Hits, ListType
<1>2. \A k \in Hits(n, m) : node[k].value = m
  BY DEF Hits
<1> QED BY FirstIsLast, <1>1, <1>2 DEF Null

\* What is the last of the nodes of a minor is the first of them in the list.
LEMMA LastIsFirst ==
  ASSUME ListType, NEW n \in 0 .. allocated, NEW m,
         NEW k \in Hits(n, m), \A j \in Hits(n, m) : j <= k
  PROVE  FirstFrom(n, m) = k
<1>1. Hits(n, m) \subseteq 1 .. n /\ n \in Nat
  BY NodesFromBelow DEF Hits, ListType
<1>2. FirstFrom(n, m) \in Hits(n, m) /\ k <= FirstFrom(n, m) /\ FirstFrom(n, m) <= k
  BY FirstIsLast
<1> QED BY <1>1, <1>2

\* The first node of minor m from n on is n or the first from the next on.
LEMMA FirstFromStep ==
  ASSUME ListType, NEW n \in 1 .. allocated, NEW m
  PROVE  FirstFrom(n, m) = IF node[n].value = m THEN n ELSE FirstFrom(node[n].next, m)
<1> DEFINE next == node[n].next
<1>1. /\ n \in 0 .. allocated /\ next \in 0 .. allocated /\ n \in Nat
      /\ allocated \in Nat
  BY DEF ListType
<1>2. NodesFrom(n) = {n} \cup NodesFrom(next) /\ NodesFrom(n) \subseteq 1 .. n
  BY <1>1, NodesFromStep, NodesFromBelow
<1>3. CASE node[n].value = m
  <2>1. n \in Hits(n, m) /\ \A j \in Hits(n, m) : j <= n
    BY <1>2, <1>3, <1>1 DEF Hits
  <2>2. FirstFrom(n, m) = n
    BY <1>1, <2>1, LastIsFirst
  <2> QED BY <1>3, <2>2
<1>4. CASE node[n].value # m
  <2>1. Hits(n, m) = Hits(next, m)
    BY <1>2, <1>4 DEF Hits
  <2>2. CASE Hits(n, m) = {}
    BY <1>1, <1>4, <2>1, <2>2, FirstIsLast
  <2>3. CASE Hits(n, m) # {}
    <3>1. FirstFrom(next, m) \in Hits(n, m)
          /\ \A j \in Hits(n, m) : j <= FirstFrom(next, m)
      <4> HIDE DEF next
      <4> QED BY <1>1, <2>1, <2>3, FirstIsLast
    <3>2. FirstFrom(n, m) = FirstFrom(next, m)
      <4> HIDE DEF next
      <4> QED BY <1>1, <3>1, LastIsFirst
    <3> QED BY <1>4, <3>2
  <2> QED BY <2>2, <2>3
<1> QED BY <1>3, <1>4

\* What is known of walks and first nodes, in this state and in the next.
WalkFacts ==
  /\ \A n \in 1 .. allocated : \A m :
       FirstFrom(n, m) = IF node[n].value = m THEN n ELSE FirstFrom(node[n].next, m)
  /\ \A n \in 0 .. allocated : NodesFrom(n) \subseteq 1 .. n
  /\ \A n \in 0 .. allocated : \A m :
       /\ FirstFrom(n, m) \in 0 .. n
       /\ Hits(n, m) = {} => FirstFrom(n, m) = Null
       /\ Hits(n, m) # {} => /\ FirstFrom(n, m) \in Hits(n, m)
                             /\ \A k \in Hits(n, m) : k <= FirstFrom(n, m)
       /\ FirstFrom(n, m) # Null => /\ FirstFrom(n, m) \in 1 .. allocated
                                    /\ node[FirstFrom(n, m)].value = m

LEMMA Walks == ListType => WalkFacts
  BY FirstFromStep, FirstFromType, FirstIsLast, NodesFromBelow DEF WalkFacts

LEMMA WalksNext == ListType' => WalkFacts'
  BY Walks, PTL

\* Nodes that are allocated later and links that stay leave the walks as they are.
LEMMA OlderNodes ==
  ASSUME ListType, ListType', allocated <= allocated',
         \A k \in 1 .. allocated : node'[k].next = node[k].next
  PROVE  \A n \in 0 .. allocated : NodesFrom(n)' = NodesFrom(n)
<1> SUFFICES ASSUME NEW n \in 0 .. allocated PROVE NodesFrom(n)' = NodesFrom(n)
  OBVIOUS
<1>0. allocated \in Nat /\ allocated' \in Nat
  BY DEF ListType
<1>1. \A k \in 0 .. allocated' : NodesFrom(k)' \subseteq 1 .. k
  BY WalksNext DEF WalkFacts
<1>2. ASSUME NEW k \in NodesFrom(n)' PROVE k \in NodesFrom(n)
  <2>1. k \in 1 .. allocated
    <3>1. n \in 0 .. allocated'
      BY <1>0
    <3>2. k \in 1 .. n
      BY <1>1, <3>1, <1>2
    <3> QED BY <1>0, <3>2
  <2>2. ASSUME NEW S \in SUBSET (0 .. allocated), n \in S, ClosedSet(S)
        PROVE  k \in S
    <3>1. S \in SUBSET (0 .. allocated')
      BY <1>0
    <3>2. \A j \in S \ {Null} : node'[j].next \in S
      <4> TAKE j \in S \ {Null}
      <4>1. j \in 1 .. allocated
        BY <1>0 DEF Null
      <4> QED BY <2>2, <4>1 DEF ClosedSet
    <3> QED BY <1>2, <2>2, <3>1, <3>2 DEF NodesFrom
  <2> QED BY <2>1, <2>2, InNodesFrom
<1>3. ASSUME NEW k \in NodesFrom(n) PROVE k \in NodesFrom(n)'
  <2>1. k \in 1 .. allocated'
    BY <1>0, <1>3, InNodesFrom
  <2>2. ASSUME NEW T \in SUBSET (0 .. allocated'), n \in T,
               \A j \in T \ {Null} : node'[j].next \in T
        PROVE  k \in T
    <3> DEFINE S == T \cap (0 .. allocated)
    <3>1. S \in SUBSET (0 .. allocated) /\ n \in S
      BY <2>2
    <3>2. ClosedSet(S)
      <4> SUFFICES ASSUME NEW j \in S \ {Null} PROVE node[j].next \in S
        BY DEF ClosedSet
      <4>1. j \in 1 .. allocated /\ j \in T \ {Null}
        BY <1>0 DEF Null
      <4>2. node[j].next \in 0 .. allocated
        BY <1>0, <4>1 DEF ListType
      <4>3. node[j].next \in T
        BY <2>2, <4>1
      <4> QED BY <4>2, <4>3
    <3>3. k \in S
      <4> HIDE DEF S
      <4> QED BY <1>3, <3>1, <3>2, InNodesFrom
    <3> QED BY <3>3
  <2> QED BY <2>1, <2>2 DEF NodesFrom
<1> QED BY <1>2, <1>3

LEMMA OlderFirst ==
  ASSUME ListType, ListType', allocated <= allocated',
         \A k \in 1 .. allocated : /\ node'[k].next = node[k].next
                                  /\ node'[k].value = node[k].value
  PROVE  \A n \in 0 .. allocated : \A m : FirstFrom(n, m)' = FirstFrom(n, m)
<1> SUFFICES ASSUME NEW n \in 0 .. allocated, NEW m
             PROVE  FirstFrom(n, m)' = FirstFrom(n, m)
  OBVIOUS
<1>0. allocated \in Nat /\ allocated' \in Nat /\ n \in 0 .. allocated'
  BY DEF ListType
<1>1. \A k \in 0 .. allocated : NodesFrom(k)' = NodesFrom(k)
  BY OlderNodes
<1>2. NodesFrom(n) \subseteq 1 .. allocated
  BY InNodesFrom
<1>3. Hits(n, m)' = Hits(n, m)
  BY <1>1, <1>2 DEF Hits
<1>4. Hits(n, m) \subseteq 1 .. allocated
  BY <1>2 DEF Hits
<1>5. \A k \in Hits(n, m) : NodesFrom(k)' = NodesFrom(k)
  BY <1>0, <1>1, <1>4
<1>6. /\ Hits(n, m)' = {} => FirstFrom(n, m)' = Null
      /\ Hits(n, m)' # {} => /\ FirstFrom(n, m)' \in Hits(n, m)'
                             /\ \A k \in Hits(n, m)' : k <= FirstFrom(n, m)'
  BY <1>0, WalksNext DEF WalkFacts, Null
<1>7. CASE Hits(n, m) = {}
  BY <1>0, <1>3, <1>6, <1>7, FirstIsLast DEF Null
<1>8. CASE Hits(n, m) # {}
  <2>1. /\ FirstFrom(n, m)' \in Hits(n, m)
        /\ \A j \in Hits(n, m) : j <= FirstFrom(n, m)'
    BY <1>0, <1>3, <1>6, <1>8
  <2> QED BY <2>1, LastIsFirst
<1> QED BY <1>7, <1>8

(***************************************************************************)
(* What the driver writes to a node: the flag, a byte, a length; and the   *)
(* node that it adds.                                                      *)
(***************************************************************************)

LEMMA SizesType ==
  /\ BufLen \in Nat \ {0} /\ PointerSize \in Nat \ {0} /\ MaxNodes \in Nat
  /\ MaxBufferSize \in Nat
  /\ \A m \in Messages : Stored(m) \in Lengths
  /\ Lengths = 0 .. BufLen
  /\ Channels \subseteq 0 .. 3 /\ NoChannel \notin Channels
  BY SizesAssumption DEF Stored, Channels, NoChannel, Lengths

WithOpen(f, n, b) == [f EXCEPT ![n].open = b]
WithLength(f, n, c, l) == [f EXCEPT ![n].length[c] = l]

\* g has the nodes of f with the flag of node n set to b.
LEMMA OpenSet ==
  ASSUME NEW a \in Nat, NEW f \in [1 .. a -> NodeType], NEW n \in 1 .. a,
         NEW b \in BOOLEAN, NEW g, g = WithOpen(f, n, b)
  PROVE  /\ g \in [1 .. a -> NodeType]
         /\ g[n].open = b
         /\ \A k \in 1 .. a :
              /\ g[k].value = f[k].value /\ g[k].next = f[k].next
              /\ g[k].length = f[k].length /\ g[k].cell = f[k].cell
              /\ k # n => g[k] = f[k]
<1>1. /\ g[n] = [f[n] EXCEPT !.open = b] /\ f[n] \in NodeType
      /\ \A k \in 1 .. a : k # n => g[k] = f[k]
      /\ g = [k \in 1 .. a |-> IF k = n THEN [f[n] EXCEPT !.open = b] ELSE f[k]]
  BY DEF WithOpen
<1>2. /\ [f[n] EXCEPT !.open = b] \in NodeType
      /\ [f[n] EXCEPT !.open = b].open = b
      /\ [f[n] EXCEPT !.open = b].value = f[n].value
      /\ [f[n] EXCEPT !.open = b].next = f[n].next
      /\ [f[n] EXCEPT !.open = b].length = f[n].length
      /\ [f[n] EXCEPT !.open = b].cell = f[n].cell
  BY <1>1 DEF NodeType
<1>3. g \in [1 .. a -> NodeType]
  BY <1>1, <1>2
<1> QED BY <1>1, <1>2, <1>3

\* ... with the length of its channel c set to l.
LEMMA LengthSet ==
  ASSUME NEW a \in Nat, NEW f \in [1 .. a -> NodeType], NEW n \in 1 .. a,
         NEW c \in Channels, NEW l \in Lengths,
         NEW g, g = WithLength(f, n, c, l)
  PROVE  /\ g \in [1 .. a -> NodeType]
         /\ g[n].length[c] = l
         /\ \A d \in Channels \ {c} : g[n].length[d] = f[n].length[d]
         /\ \A k \in 1 .. a :
              /\ g[k].value = f[k].value /\ g[k].next = f[k].next
              /\ g[k].open = f[k].open /\ g[k].cell = f[k].cell
              /\ k # n => g[k] = f[k]
<1> DEFINE r == [f[n] EXCEPT !.length[c] = l]
<1>1. /\ g[n] = r /\ f[n] \in NodeType
      /\ \A k \in 1 .. a : k # n => g[k] = f[k]
      /\ g = [k \in 1 .. a |-> IF k = n THEN r ELSE f[k]]
  BY DEF WithLength
<1>2. f[n].length \in [Channels -> Lengths]
  BY <1>1 DEF NodeType
<1>3. [f[n].length EXCEPT ![c] = l] \in [Channels -> Lengths]
  BY <1>2
<1>4. /\ r \in NodeType
      /\ r.length = [f[n].length EXCEPT ![c] = l]
      /\ r.value = f[n].value /\ r.next = f[n].next
      /\ r.open = f[n].open /\ r.cell = f[n].cell
  BY <1>1, <1>3 DEF NodeType
<1> HIDE DEF r
<1>5. g \in [1 .. a -> NodeType]
  BY <1>1, <1>4
<1> QED BY <1>1, <1>2, <1>4, <1>5

(***************************************************************************)
(* The invariant of the driver, whether or not calls overlap.              *)
(***************************************************************************)

LEMMA TypesOfList ==
  ASSUME DeviceTypeOK, ListInOrder
  PROVE  /\ ListType /\ allocated \in Nat /\ head \in Nodes
         /\ \A m : /\ GetMinorNode(m) \in Nodes
                   /\ GetMinorNode(m) # Null => node[GetMinorNode(m)].value = m
<1>1. allocated \in Nat /\ head \in 0 .. allocated
  BY SizesType DEF DeviceTypeOK, Nodes
<1>2. ASSUME NEW n \in 1 .. allocated PROVE node[n].next \in 0 .. n - 1
  <2>1. node[n] \in NodeType
    BY <1>2 DEF DeviceTypeOK
  <2>2. node[n].next \in Nat
    BY <2>1, SizesType DEF NodeType, NodeIds, Null
  <2> QED BY <1>1, <2>2 DEF ListInOrder
<1>3. ListType
  BY <1>1, <1>2 DEF ListType
<1>4. \A m : /\ FirstFrom(head, m) \in 0 .. head
             /\ FirstFrom(head, m) # Null => node[FirstFrom(head, m)].value = m
  BY <1>1, <1>3, Walks DEF WalkFacts
<1> QED BY <1>1, <1>3, <1>4 DEF GetMinorNode, Nodes

LEMMA TypesOfListNext == (DeviceTypeOK /\ ListInOrder)' => ListType'
<1>1. DeviceTypeOK /\ ListInOrder => ListType
  BY TypesOfList
<1> QED BY <1>1, PTL

\* The values that calls begin and end with.
LEMMA Members ==
  /\ NoMessage \in Messages /\ 0 \in Lengths /\ << >> \in Seq(Bytes)
  /\ 0 \in Results /\ EINVAL \in Results /\ Lengths \subseteq Results
  /\ {"closed", "openFound", "publish", "ready", "writeFound", "writing", "readFound",
      "reading", "releaseFound", "oops", "orphan", "crashed"} \subseteq Places
  /\ allocated \in Nat => Null \in Nodes
<1>1. NoMessage \in Messages
  BY MessagesAssumption DEF NoMessage
<1>2. 0 \in Lengths
  BY SizesType
<1> QED BY <1>1, <1>2 DEF Results, Places, Nodes, Null

\* The set of those that are to insert a node is finite, and it changes by one.
LEMMA InsertingCounts ==
  /\ IsFiniteSet(Inserting)
  /\ Cardinality(Inserting) \in Nat
  /\ \A p \in Inserting : /\ Cardinality(Inserting) >= 1
                          /\ Cardinality(Inserting \ {p}) = Cardinality(Inserting) - 1
  /\ \A p \in Procs \ Inserting :
       Cardinality(Inserting \cup {p}) = Cardinality(Inserting) + 1
<1>1. IsFiniteSet(Inserting)
  BY ProcsAssumption, FS_Subset DEF Inserting
<1>2. Cardinality(Inserting) \in Nat
  BY <1>1, FS_CardinalityType
<1>3. ASSUME NEW p \in Inserting
      PROVE  /\ Cardinality(Inserting) >= 1
             /\ Cardinality(Inserting \ {p}) = Cardinality(Inserting) - 1
  <2>1. Cardinality(Inserting \ {p}) = Cardinality(Inserting) - 1
    BY <1>1, FS_RemoveElement
  <2>2. Cardinality(Inserting \ {p}) \in Nat
    BY <1>1, FS_RemoveElement, FS_CardinalityType
  <2> QED BY <1>2, <2>1, <2>2
<1>4. ASSUME NEW p \in Procs \ Inserting
      PROVE  Cardinality(Inserting \cup {p}) = Cardinality(Inserting) + 1
  BY <1>1, FS_AddElement
<1> QED BY <1>1, <1>2, <1>3, <1>4

LEMMA InitInv ==
  ASSUME Init
  PROVE  IInv
<1>1. Inserting = {} /\ Cardinality(Inserting) = 0
  <2>1. Inserting = {}
    BY DEF Init, Inserting
  <2> QED BY <2>1, FS_EmptySet
<1>2. NoMessage \in Messages /\ (CHOOSE m \in Minors : TRUE) \in Minors
  BY MessagesAssumption, MinorsAssumption DEF NoMessage
<1>3. allocated = 0 /\ head = 0 /\ 1 .. allocated = {}
  BY DEF Init, Null
<1>4. TypeOK
  <2>1. node \in [1 .. allocated -> NodeType]
    BY <1>3 DEF Init
  <2>2. DeviceTypeOK
    BY <1>3, <2>1, SizesType DEF DeviceTypeOK, Nodes, Init
  <2>3. CallsTypeOK
    BY <1>2, <1>3, Members DEF Init, CallsTypeOK
  <2> QED BY <2>2, <2>3 DEF TypeOK
<1>5. ListInOrder
  BY <1>1, <1>3, SizesType DEF Init, ListInOrder
<1>6. CallsInOrder /\ BytesInOrder /\ ReadsOwnChannel
  BY <1>3 DEF Init, CallsInOrder, CallInOrder, BytesInOrder,
     LengthsInOrder, ReadsOwnChannel, Null
<1> QED BY <1>4, <1>5, <1>6 DEF IInv

\* The invariant without the bytes, which every step below starts from.
DriverInOrder == DeviceTypeOK /\ CallsTypeOK /\ ListInOrder /\ CallsInOrder

\* Only five steps change the nodes: what each does.
LEMMA OpensNode ==
  ASSUME DriverInOrder, NEW p \in Procs, OpenExisting(p)
  PROVE  /\ found[p] \in 1 .. allocated
         /\ node' \in [1 .. allocated -> NodeType]
         /\ node'[found[p]].open = TRUE
         /\ \A k \in 1 .. allocated :
              /\ node'[k].value = node[k].value /\ node'[k].next = node[k].next
              /\ node'[k].length = node[k].length /\ node'[k].cell = node[k].cell
              /\ k # found[p] => node'[k] = node[k]
<1>1. allocated \in Nat /\ node \in [1 .. allocated -> NodeType]
  BY TypesOfList DEF DriverInOrder, DeviceTypeOK
<1>2. found[p] \in 1 .. allocated
  BY <1>1 DEF OpenExisting, DriverInOrder, CallsTypeOK, Nodes, Null
<1> DEFINE b == TRUE
<1>3. node' = WithOpen(node, found[p], b) /\ b \in BOOLEAN
  BY DEF OpenExisting, WithOpen
<1> HIDE DEF b
<1>4. /\ node' \in [1 .. allocated -> NodeType]
      /\ node'[found[p]].open = b
      /\ \A k \in 1 .. allocated :
           /\ node'[k].value = node[k].value /\ node'[k].next = node[k].next
           /\ node'[k].length = node[k].length /\ node'[k].cell = node[k].cell
           /\ k # found[p] => node'[k] = node[k]
  BY <1>1, <1>2, <1>3, OpenSet
<1> QED BY <1>2, <1>4 DEF b

LEMMA ClosesNode ==
  ASSUME DriverInOrder, NEW p \in Procs, ReleaseClose(p), found[p] # Null
  PROVE  /\ found[p] \in 1 .. allocated
         /\ node' \in [1 .. allocated -> NodeType]
         /\ node'[found[p]].open = FALSE
         /\ \A k \in 1 .. allocated :
              /\ node'[k].value = node[k].value /\ node'[k].next = node[k].next
              /\ node'[k].length = node[k].length /\ node'[k].cell = node[k].cell
              /\ k # found[p] => node'[k] = node[k]
<1>1. allocated \in Nat /\ node \in [1 .. allocated -> NodeType]
  BY TypesOfList DEF DriverInOrder, DeviceTypeOK
<1>2. found[p] \in 1 .. allocated
  BY <1>1 DEF DriverInOrder, CallsTypeOK, Nodes, Null
<1> DEFINE b == FALSE
<1>3. node' = WithOpen(node, found[p], b) /\ b \in BOOLEAN
  BY DEF ReleaseClose, WithOpen
<1> HIDE DEF b
<1>4. /\ node' \in [1 .. allocated -> NodeType]
      /\ node'[found[p]].open = b
      /\ \A k \in 1 .. allocated :
           /\ node'[k].value = node[k].value /\ node'[k].next = node[k].next
           /\ node'[k].length = node[k].length /\ node'[k].cell = node[k].cell
           /\ k # found[p] => node'[k] = node[k]
  BY <1>1, <1>2, <1>3, OpenSet
<1> QED BY <1>2, <1>4 DEF b

LEMMA AddsNode ==
  ASSUME DriverInOrder, NEW p \in Procs, OpenInsert(p)
  PROVE  LET n == allocated + 1 IN
         /\ n <= MaxNodes /\ allocated' = n
         /\ node' \in [1 .. n -> NodeType]
         /\ node'[n].value = minor[p] /\ node'[n].next = head /\ node'[n].open = TRUE
         /\ \A c \in Channels : /\ node'[n].length[c] = 0
                                /\ \A k \in 1 .. BufLen : node'[n].cell[c][k] = Garbage
         /\ \A k \in 1 .. allocated : node'[k] = node[k]
<1> DEFINE r == [value |-> minor[p], open |-> TRUE, next |-> head,
                 length |-> [c \in Channels |-> 0],
                 cell |-> [c \in Channels |-> [k \in 1 .. BufLen |-> Garbage]]]
<1>1. /\ allocated \in Nat /\ node \in [1 .. allocated -> NodeType]
      /\ head \in 0 .. allocated /\ minor[p] \in Minors
  BY TypesOfList DEF DriverInOrder, DeviceTypeOK, CallsTypeOK, Nodes
<1>2. p \in Inserting
  BY DEF OpenInsert, Inserting
<1>3. allocated + 1 <= MaxNodes
  <2>1. allocated + Cardinality(Inserting) <= MaxNodes
    BY DEF DriverInOrder, ListInOrder
  <2>2. Cardinality(Inserting) >= 1 /\ Cardinality(Inserting) \in Nat
    BY <1>2, InsertingCounts
  <2> QED BY <1>1, <2>1, <2>2, SizesType
<1>4. head \in NodeIds \cup {Null}
  BY <1>1, <1>3, SizesType DEF NodeIds, Null
<1>5. r.length \in [Channels -> Lengths] /\ r.cell \in [Channels -> [1 .. BufLen -> Bytes]]
  BY Members DEF Bytes
<1>6. r \in NodeType
  BY <1>1, <1>4, <1>5 DEF NodeType
<1>7. /\ r.value = minor[p] /\ r.next = head /\ r.open = TRUE
      /\ \A c \in Channels : /\ r.length[c] = 0
                             /\ \A k \in 1 .. BufLen : r.cell[c][k] = Garbage
  OBVIOUS
<1>8. node' = Append(node, r) /\ allocated' = allocated + 1
  BY DEF OpenInsert
<1> HIDE DEF r
<1>9. /\ node' \in [1 .. allocated + 1 -> NodeType]
      /\ node'[allocated + 1] = r
      /\ \A k \in 1 .. allocated : node'[k] = node[k]
  <2>1. node \in Seq(NodeType) /\ Len(node) = allocated
    BY <1>1
  <2>2. /\ Len(node') = allocated + 1 /\ node'[allocated + 1] = r
        /\ node' \in Seq(NodeType)
        /\ \A k \in 1 .. allocated : node'[k] = node[k]
    BY <1>6, <1>8, <2>1
  <2>3. node' \in [1 .. Len(node') -> NodeType]
    BY <2>2, LenProperties
  <2> QED BY <2>2, <2>3
<1>10. /\ node'[allocated + 1].value = minor[p] /\ node'[allocated + 1].next = head
       /\ node'[allocated + 1].open = TRUE
       /\ \A c \in Channels :
            /\ node'[allocated + 1].length[c] = 0
            /\ \A k \in 1 .. BufLen : node'[allocated + 1].cell[c][k] = Garbage
  BY <1>7, <1>9, Zenon
<1> QED BY <1>3, <1>8, <1>9, <1>10, Zenon

LEMMA StoresByte ==
  ASSUME DriverInOrder, NEW p \in Procs, WriteByte(p)
  PROVE  LET n == found[p] c == channel[p] k == i[p] + 1 IN
         /\ n \in 1 .. allocated /\ c \in Channels /\ k \in 1 .. BufLen
         /\ i[p] \in Nat /\ arg[p] \in Messages /\ k <= Stored(arg[p])
         /\ node' \in [1 .. allocated -> NodeType]
         /\ node'[n].cell[c][k] = <<arg[p], minor[p], c>>
         /\ \A j \in (1 .. BufLen) \ {k} : node'[n].cell[c][j] = node[n].cell[c][j]
         /\ \A d \in Channels \ {c} : node'[n].cell[d] = node[n].cell[d]
         /\ \A j \in 1 .. allocated :
              /\ node'[j].value = node[j].value /\ node'[j].next = node[j].next
              /\ node'[j].open = node[j].open /\ node'[j].length = node[j].length
              /\ j # n => node'[j] = node[j]
<1>1. allocated \in Nat /\ node \in [1 .. allocated -> NodeType]
  BY TypesOfList DEF DriverInOrder, DeviceTypeOK
<1>2. /\ found[p] \in 1 .. allocated /\ channel[p] \in Channels
      /\ arg[p] \in Messages /\ minor[p] \in Minors
  BY <1>1 DEF WriteByte, DriverInOrder, CallsInOrder, CallInOrder, CallsTypeOK, Nodes, Null
<1>3. i[p] \in 0 .. BufLen /\ Stored(arg[p]) \in 0 .. BufLen /\ BufLen \in Nat
  BY <1>2, SizesType DEF DriverInOrder, CallsTypeOK
<1>4. i[p] + 1 \in 1 .. BufLen /\ i[p] + 1 <= Stored(arg[p]) /\ i[p] \in Nat
  BY <1>3 DEF WriteByte
<1>5. <<arg[p], minor[p], channel[p]>> \in Bytes
  BY <1>2 DEF Bytes
<1> DEFINE n == found[p]  c == channel[p]  k == i[p] + 1
           b == <<arg[p], minor[p], channel[p]>>
           row == [node[n].cell[c] EXCEPT ![k] = b]
           r == [node[n] EXCEPT !.cell[c][k] = b]
<1>6. node' = [node EXCEPT ![n].cell[c][k] = b]
  BY DEF WriteByte
<1>7. b \in Bytes /\ n \in 1 .. allocated /\ c \in Channels /\ k \in 1 .. BufLen
  BY <1>2, <1>4, <1>5
<1> HIDE DEF b, n, c, k
<1>8. /\ node'[n] = r /\ node[n] \in NodeType
      /\ \A j \in 1 .. allocated : j # n => node'[j] = node[j]
      /\ node' = [j \in 1 .. allocated |-> IF j = n THEN r ELSE node[j]]
  BY <1>1, <1>6, <1>7
<1>9. node[n].cell \in [Channels -> [1 .. BufLen -> Bytes]]
  BY <1>8 DEF NodeType
<1>10. node[n].cell[c] \in [1 .. BufLen -> Bytes]
  BY <1>7, <1>9
<1>11. /\ row \in [1 .. BufLen -> Bytes] /\ row[k] = b
       /\ \A j \in (1 .. BufLen) \ {k} : row[j] = node[n].cell[c][j]
  BY <1>7, <1>10
<1>12. r = [node[n] EXCEPT !.cell = [node[n].cell EXCEPT ![c] = row]]
  OBVIOUS
<1> HIDE DEF row, r
<1>13. [node[n].cell EXCEPT ![c] = row] \in [Channels -> [1 .. BufLen -> Bytes]]
  BY <1>9, <1>11
<1>14. /\ r \in NodeType
       /\ r.cell = [node[n].cell EXCEPT ![c] = row]
       /\ r.value = node[n].value /\ r.next = node[n].next
       /\ r.open = node[n].open /\ r.length = node[n].length
  BY <1>8, <1>12, <1>13 DEF NodeType
<1>15. node' \in [1 .. allocated -> NodeType]
  BY <1>1, <1>8, <1>14
<1>16. r.cell[c] = row /\ \A d \in Channels \ {c} : r.cell[d] = node[n].cell[d]
  BY <1>7, <1>9, <1>14
<1>17. /\ node'[n].cell[c][k] = b
       /\ \A j \in (1 .. BufLen) \ {k} : node'[n].cell[c][j] = node[n].cell[c][j]
       /\ \A d \in Channels \ {c} : node'[n].cell[d] = node[n].cell[d]
       /\ \A j \in 1 .. allocated :
            /\ node'[j].value = node[j].value /\ node'[j].next = node[j].next
            /\ node'[j].open = node[j].open /\ node'[j].length = node[j].length
            /\ j # n => node'[j] = node[j]
  BY <1>8, <1>11, <1>14, <1>16
<1> QED BY <1>2, <1>4, <1>7, <1>15, <1>17 DEF b, n, c, k

LEMMA StoresLength ==
  ASSUME DriverInOrder, NEW p \in Procs, WriteLength(p)
  PROVE  LET n == found[p] c == channel[p] IN
         /\ n \in 1 .. allocated /\ c \in Channels /\ arg[p] \in Messages
         /\ node' \in [1 .. allocated -> NodeType]
         /\ node'[n].length[c] = i[p] /\ i[p] = Stored(arg[p]) /\ i[p] \in 0 .. BufLen
         /\ \A d \in Channels \ {c} : node'[n].length[d] = node[n].length[d]
         /\ \A k \in 1 .. allocated :
              /\ node'[k].value = node[k].value /\ node'[k].next = node[k].next
              /\ node'[k].open = node[k].open /\ node'[k].cell = node[k].cell
              /\ k # n => node'[k] = node[k]
<1>1. allocated \in Nat /\ node \in [1 .. allocated -> NodeType]
  BY TypesOfList DEF DriverInOrder, DeviceTypeOK
<1>2. /\ found[p] \in 1 .. allocated /\ channel[p] \in Channels
      /\ arg[p] \in Messages /\ i[p] \in Lengths
  BY <1>1 DEF WriteLength, DriverInOrder, CallsInOrder, CallInOrder, CallsTypeOK, Nodes, Null
<1>3. node' = WithLength(node, found[p], channel[p], i[p])
  BY DEF WriteLength, LengthWritten, WithLength
<1>4. i[p] = Stored(arg[p]) /\ i[p] \in 0 .. BufLen
  BY <1>2, SizesType DEF WriteLength
<1> DEFINE n == found[p]  c == channel[p]  l == i[p]
<1>5. n \in 1 .. allocated /\ c \in Channels /\ l \in Lengths /\ node' = WithLength(node, n, c, l)
  BY <1>2, <1>3
<1> HIDE DEF n, c, l
<1>6. /\ node' \in [1 .. allocated -> NodeType]
      /\ node'[n].length[c] = l
      /\ \A d \in Channels \ {c} : node'[n].length[d] = node[n].length[d]
      /\ \A k \in 1 .. allocated :
           /\ node'[k].value = node[k].value /\ node'[k].next = node[k].next
           /\ node'[k].open = node[k].open /\ node'[k].cell = node[k].cell
           /\ k # n => node'[k] = node[k]
  BY <1>1, <1>5, LengthSet
<1> QED BY <1>2, <1>4, <1>6 DEF n, c, l

\* The other steps of a call leave the nodes alone.
NodesStay == UNCHANGED <<allocated, node>>

LEMMA OtherSteps ==
  ASSUME NEW p \in Procs, Call(p)
  PROVE  \/ OpenExisting(p) \/ OpenInsert(p) \/ WriteByte(p) \/ WriteLength(p)
         \/ ReleaseClose(p) /\ found[p] # Null
         \/ NodesStay
  BY DEF Call, NodesStay, device, Open, OpenInsertFails, OpenPublish, Ioctl, Release,
         ReleaseClose, Write, WriteCheck, WriteRefused, Read, ReadCheck, ReadRefused,
         ReadByte, ReadEnd, OrphanCalls, Replaced

\* No step of a call changes the minor or the link of a node that there is.
LEMMA CallNodes ==
  ASSUME DriverInOrder, NEW p \in Procs, Call(p)
  PROVE  /\ allocated' \in allocated .. MaxNodes
         /\ node' \in [1 .. allocated' -> NodeType]
         /\ \A k \in 1 .. allocated :
              /\ node'[k].value = node[k].value /\ node'[k].next = node[k].next
         /\ allocated' # allocated => OpenInsert(p)
<1>1. /\ allocated \in Nat /\ allocated <= MaxNodes /\ MaxNodes \in Nat
      /\ node \in [1 .. allocated -> NodeType]
  BY TypesOfList, SizesType DEF DriverInOrder, DeviceTypeOK
<1>2. CASE OpenExisting(p)
  <2>1. allocated' = allocated
    BY <1>2 DEF OpenExisting
  <2>2. allocated' \in allocated .. MaxNodes
    BY <1>1, <2>1
  <2>3. /\ node' \in [1 .. allocated' -> NodeType]
        /\ \A k \in 1 .. allocated :
             /\ node'[k].value = node[k].value /\ node'[k].next = node[k].next
    BY <1>2, <2>1, OpensNode, Zenon
  <2> QED BY <2>1, <2>2, <2>3, Zenon
<1>3. CASE OpenInsert(p)
  <2>1. allocated' = allocated + 1 /\ allocated + 1 <= MaxNodes
    BY <1>3, AddsNode
  <2>2. allocated' \in allocated .. MaxNodes
    BY <1>1, <2>1
  <2>3. /\ node' \in [1 .. allocated' -> NodeType]
        /\ \A k \in 1 .. allocated : node'[k] = node[k]
    BY <1>3, <2>1, AddsNode, Zenon
  <2> QED BY <1>3, <2>2, <2>3, Zenon
<1>4. CASE WriteByte(p)
  <2>1. allocated' = allocated
    BY <1>4 DEF WriteByte
  <2> QED BY <1>1, <1>4, <2>1, StoresByte
<1>5. CASE WriteLength(p)
  <2>1. allocated' = allocated
    BY <1>5 DEF WriteLength
  <2> QED BY <1>1, <1>5, <2>1, StoresLength
<1>6. CASE ReleaseClose(p) /\ found[p] # Null
  <2>1. allocated' = allocated
    BY <1>6 DEF ReleaseClose
  <2>2. allocated' \in allocated .. MaxNodes
    BY <1>1, <2>1
  <2>3. /\ node' \in [1 .. allocated' -> NodeType]
        /\ \A k \in 1 .. allocated :
             /\ node'[k].value = node[k].value /\ node'[k].next = node[k].next
    BY <1>6, <2>1, ClosesNode, Zenon
  <2> QED BY <2>1, <2>2, <2>3, Zenon
<1>7. CASE NodesStay
  BY <1>1, <1>7 DEF NodesStay
<1> QED BY <1>2, <1>3, <1>4, <1>5, <1>6, <1>7, OtherSteps

LEMMA CallDevice ==
  ASSUME DriverInOrder, NEW p \in Procs, Call(p)
  PROVE  DeviceTypeOK'
<1>1. /\ allocated \in Nat /\ MaxNodes \in Nat /\ allocated' \in allocated .. MaxNodes
      /\ head \in 0 .. allocated /\ found[p] \in 0 .. allocated /\ loaded \in BOOLEAN
  BY TypesOfList, SizesType, CallNodes
  DEF DriverInOrder, DeviceTypeOK, CallsTypeOK, Nodes
<1>2. head' \in 0 .. allocated
  <2>1. head' = head \/ head' = found[p]
    BY DEF Call, device, Open, OpenExisting, OpenInsert, OpenInsertFails, OpenPublish,
           HeadAfterInsert, Ioctl, Release, ReleaseClose, Write, WriteCheck, WriteRefused,
           WriteByte, WriteLength, Read, ReadCheck, ReadRefused, ReadByte, ReadEnd,
           OrphanCalls, Replaced
  <2> QED BY <1>1, <2>1
<1>3. loaded' = loaded
  BY DEF Call, device, Open, OpenExisting, OpenInsert, OpenInsertFails, OpenPublish,
         Ioctl, Release, ReleaseClose, Write, WriteCheck, WriteRefused, WriteByte,
         WriteLength, Read, ReadCheck, ReadRefused, ReadByte, ReadEnd, OrphanCalls, Replaced
<1>4. allocated' \in 0 .. MaxNodes /\ head' \in 0 .. allocated'
  BY <1>1, <1>2
<1> QED BY <1>1, <1>3, <1>4, CallNodes DEF DeviceTypeOK, Nodes

\* A call that returns.
LEMMA ReturnTypes ==
  ASSUME CallsTypeOK, NEW p \in Procs, NEW r \in Results, Return(p, r),
         allocated \in Nat
  PROVE  /\ pc' \in [Procs -> Places] /\ result' \in [Procs -> Results]
         /\ found' \in [Procs -> Nodes] /\ arg' \in [Procs -> Messages \cup ReadSizes]
         /\ i' \in [Procs -> Lengths] /\ limit' \in [Procs -> Lengths]
  BY Members DEF CallsTypeOK, Return, LocalsEnd

\* Each step of a call keeps the types of what the processes have.
LEMMA CallTypes ==
  ASSUME DriverInOrder, NEW p \in Procs, Call(p)
  PROVE  CallsTypeOK'
<1>0. /\ \A m : GetMinorNode(m) \in Nodes
      /\ allocated \in Nat /\ Null \in Nodes /\ head \in Nodes
      /\ CallsTypeOK
  BY TypesOfList, Members DEF DriverInOrder
<1>1. ASSUME found' \in [Procs -> Nodes] PROVE found' \in [Procs -> Nodes']
  <2>1. Nodes \subseteq Nodes'
    BY <1>0, CallNodes DEF Nodes
  <2> HIDE DEF Nodes
  <2> QED BY <1>1, <2>1
<1> USE DEF CallsTypeOK, device
<1>2. ASSUME NEW m \in Minors, Open(p, m) PROVE CallsTypeOK'
  BY <1>0, <1>1, <1>2, Members DEF Open
<1>3. CASE OpenExisting(p) \/ OpenPublish(p)
  BY <1>0, <1>1, <1>3, Members, ReturnTypes DEF OpenExisting, OpenPublish
<1>4. CASE OpenInsert(p)
  <2>1. found' \in [Procs -> Nodes']
    <3>1. allocated + 1 \in Nodes' /\ Nodes \subseteq Nodes'
      BY <1>0, <1>4 DEF OpenInsert, Nodes
    <3> HIDE DEF Nodes
    <3> QED BY <1>0, <1>4, <3>1 DEF OpenInsert
  <2> QED BY <1>0, <1>4, <2>1, Members DEF OpenInsert
<1>5. CASE OpenInsertFails(p)
  BY <1>0, <1>1, <1>5, Members DEF OpenInsertFails
<1>6. ASSUME NEW c \in Params, Ioctl(p, c) PROVE CallsTypeOK'
  BY <1>0, <1>1, <1>6, Members, ReturnTypes DEF Ioctl
<1>7. CASE Release(p)
  BY <1>0, <1>1, <1>7, Members DEF Release
<1>8. CASE ReleaseClose(p)
  BY <1>0, <1>1, <1>8, Members DEF ReleaseClose, LocalsEnd
<1>9. ASSUME NEW m \in Messages, Write(p, m) PROVE CallsTypeOK'
  <2>1. CASE Writable(p, m)
    <3>1. UNCHANGED <<minor, channel, i, limit, got, result>>
      BY <1>9, <2>1 DEF Write
    <3>2. pc' \in [Procs -> Places] /\ arg' \in [Procs -> Messages \cup ReadSizes]
      BY <1>0, <1>9, <2>1, Members DEF Write
    <3>3. found' \in [Procs -> Nodes]
      <4>1. found' = [found EXCEPT ![p] = GetMinorNode(minor[p])]
        BY <1>9, <2>1, Zenon DEF Write
      <4>2. GetMinorNode(minor[p]) \in Nodes
        BY <1>0
      <4> QED BY <1>0, <4>1, <4>2
    <3>4. found' \in [Procs -> Nodes']
      BY <1>1, <3>3
    <3> QED BY <1>0, <3>1, <3>2, <3>4
  <2>2. CASE ~ Writable(p, m)
    BY <1>0, <1>1, <1>9, <2>2, Members, ReturnTypes DEF Write
  <2> QED BY <2>1, <2>2
<1>10. CASE WriteCheck(p)
  BY <1>0, <1>1, <1>10, Members DEF WriteCheck
<1>11. CASE WriteRefused(p)
  BY <1>0, <1>1, <1>11, Members, ReturnTypes DEF WriteRefused, Oops
<1>12. CASE WriteByte(p)
  <2>1. i[p] + 1 \in Lengths
    BY <1>12, StoresByte, SizesType DEF DriverInOrder
  <2> QED BY <1>0, <1>1, <1>12, <2>1, Members DEF WriteByte
<1>13. CASE WriteLength(p)
  BY <1>0, <1>1, <1>13, Members, ReturnTypes DEF WriteLength
<1>14. ASSUME NEW size \in ReadSizes, Read(p, size) PROVE CallsTypeOK'
  <2>1. CASE channel[p] # NoChannel
    <3>1. UNCHANGED <<minor, channel, i, limit, got, result>>
      BY <1>14, <2>1 DEF Read
    <3>2. pc' \in [Procs -> Places] /\ arg' \in [Procs -> Messages \cup ReadSizes]
      BY <1>0, <1>14, <2>1, Members DEF Read
    <3>3. found' \in [Procs -> Nodes]
      <4>1. found' = [found EXCEPT ![p] = GetMinorNode(minor[p])]
        BY <1>14, <2>1, Zenon DEF Read
      <4>2. GetMinorNode(minor[p]) \in Nodes
        BY <1>0
      <4> QED BY <1>0, <4>1, <4>2
    <3>4. found' \in [Procs -> Nodes']
      BY <1>1, <3>3
    <3> QED BY <1>0, <3>1, <3>2, <3>4
  <2>2. CASE channel[p] = NoChannel
    BY <1>0, <1>1, <1>14, <2>2, Members, ReturnTypes DEF Read
  <2> QED BY <2>1, <2>2
<1>15. CASE ReadCheck(p)
  <2>1. LengthNow(p) \in Lengths
    <3>1. found[p] \in 1 .. allocated /\ channel[p] \in Channels
      BY <1>0, <1>15 DEF ReadCheck, DriverInOrder, CallsInOrder, CallInOrder, Nodes, Null
    <3> QED BY <3>1 DEF DriverInOrder, DeviceTypeOK, NodeType, LengthNow
  <2> QED BY <1>0, <1>1, <1>15, <2>1, Members DEF ReadCheck
<1>16. CASE ReadRefused(p)
  BY <1>0, <1>1, <1>16, Members, ReturnTypes DEF ReadRefused, Oops
<1>17. CASE ReadByte(p)
  <2>1. found[p] \in 1 .. allocated /\ channel[p] \in Channels
    BY <1>0, <1>17 DEF ReadByte, DriverInOrder, CallsInOrder, CallInOrder, Nodes, Null
  <2>2. /\ LengthNow(p) \in Lengths
        /\ node[found[p]].cell[channel[p]] \in [1 .. BufLen -> Bytes]
    BY <2>1 DEF DriverInOrder, DeviceTypeOK, NodeType, LengthNow
  <2>3. PICK n \in LimitMayBe(p) : i[p] < n /\ limit' = [limit EXCEPT ![p] = n]
    BY <1>17 DEF ReadByte
  <2>4. n \in Lengths
    BY <1>0, <2>2, <2>3 DEF LimitMayBe
  <2>5. i[p] + 1 \in 1 .. BufLen /\ i[p] + 1 \in Lengths
    <3>1. i[p] \in Lengths
      BY <1>0
    <3> QED BY <2>3, <2>4, <3>1, SizesType
  <2> DEFINE b == node[found[p]].cell[channel[p]][i[p] + 1]
  <2>6. b \in Bytes
    BY <2>2, <2>5
  <2>7. got' = [got EXCEPT ![p] = Append(@, b)]
    BY <1>17 DEF ReadByte
  <2> HIDE DEF b
  <2>8. got' \in [Procs -> Seq(Bytes)]
    BY <1>0, <2>6, <2>7
  <2> QED BY <1>0, <1>1, <1>17, <2>3, <2>4, <2>5, <2>8, Members DEF ReadByte
<1>18. CASE ReadEnd(p)
  BY <1>0, <1>1, <1>18, Members, ReturnTypes DEF ReadEnd
<1>19. CASE OrphanCalls(p) \/ Replaced(p)
  BY <1>0, <1>1, <1>19, Members DEF OrphanCalls, Replaced
<1> QED
  BY <1>2, <1>3, <1>4, <1>5, <1>6, <1>7, <1>8, <1>9, <1>10, <1>11, <1>12,
     <1>13, <1>14, <1>15, <1>16, <1>17, <1>18, <1>19 DEF Call

\* What process q has stays as it is.
Keeps(q) ==
  /\ pc'[q] = pc[q] /\ found'[q] = found[q] /\ minor'[q] = minor[q]
  /\ channel'[q] = channel[q] /\ arg'[q] = arg[q] /\ i'[q] = i[q]
  /\ limit'[q] = limit[q] /\ got'[q] = got[q] /\ result'[q] = result[q]

\* A step of one process changes nothing that another has.
LEMMA CallOthers ==
  ASSUME CallsTypeOK, NEW p \in Procs, Call(p), NEW q \in Procs \ {p}
  PROVE  Keeps(q)
<1> USE DEF CallsTypeOK, LocalsEnd, Return, Oops, Keeps
<1>1. ASSUME NEW m \in Minors, Open(p, m) PROVE Keeps(q)
  BY <1>1 DEF Open
<1>2. CASE OpenExisting(p) \/ OpenInsert(p) \/ OpenInsertFails(p) \/ OpenPublish(p)
  BY <1>2 DEF OpenExisting, OpenInsert, OpenInsertFails, OpenPublish
<1>3. ASSUME NEW c \in Params, Ioctl(p, c) PROVE Keeps(q)
  BY <1>3 DEF Ioctl
<1>4. CASE Release(p) \/ ReleaseClose(p)
  BY <1>4 DEF Release, ReleaseClose
<1>5. ASSUME NEW m \in Messages, Write(p, m) PROVE Keeps(q)
  BY <1>5 DEF Write
<1>6. CASE WriteCheck(p) \/ WriteRefused(p) \/ WriteByte(p) \/ WriteLength(p)
  BY <1>6 DEF WriteCheck, WriteRefused, WriteByte, WriteLength
<1>7. ASSUME NEW size \in ReadSizes, Read(p, size) PROVE Keeps(q)
  BY <1>7 DEF Read
<1>8. CASE ReadCheck(p) \/ ReadRefused(p) \/ ReadByte(p) \/ ReadEnd(p)
  BY <1>8 DEF ReadCheck, ReadRefused, ReadByte, ReadEnd
<1>9. CASE OrphanCalls(p) \/ Replaced(p)
  BY <1>9 DEF OrphanCalls, Replaced
<1> HIDE DEF CallsTypeOK, LocalsEnd, Return, Oops, Keeps
<1> QED BY <1>1, <1>2, <1>3, <1>4, <1>5, <1>6, <1>7, <1>8, <1>9, Zenon DEF Call

\* Those that are to insert a node: a step of p concerns p only.
LEMMA CallInserting ==
  ASSUME CallsTypeOK, NEW p \in Procs, Call(p)
  PROVE  Inserting' = IF pc'[p] = "openFound" /\ found'[p] = Null
                      THEN Inserting \cup {p} ELSE Inserting \ {p}
<1>1. \A q \in Procs \ {p} : pc'[q] = pc[q] /\ found'[q] = found[q]
  BY CallOthers DEF Keeps
<1> QED BY <1>1 DEF Inserting

LEMMA CallList ==
  ASSUME DriverInOrder, NEW p \in Procs, Call(p)
  PROVE  ListInOrder'
<1>1. /\ allocated \in Nat /\ MaxNodes \in Nat /\ allocated' \in allocated .. MaxNodes
      /\ head \in 0 .. allocated /\ CallsTypeOK
  BY TypesOfList, SizesType, CallNodes DEF DriverInOrder, DeviceTypeOK, Nodes
<1>2. ASSUME NEW n \in 1 .. allocated' PROVE node'[n].next < n
  <2>1. CASE n \in 1 .. allocated
    <3>1. node'[n].next = node[n].next
      BY <2>1, CallNodes
    <3> QED BY <2>1, <3>1 DEF DriverInOrder, ListInOrder
  <2>2. CASE n \notin 1 .. allocated
    <3>1. OpenInsert(p)
      BY <1>1, <1>2, <2>2, CallNodes
    <3>2. allocated' = allocated + 1 /\ node'[allocated + 1].next = head
      BY <3>1, AddsNode
    <3>3. n = allocated + 1
      BY <1>1, <1>2, <2>2, <3>2
    <3> QED BY <1>1, <3>2, <3>3
  <2> QED BY <2>1, <2>2
<1>3. loaded' = loaded
  BY DEF Call, device, Open, OpenExisting, OpenInsert, OpenInsertFails, OpenPublish,
         Ioctl, Release, ReleaseClose, Write, WriteCheck, WriteRefused, WriteByte,
         WriteLength, Read, ReadCheck, ReadRefused, ReadByte, ReadEnd, OrphanCalls, Replaced
<1>4. ASSUME ~ loaded
      PROVE  /\ allocated' = 0
             /\ \A q \in Procs : pc'[q] \in {"closed", "orphan", "crashed"}
  <2>1. allocated = 0 /\ \A q \in Procs : pc[q] \in {"closed", "orphan", "crashed"}
    BY <1>4 DEF DriverInOrder, ListInOrder
  <2>2. OrphanCalls(p) \/ Replaced(p)
    BY <1>4, <2>1 DEF Call, Open, OpenExisting, OpenInsert, OpenInsertFails, OpenPublish,
      Ioctl, Release, ReleaseClose, Write, WriteCheck, WriteRefused, WriteByte,
      WriteLength, Read, ReadCheck, ReadRefused, ReadByte, ReadEnd
  <2>3. allocated' = allocated /\ pc'[p] \in {"closed", "orphan", "crashed"}
    BY <1>1, <2>2 DEF OrphanCalls, Replaced, device, CallsTypeOK
  <2>4. \A q \in Procs \ {p} : pc'[q] = pc[q]
    BY <1>1, CallOthers DEF Keeps
  <2> QED BY <2>1, <2>3, <2>4
<1>5. allocated' + Cardinality(Inserting') <= MaxNodes
  <2>0. Cardinality(Inserting) \in Nat /\ allocated + Cardinality(Inserting) <= MaxNodes
    BY InsertingCounts DEF DriverInOrder, ListInOrder
  <2>1. ASSUME NEW m \in Minors, Open(p, m), GetMinorNode(m) = Null
        PROVE  allocated' + Cardinality(Inserting') <= MaxNodes
    <3>1. p \notin Inserting /\ Inserting' = Inserting \cup {p} /\ allocated' = allocated
      BY <1>1, <2>1, CallInserting DEF Open, Inserting, CallsTypeOK, device
    <3>2. Cardinality(Inserting \cup {p}) = Cardinality(Inserting) + 1
      BY <3>1, InsertingCounts
    <3>3. allocated + Cardinality(Inserting) < MaxNodes
      BY <2>1 DEF Open, NodeLeft
    <3>4. Cardinality(Inserting') = Cardinality(Inserting) + 1
      BY <3>1, <3>2
    <3> QED BY <1>1, <2>0, <3>1, <3>3, <3>4
  <2>2. CASE OpenInsert(p)
    <3>1. p \in Inserting /\ allocated' = allocated + 1 /\ pc'[p] = "publish"
      BY <1>1, <2>2 DEF OpenInsert, Inserting, CallsTypeOK
    <3>2. Inserting' = Inserting \ {p}
      BY <1>1, <3>1, CallInserting
    <3>3. Cardinality(Inserting') = Cardinality(Inserting) - 1
      BY <3>1, <3>2, InsertingCounts
    <3> QED BY <1>1, <2>0, <3>1, <3>3
  <2>3. CASE OpenInsertFails(p)
    <3>1. p \in Inserting /\ allocated' = allocated /\ pc'[p] = "crashed"
      BY <1>1, <2>3 DEF OpenInsertFails, Inserting, CallsTypeOK, device
    <3>2. Inserting' = Inserting \ {p}
      BY <1>1, <3>1, CallInserting
    <3>3. Cardinality(Inserting') = Cardinality(Inserting) - 1
      BY <3>1, <3>2, InsertingCounts
    <3> QED BY <1>1, <2>0, <3>1, <3>3
  <2>4. CASE /\ ~ OpenInsert(p) /\ ~ OpenInsertFails(p)
             /\ ~ \E m \in Minors : Open(p, m) /\ GetMinorNode(m) = Null
    <3>1. allocated' = allocated
      BY <2>4, CallNodes
    <3>2. p \notin Inserting /\ ~ (pc'[p] = "openFound" /\ found'[p] = Null)
      <4>1. ASSUME NEW m \in Minors, Open(p, m)
            PROVE  p \notin Inserting /\ found'[p] # Null
        BY <1>1, <2>4, <4>1 DEF Open, Inserting, CallsTypeOK
      <4>2. CASE OpenExisting(p)
        BY <1>1, <4>2 DEF OpenExisting, Return, Inserting, CallsTypeOK
      <4>3. CASE ~ (OpenExisting(p) \/ \E m \in Minors : Open(p, m))
        <5>1. pc[p] # "openFound" /\ pc'[p] # "openFound"
          BY <1>1, <2>4, <4>3 DEF CallsTypeOK, Return, Call, OpenPublish, Ioctl,
            Release, ReleaseClose, Write, WriteCheck, WriteRefused, WriteByte, Oops,
            WriteLength, Read, ReadCheck, ReadRefused, ReadByte, ReadEnd, OrphanCalls,
            Replaced
        <5> QED BY <5>1 DEF Inserting
      <4> QED BY <4>1, <4>2, <4>3
    <3>3. Inserting' = Inserting
      BY <1>1, <3>2, CallInserting
    <3> QED BY <2>0, <3>1, <3>3
  <2> QED BY <2>1, <2>2, <2>3, <2>4
<1> QED BY <1>2, <1>3, <1>4, <1>5 DEF ListInOrder

\* What the call of a process works on stays in order through its own steps
\* and those of others.
LEMMA CallOrder ==
  ASSUME DriverInOrder, NEW p \in Procs, Call(p)
  PROVE  CallsInOrder'
<1>1. /\ allocated \in Nat /\ CallsTypeOK /\ CallInOrder(p)
      /\ \A m : GetMinorNode(m) # Null => node[GetMinorNode(m)].value = m
      /\ \A q \in Procs : found[q] \in 0 .. allocated
      /\ \A m : GetMinorNode(m) \in 0 .. allocated
  BY TypesOfList DEF DriverInOrder, CallsInOrder, CallsTypeOK, Nodes
<1>2. \A n \in 0 .. allocated : n # Null => node'[n].value = node[n].value
  <2> SUFFICES ASSUME NEW n \in 0 .. allocated, n # Null PROVE node'[n].value = node[n].value
    OBVIOUS
  <2>1. n \in 1 .. allocated
    BY <1>1 DEF Null
  <2> QED BY <2>1, CallNodes
<1>3. ASSUME NEW q \in Procs \ {p} PROVE CallInOrder(q)'
  <2>1. CallInOrder(q) /\ Keeps(q) /\ found[q] \in 0 .. allocated
    BY <1>1, CallOthers DEF DriverInOrder, CallsInOrder
  <2>2. found[q] # Null => node'[found[q]].value = node[found[q]].value
    BY <1>2, <2>1
  <2> QED BY <2>1, <2>2 DEF CallInOrder, Keeps
<1>4. CallInOrder(p)'
  <2> USE <1>1 DEF CallsTypeOK, CallInOrder
  <2>0. /\ GetMinorNode(minor[p]) # Null => node'[GetMinorNode(minor[p])].value = minor[p]
        /\ found[p] # Null => node'[found[p]].value = minor[p]
    BY <1>2
  <2>1. ASSUME NEW m \in Minors, Open(p, m) PROVE CallInOrder(p)'
    <3>1. GetMinorNode(m) # Null => node'[GetMinorNode(m)].value = m
      BY <1>2
    <3> QED BY <2>1, <3>1 DEF Open
  <2>2. CASE OpenExisting(p) \/ OpenPublish(p)
    BY <2>2 DEF OpenExisting, OpenPublish, Return, LocalsEnd
  <2>3. CASE OpenInsert(p)
    <3>1. /\ node'[allocated + 1].value = minor[p] /\ found'[p] = allocated + 1
          /\ minor'[p] = minor[p] /\ pc'[p] = "publish"
      BY <2>3, AddsNode DEF OpenInsert
    <3>2. allocated + 1 # Null
      BY DEF Null
    <3> QED BY <3>1, <3>2
  <2>4. CASE OpenInsertFails(p)
    BY <2>0, <2>4 DEF OpenInsertFails
  <2>5. ASSUME NEW c \in Params, Ioctl(p, c) PROVE CallInOrder(p)'
    BY <2>5 DEF Ioctl, Return, LocalsEnd
  <2>6. CASE Release(p)
    BY <2>0, <2>6 DEF Release
  <2>7. CASE ReleaseClose(p)
    BY <2>7 DEF ReleaseClose, LocalsEnd
  <2>8. ASSUME NEW m \in Messages, Write(p, m) PROVE CallInOrder(p)'
    <3>1. CASE Writable(p, m)
      <4>1. channel[p] \in Channels /\ Length[m] >= PointerSize
        BY <3>1 DEF Writable
      <4>2. /\ pc'[p] = "writeFound" /\ channel'[p] = channel[p] /\ minor'[p] = minor[p]
            /\ arg'[p] = m /\ found'[p] = GetMinorNode(minor[p])
        BY <2>8, <3>1 DEF Write
      <4> QED BY <2>0, <4>1, <4>2
    <3>2. CASE ~ Writable(p, m)
      BY <2>8, <3>2 DEF Write, Return, LocalsEnd
    <3> QED BY <3>1, <3>2
  <2>9. CASE WriteCheck(p)
    <3>1. Stored(arg[p]) >= 0 /\ arg[p] \in Messages
      BY <2>9, SizesType DEF WriteCheck
    <3> QED BY <2>0, <2>9, <3>1 DEF WriteCheck
  <2>10. CASE WriteRefused(p)
    BY <2>0, <2>10 DEF WriteRefused, Oops, Return, LocalsEnd
  <2>11. CASE WriteByte(p)
    <3>1. i[p] + 1 <= Stored(arg[p])
      BY <2>11, StoresByte
    <3> QED BY <2>0, <2>11, <3>1 DEF WriteByte
  <2>12. CASE WriteLength(p)
    BY <2>12 DEF WriteLength, Return, LocalsEnd
  <2>13. ASSUME NEW size \in ReadSizes, Read(p, size) PROVE CallInOrder(p)'
    <3>1. CASE channel[p] # NoChannel
      <4>1. channel[p] \in Channels
        BY <3>1
      <4>2. /\ pc'[p] = "readFound" /\ channel'[p] = channel[p] /\ minor'[p] = minor[p]
            /\ arg'[p] = size /\ found'[p] = GetMinorNode(minor[p])
        BY <2>13, <3>1 DEF Read
      <4> QED BY <2>0, <4>1, <4>2
    <3>2. CASE channel[p] = NoChannel
      BY <2>13, <3>2 DEF Read, Return, LocalsEnd
    <3> QED BY <3>1, <3>2
  <2>14. CASE ReadCheck(p)
    BY <2>0, <2>14 DEF ReadCheck
  <2>15. CASE ReadRefused(p)
    BY <2>0, <2>15 DEF ReadRefused, Oops, Return, LocalsEnd
  <2>16. CASE ReadByte(p)
    <3>1. PICK b : got' = [got EXCEPT ![p] = Append(got[p], b)]
      BY <2>16 DEF ReadByte
    <3>2. Len(got'[p]) = Len(got[p]) + 1
      BY <3>1
    <3> QED BY <2>0, <2>16, <3>2 DEF ReadByte
  <2>17. CASE ReadEnd(p)
    BY <2>17 DEF ReadEnd, Return, LocalsEnd
  <2>18. CASE OrphanCalls(p) \/ Replaced(p)
    BY <2>0, <2>18 DEF OrphanCalls, Replaced
  <2> HIDE DEF CallsTypeOK, CallInOrder
  <2> QED
    BY <2>1, <2>2, <2>3, <2>4, <2>5, <2>6, <2>7, <2>8, <2>9, <2>10, <2>11, <2>12,
       <2>13, <2>14, <2>15, <2>16, <2>17, <2>18, Zenon DEF Call
<1> QED BY <1>3, <1>4 DEF CallsInOrder

\* What a step of a call does to a byte, a length and the flag of a node.
ByteStep(p, n, c, k) ==
  \/ node'[n].cell[c][k] = node[n].cell[c][k]
  \/ /\ WriteByte(p) /\ n = found[p] /\ c = channel[p] /\ k = i[p] + 1
     /\ node'[n].cell[c][k] = <<arg[p], minor[p], c>>

LengthStep(p, n, c) ==
  \/ node'[n].length[c] = node[n].length[c]
  \/ /\ WriteLength(p) /\ n = found[p] /\ c = channel[p]
     /\ node'[n].length[c] = i[p]

OpenStep(p, n) ==
  \/ node'[n].open = node[n].open
  \/ OpenExisting(p) /\ n = found[p] /\ node'[n].open = TRUE
  \/ ReleaseClose(p) /\ n = found[p] /\ node'[n].open = FALSE

CellStep(p, n, c) ==
  /\ \A k \in 1 .. BufLen : ByteStep(p, n, c, k)
  /\ LengthStep(p, n, c) /\ OpenStep(p, n)

LEMMA CallCells ==
  ASSUME DriverInOrder, NEW p \in Procs, Call(p), NEW n \in 1 .. allocated,
         NEW c \in Channels
  PROVE  CellStep(p, n, c)
<1> USE DEF CellStep, ByteStep, LengthStep, OpenStep
<1>1. ASSUME node'[n] = node[n] PROVE CellStep(p, n, c)
  BY <1>1
<1>2. CASE OpenExisting(p)
  <2>1. /\ node'[n].length = node[n].length /\ node'[n].cell = node[n].cell
        /\ n # found[p] => node'[n] = node[n]
        /\ node'[found[p]].open = TRUE
    BY <1>2, OpensNode
  <2> QED BY <1>2, <2>1
<1>3. CASE OpenInsert(p)
  <2>1. node'[n] = node[n]
    BY <1>3, AddsNode
  <2> QED BY <2>1
<1>4. CASE WriteByte(p)
  <2>1. CASE n = found[p] /\ c = channel[p]
    <3>1. /\ node'[n].cell[c][i[p] + 1] = <<arg[p], minor[p], c>>
          /\ \A j \in (1 .. BufLen) \ {i[p] + 1} : node'[n].cell[c][j] = node[n].cell[c][j]
          /\ node'[n].open = node[n].open /\ node'[n].length = node[n].length
      BY <1>4, <2>1, StoresByte
    <3> QED BY <1>4, <2>1, <3>1
  <2>2. CASE n = found[p] /\ c # channel[p]
    <3>1. /\ node'[n].cell[c] = node[n].cell[c]
          /\ node'[n].open = node[n].open /\ node'[n].length = node[n].length
      BY <1>4, <2>2, StoresByte
    <3> QED BY <3>1
  <2>3. CASE n # found[p]
    <3>1. node'[n] = node[n]
      BY <1>4, <2>3, StoresByte
    <3> QED BY <3>1
  <2> QED BY <2>1, <2>2, <2>3
<1>5. CASE WriteLength(p)
  <2>1. CASE n = found[p] /\ c = channel[p]
    <3>1. node'[n].length[c] = i[p] /\ node'[n].open = node[n].open
          /\ node'[n].cell = node[n].cell
      BY <1>5, <2>1, StoresLength
    <3> QED BY <1>5, <2>1, <3>1
  <2>2. CASE n = found[p] /\ c # channel[p]
    <3>1. /\ node'[n].length[c] = node[n].length[c] /\ node'[n].open = node[n].open
          /\ node'[n].cell = node[n].cell
      BY <1>5, <2>2, StoresLength
    <3> QED BY <3>1
  <2>3. CASE n # found[p]
    <3>1. node'[n] = node[n]
      BY <1>5, <2>3, StoresLength
    <3> QED BY <3>1
  <2> QED BY <2>1, <2>2, <2>3
<1>6. CASE ReleaseClose(p) /\ found[p] # Null
  <2>1. /\ node'[n].length = node[n].length /\ node'[n].cell = node[n].cell
        /\ n # found[p] => node'[n] = node[n]
        /\ node'[found[p]].open = FALSE
    BY <1>6, ClosesNode
  <2> QED BY <1>6, <2>1
<1>7. CASE NodesStay
  BY <1>1, <1>7 DEF NodesStay
<1> HIDE DEF CellStep, ByteStep, LengthStep, OpenStep
<1> QED BY <1>2, <1>3, <1>4, <1>5, <1>6, <1>7, OtherSteps, Zenon

\* Bytes that were written stay so.
LEMMA StaysFilled ==
  ASSUME DriverInOrder, NEW p \in Procs, Call(p), NEW n \in 1 .. allocated,
         NEW c \in Channels, NEW k \in Lengths, Filled(n, c, k)
  PROVE  \A j \in 1 .. k : node'[n].cell[c][j] # Garbage
<1> TAKE j \in 1 .. k
<1>1. j \in 1 .. BufLen
  BY SizesType
<1>2. node[n].cell[c][j] # Garbage
  BY DEF Filled
<1>3. ByteStep(p, n, c, j)
  BY <1>1, CallCells DEF CellStep
<1>4. <<arg[p], minor[p], c>> # Garbage
  BY DEF Garbage
<1> QED BY <1>2, <1>3, <1>4 DEF ByteStep

LEMMA CallChannels ==
  ASSUME DriverInOrder, BytesInOrder, NEW p \in Procs, Call(p),
         NEW n \in 1 .. allocated', NEW c \in Channels
  PROVE  ChannelInOrder(n, c)'
<1>1. /\ allocated \in Nat /\ allocated' \in allocated .. MaxNodes /\ MaxNodes \in Nat
      /\ BufLen \in Nat /\ node \in [1 .. allocated -> NodeType]
  BY TypesOfList, CallNodes, SizesType DEF DriverInOrder, DeviceTypeOK
<1>2. CASE n \in 1 .. allocated
  <2>1. /\ ChannelInOrder(n, c) /\ CellStep(p, n, c) /\ node'[n].value = node[n].value
        /\ node[n].length[c] \in Lengths
    <3>1. node[n] \in NodeType
      BY <1>1, <1>2
    <3> QED BY <1>2, <3>1, CallCells, CallNodes DEF BytesInOrder, NodeType
  <2>2. ASSUME NEW k \in 1 .. BufLen
        PROVE  node'[n].cell[c][k]
                 \in {Garbage} \cup (Messages \X {node'[n].value} \X {c})
    <3>1. CASE node'[n].cell[c][k] = node[n].cell[c][k]
      BY <2>1, <3>1 DEF ChannelInOrder
    <3>2. CASE WriteByte(p) /\ n = found[p] /\ node'[n].cell[c][k] = <<arg[p], minor[p], c>>
      <4>1. node[n].value = minor[p]
        BY <1>2, <3>2 DEF DriverInOrder, CallsInOrder, CallInOrder, Null
      <4>2. arg[p] \in Messages
        BY <3>2, StoresByte
      <4> QED BY <2>1, <3>2, <4>1, <4>2
    <3>3. ByteStep(p, n, c, k)
      BY <2>1 DEF CellStep
    <3> QED BY <3>1, <3>2, <3>3 DEF ByteStep
  <2>3. \A j \in 1 .. node'[n].length[c] : node'[n].cell[c][j] # Garbage
    <3>1. CASE node'[n].length[c] = node[n].length[c]
      <4>1. Filled(n, c, node[n].length[c])
        BY <2>1 DEF ChannelInOrder
      <4>2. \A j \in 1 .. node[n].length[c] : node'[n].cell[c][j] # Garbage
        BY <1>2, <2>1, <4>1, StaysFilled
      <4> QED BY <3>1, <4>2
    <3>2. CASE /\ WriteLength(p) /\ n = found[p] /\ c = channel[p]
               /\ node'[n].length[c] = i[p]
      <4>1. Filled(n, c, i[p]) /\ i[p] \in Lengths
        BY <3>2 DEF BytesInOrder, LengthsInOrder, WriteLength, DriverInOrder, CallsTypeOK
      <4>2. \A j \in 1 .. i[p] : node'[n].cell[c][j] # Garbage
        BY <1>2, <4>1, StaysFilled
      <4> QED BY <3>2, <4>2
    <3> QED BY <2>1, <3>1, <3>2 DEF CellStep, LengthStep
  <2> QED BY <2>2, <2>3 DEF ChannelInOrder, Filled
<1>3. CASE n \notin 1 .. allocated
  <2>1. OpenInsert(p)
    BY <1>1, <1>3, CallNodes
  <2>2. /\ allocated' = allocated + 1
        /\ node'[allocated + 1].length[c] = 0
        /\ \A k \in 1 .. BufLen : node'[allocated + 1].cell[c][k] = Garbage
    BY <2>1, AddsNode
  <2>3. n = allocated + 1
    BY <1>1, <1>3, <2>2
  <2>4. node'[n].length[c] = 0 /\ \A k \in 1 .. BufLen : node'[n].cell[c][k] = Garbage
    BY <2>2, <2>3
  <2> QED BY <2>4 DEF ChannelInOrder, Filled
<1> QED BY <1>2, <1>3

LEMMA CallLengths ==
  ASSUME DriverInOrder, BytesInOrder, NEW p \in Procs, Call(p), NEW q \in Procs
  PROVE  LengthsInOrder(q)'
<1>1. /\ allocated \in Nat /\ CallsTypeOK /\ node \in [1 .. allocated -> NodeType]
      /\ BufLen \in Nat /\ Lengths = 0 .. BufLen
  BY TypesOfList, SizesType DEF DriverInOrder, DeviceTypeOK
<1>2. ASSUME pc[q] \in {"writing", "reading"}
      PROVE  /\ found[q] \in 1 .. allocated /\ channel[q] \in Channels
             /\ i[q] \in Lengths /\ limit[q] \in Lengths
  BY <1>1, <1>2 DEF DriverInOrder, CallsInOrder, CallInOrder, CallsTypeOK, Nodes, Null
<1>3. ASSUME pc[q] \in {"writing", "reading"}
      PROVE  /\ pc[q] = "writing" =>
                  \A j \in 1 .. i[q] : node'[found[q]].cell[channel[q]][j] # Garbage
             /\ pc[q] = "reading" =>
                  \A j \in 1 .. limit[q] : node'[found[q]].cell[channel[q]][j] # Garbage
  BY <1>2, <1>3, StaysFilled DEF BytesInOrder, LengthsInOrder
<1>4. CASE q # p
  <2>1. Keeps(q)
    BY <1>1, <1>4, CallOthers
  <2> QED BY <1>3, <2>1 DEF LengthsInOrder, Filled, Keeps
<1>5. CASE q = p
  <2>1. CASE WriteCheck(p)
    <3>1. pc'[q] = "writing" /\ i'[q] = 0
      BY <1>1, <1>5, <2>1 DEF WriteCheck, CallsTypeOK
    <3> QED BY <3>1 DEF LengthsInOrder, Filled
  <2>2. CASE WriteByte(p)
    <3>1. /\ pc[q] = "writing" /\ pc'[q] = "writing" /\ i'[q] = i[q] + 1
          /\ found'[q] = found[q] /\ channel'[q] = channel[q]
      BY <1>1, <1>5, <2>2 DEF WriteByte, CallsTypeOK
    <3>2. node'[found[q]].cell[channel[q]][i[q] + 1] # Garbage
      <4>1. node'[found[q]].cell[channel[q]][i[q] + 1] = <<arg[q], minor[q], channel[q]>>
        BY <1>5, <2>2, StoresByte
      <4> QED BY <4>1 DEF Garbage
    <3>3. \A j \in 1 .. i[q] + 1 : j \in 1 .. i[q] \/ j = i[q] + 1
      BY <1>1, <1>2, <3>1
    <3>4. \A j \in 1 .. i[q] + 1 : node'[found[q]].cell[channel[q]][j] # Garbage
      BY <1>3, <3>1, <3>2, <3>3
    <3> QED BY <3>1, <3>4 DEF LengthsInOrder, Filled
  <2>3. CASE ReadCheck(p)
    <3>1. /\ found[q] \in 1 .. allocated /\ channel[q] \in Channels
          /\ pc'[q] = "reading" /\ limit'[q] = LengthNow(q)
          /\ found'[q] = found[q] /\ channel'[q] = channel[q]
      BY <1>1, <1>5, <2>3 DEF ReadCheck, DriverInOrder, CallsInOrder, CallInOrder,
                              CallsTypeOK, Nodes, Null
    <3>2. LengthNow(q) \in Lengths /\ Filled(found[q], channel[q], LengthNow(q))
      BY <1>1, <3>1 DEF NodeType, LengthNow, BytesInOrder, ChannelInOrder
    <3>3. \A j \in 1 .. LengthNow(q) : node'[found[q]].cell[channel[q]][j] # Garbage
      BY <3>1, <3>2, StaysFilled
    <3> QED BY <3>1, <3>3 DEF LengthsInOrder, Filled
  <2>4. CASE ReadByte(p)
    <3>1. pc[q] = "reading" /\ found[q] \in 1 .. allocated /\ channel[q] \in Channels
      BY <1>2, <1>5, <2>4 DEF ReadByte
    <3>2. /\ pc'[q] = "reading" /\ limit'[q] \in {limit[q], LengthNow(q)}
          /\ found'[q] = found[q] /\ channel'[q] = channel[q]
      BY <1>1, <1>5, <2>4 DEF ReadByte, LimitMayBe, CallsTypeOK
    <3>3. LengthNow(q) \in Lengths /\ Filled(found[q], channel[q], LengthNow(q))
      BY <1>1, <3>1 DEF NodeType, LengthNow, BytesInOrder, ChannelInOrder
    <3>4. \A j \in 1 .. LengthNow(q) : node'[found[q]].cell[channel[q]][j] # Garbage
      BY <3>1, <3>3, StaysFilled
    <3>5. \A j \in 1 .. limit'[q] : node'[found[q]].cell[channel[q]][j] # Garbage
      BY <1>3, <3>1, <3>2, <3>4
    <3> QED BY <3>2, <3>5 DEF LengthsInOrder, Filled
  <2>5. CASE ~ (WriteCheck(p) \/ WriteByte(p) \/ ReadCheck(p) \/ ReadByte(p))
    <3>1. pc'[p] \notin {"writing", "reading"}
      BY <1>1, <2>5 DEF CallsTypeOK, Call, Open, OpenExisting, OpenInsert, OpenInsertFails,
        OpenPublish, Return, Ioctl, Release, ReleaseClose, Write, WriteRefused, Oops,
        WriteLength, Read, ReadRefused, ReadEnd, OrphanCalls, Replaced
    <3> QED BY <1>5, <3>1 DEF LengthsInOrder
  <2> QED BY <2>1, <2>2, <2>3, <2>4, <2>5
<1> QED BY <1>4, <1>5

LEMMA CallReads ==
  ASSUME DriverInOrder, BytesInOrder, ReadsOwnChannel, NEW p \in Procs, Call(p)
  PROVE  ReadsOwnChannel'
<1> USE DEF ReadsOwnChannel
<1>1. /\ allocated \in Nat /\ CallsTypeOK /\ node \in [1 .. allocated -> NodeType]
      /\ BufLen \in Nat /\ Lengths = 0 .. BufLen
  BY TypesOfList, SizesType DEF DriverInOrder, DeviceTypeOK
<1>2. SUFFICES ASSUME NEW q \in Procs, pc'[q] = "reading", NEW k \in 1 .. Len(got'[q])
               PROVE  got'[q][k] \in Messages \X {minor'[q]} \X {channel'[q]}
  OBVIOUS
<1>3. CASE q # p
  <2>1. Keeps(q)
    BY <1>1, <1>3, CallOthers
  <2> QED BY <1>2, <2>1 DEF Keeps
<1>4. CASE q = p
  <2>1. CASE ReadCheck(p)
    <3>1. got'[q] = << >>
      BY <1>1, <1>4, <2>1 DEF ReadCheck, CallsTypeOK
    <3> QED BY <1>2, <3>1
  <2>2. CASE ReadByte(p)
    <3>1. /\ pc[q] = "reading" /\ minor'[q] = minor[q] /\ channel'[q] = channel[q]
          /\ i[q] \in 0 .. BufLen
      BY <1>1, <1>4, <2>2 DEF ReadByte, CallsTypeOK
    <3>2. /\ found[q] \in 1 .. allocated /\ channel[q] \in Channels
          /\ node[found[q]].value = minor[q] /\ Len(got[q]) = i[q]
          /\ got[q] \in Seq(Bytes) /\ limit[q] \in Lengths
      BY <1>1, <3>1 DEF DriverInOrder, CallsInOrder, CallInOrder, CallsTypeOK, Nodes, Null
    <3> DEFINE n == found[q]  c == channel[q]  b == node[n].cell[c][i[q] + 1]
    <3>3. got'[q] = Append(got[q], b)
      BY <1>1, <1>4, <2>2 DEF ReadByte, CallsTypeOK
    <3>4. b \in Messages \X {minor[q]} \X {c}
      <4>1. PICK l \in {limit[q], LengthNow(q)} : i[q] < l
        BY <1>4, <2>2 DEF ReadByte, LimitMayBe
      <4>2. /\ LengthNow(q) \in Lengths /\ Filled(n, c, LengthNow(q))
            /\ Filled(n, c, limit[q])
        BY <1>1, <3>1, <3>2 DEF NodeType, LengthNow, BytesInOrder, ChannelInOrder,
                                LengthsInOrder
      <4>3. l \in 0 .. BufLen /\ Filled(n, c, l)
        BY <1>1, <3>2, <4>1, <4>2
      <4>4. i[q] + 1 \in 1 .. l /\ i[q] + 1 \in 1 .. BufLen
        BY <1>1, <3>1, <4>1, <4>3
      <4>5. b # Garbage
        BY <4>3, <4>4 DEF Filled
      <4>6. b \in {Garbage} \cup (Messages \X {node[n].value} \X {c})
        BY <3>2, <4>4 DEF BytesInOrder, ChannelInOrder
      <4> QED BY <3>2, <4>5, <4>6
    <3> HIDE DEF b, n, c
    <3>5. CASE k = Len(got[q]) + 1
      <4>1. got'[q][k] = b
        BY <3>2, <3>3, <3>5
      <4> QED BY <3>1, <3>4, <4>1 DEF c
    <3>6. CASE k # Len(got[q]) + 1
      <4>1. k \in 1 .. Len(got[q]) /\ got'[q][k] = got[q][k]
        <5>1. Len(got'[q]) = Len(got[q]) + 1 /\ Len(got[q]) \in Nat
          BY <3>2, <3>3
        <5>2. k \in 1 .. Len(got[q])
          BY <1>2, <3>6, <5>1
        <5> QED BY <3>2, <3>3, <5>2
      <4> QED BY <3>1, <4>1
    <3> QED BY <3>5, <3>6
  <2>3. CASE ~ (ReadCheck(p) \/ ReadByte(p))
    <3>1. pc'[p] # "reading"
      BY <1>1, <2>3 DEF CallsTypeOK, Call, Open, OpenExisting, OpenInsert, OpenInsertFails,
        OpenPublish, Return, Ioctl, Release, ReleaseClose, Write, WriteCheck, WriteByte,
        WriteRefused, Oops, WriteLength, Read, ReadRefused, ReadEnd, OrphanCalls, Replaced
    <3> QED BY <1>2, <1>4, <3>1
  <2> QED BY <2>1, <2>2, <2>3
<1> QED BY <1>3, <1>4

LEMMA CallStep ==
  ASSUME IInv, NEW p \in Procs, Call(p)
  PROVE  IInv'
<1>1. DriverInOrder
  BY DEF IInv, TypeOK, DriverInOrder
<1>2. BytesInOrder'
  BY <1>1, CallChannels, CallLengths DEF IInv, BytesInOrder
<1> QED BY <1>1, <1>2, CallDevice, CallTypes, CallList, CallOrder, CallReads DEF IInv, TypeOK

LEMMA UnloadPlaces ==
  ASSUME Unload, NEW p \in Procs
  PROVE  pc'[p] \in {"closed", "orphan", "crashed"} /\ found'[p] = Null
  BY DEF Unload

\* Of what the module had there is nothing left.
LEMMA UnloadStep ==
  ASSUME IInv, Unload
  PROVE  IInv'
<1>1. /\ allocated' = 0 /\ head' = 0 /\ loaded' = FALSE /\ 1 .. allocated' = {}
      /\ node' = << >> /\ CallsTypeOK
  BY DEF Unload, CleanList, Null, IInv, TypeOK
<1>2. \A p \in Procs :
        /\ pc'[p] \in {"closed", "orphan", "crashed"} /\ found'[p] = Null
        /\ pc[p] \in Places => pc'[p] \in Places
  BY DEF Unload, Places
<1>3. Inserting' = {} /\ Cardinality(Inserting') = 0
  <2>1. Inserting' = {}
    BY <1>2 DEF Inserting
  <2> QED BY <2>1, FS_EmptySet
<1>4. DeviceTypeOK'
  <2>1. node' \in [1 .. allocated' -> NodeType]
    BY <1>1
  <2>2. head' \in Nodes' /\ allocated' \in 0 .. MaxNodes
    <3>1. MaxNodes \in Nat /\ Nodes' = 0 .. allocated'
      BY SizesType DEF Nodes
    <3> QED BY <1>1, <3>1
  <2>3. loaded' \in BOOLEAN
    BY <1>1, Zenon
  <2> QED BY <2>1, <2>2, <2>3 DEF DeviceTypeOK
<1>5. CallsTypeOK'
  <2>1. pc' \in [Procs -> Places]
    BY <1>1, Members DEF Unload, CallsTypeOK
  <2>2. Null \in Nodes'
    BY <1>1 DEF Nodes, Null
  <2> QED BY <1>1, <2>1, <2>2, Members DEF Unload, CallsTypeOK
<1>6. ListInOrder'
  BY <1>1, <1>2, <1>3, SizesType DEF ListInOrder
<1>7. CallsInOrder'
  BY <1>2 DEF CallsInOrder, CallInOrder
<1>8. BytesInOrder' /\ ReadsOwnChannel'
  BY <1>1, <1>2 DEF BytesInOrder, LengthsInOrder, ReadsOwnChannel
<1> QED BY <1>4, <1>5, <1>6, <1>7, <1>8 DEF IInv, TypeOK

LEMMA LoadStep ==
  ASSUME IInv, Load
  PROVE  IInv'
<1>1. /\ allocated = 0 /\ loaded' = TRUE /\ head' = 0
      /\ \A p \in Procs : pc[p] \in {"closed", "orphan", "crashed"}
      /\ UNCHANGED <<allocated, node, pc, minor, channel, found, arg, i, limit, got, result>>
  BY DEF Load, Null, IInv, ListInOrder
<1>2. DeviceTypeOK'
  BY <1>1 DEF IInv, TypeOK, DeviceTypeOK, Nodes
<1>3. CallsTypeOK'
  BY <1>1 DEF IInv, TypeOK, CallsTypeOK, Nodes
<1>4. ListInOrder'
  BY <1>1 DEF IInv, ListInOrder, Inserting
<1>5. CallsInOrder'
  BY <1>1 DEF IInv, CallsInOrder, CallInOrder
<1>6. BytesInOrder' /\ ReadsOwnChannel'
  BY <1>1 DEF BytesInOrder, LengthsInOrder, ReadsOwnChannel
<1> QED BY <1>2, <1>3, <1>4, <1>5, <1>6 DEF IInv, TypeOK

LEMMA StutterStep ==
  ASSUME IInv, UNCHANGED vars
  PROVE  IInv'
<1> USE DEF vars, device
<1>1. DeviceTypeOK' /\ CallsTypeOK'
  BY DEF IInv, TypeOK, DeviceTypeOK, CallsTypeOK, Nodes
<1>2. ListInOrder' /\ CallsInOrder'
  BY DEF IInv, ListInOrder, Inserting, CallsInOrder, CallInOrder
<1>3. BytesInOrder'
  BY DEF IInv, BytesInOrder, ChannelInOrder, LengthsInOrder, Filled
<1>4. ReadsOwnChannel'
  BY DEF IInv, ReadsOwnChannel
<1> QED BY <1>1, <1>2, <1>3, <1>4 DEF IInv, TypeOK

\* The inductive invariant of the driver, for any processes and sizes, whether
\* or not calls overlap (device_open to device_release, ex3/message_slot.c).
THEOREM Invariance == Spec => []IInv
<1>1. Init => IInv
  BY InitInv
<1>2. IInv /\ [Next]_vars => IInv'
  BY CallStep, UnloadStep, LoadStep, StutterStep DEF Next
<1> QED BY <1>1, <1>2, PTL DEF Spec

\* Types of the driver: a walk of the list and a copy of bytes never leave the
\* nodes and their buffers.
THEOREM TypeCorrect == Spec => []TypeOK
<1>1. IInv => TypeOK
  BY DEF IInv
<1> QED BY <1>1, Invariance, PTL

(***************************************************************************)
(* The programs: what they do is what processes may do with the driver.    *)
(***************************************************************************)

LEMMA JobType ==
  ASSUME NEW j \in Jobs
  PROVE  /\ j.role \in {"sender", "reader"} /\ j.minor \in Minors
         /\ j.channel \in Params /\ j.message \in Messages
  BY JobsAssumption

LEMMA UsersInitInv ==
  ASSUME UsersInit
  PROVE  IInv /\ ProgramsTypeOK
<1>1. IInv
  BY InitInv DEF UsersInit
<1>2. (CHOOSE j \in Jobs : TRUE) \in Jobs
  BY JobsAssumption
<1>3. /\ job \in [Procs -> Jobs] /\ ppc \in [Procs -> Steps]
      /\ outcome \in [Procs -> Outcomes]
  BY <1>2 DEF UsersInit, Steps, Outcomes
<1>4. sent \in [Minors -> [Channels -> Sent]]
  BY DEF UsersInit, Sent
<1>5. disturbed \in [Procs -> BOOLEAN]
  BY DEF UsersInit
<1> QED BY <1>1, <1>3, <1>4, <1>5 DEF ProgramsTypeOK

\* A step of a program or inside its calls is a step of the driver, or leaves the
\* driver alone.
LEMMA UsersCall ==
  ASSUME ProgramsTypeOK, NEW p \in Procs,
         Program(p) \/ InDriver(p) \/ WriteReturns(p) \/ FileCloses(p)
  PROVE  Call(p) \/ UNCHANGED vars
<1>1. job[p] \in Jobs
  BY DEF ProgramsTypeOK
<1>2. CASE Program(p)
  <2>1. ASSUME NEW j \in Jobs, Start(p, j) PROVE UNCHANGED vars
    BY <2>1 DEF Start
  <2>2. CASE OpenSlot(p)
    BY <1>1, <2>2, JobType DEF OpenSlot, Call
  <2>3. CASE SetChannel(p)
    BY <1>1, <2>3, JobType DEF SetChannel, Call
  <2>4. CASE Transfer(p)
    <3>1. MaxBufferSize \in ReadSizes /\ job[p].message \in Messages
      BY <1>1, JobType, BufferAssumption
    <3>2. Write(p, job[p].message) \/ Read(p, MaxBufferSize)
      BY <2>4 DEF Transfer
    <3> QED BY <3>1, <3>2 DEF Call
  <2>5. CASE CloseSlot(p)
    BY <2>5 DEF CloseSlot, Call
  <2>6. CASE Exit(p)
    BY <2>6 DEF Exit
  <2> QED BY <1>2, <2>1, <2>2, <2>3, <2>4, <2>5, <2>6 DEF Program
<1>3. CASE InDriver(p) \/ WriteReturns(p) \/ FileCloses(p)
  BY <1>3 DEF InDriver, WriteReturns, FileCloses, Call
<1> QED BY <1>2, <1>3

LEMMA ProgramsTypes ==
  ASSUME IInv, ProgramsTypeOK, NEW p \in Procs,
         Program(p) \/ InDriver(p) \/ WriteReturns(p) \/ FileCloses(p), Disturb(p)
  PROVE  ProgramsTypeOK'
<1>1. disturbed' \in [Procs -> BOOLEAN]
  BY Zenon DEF Disturb
<1>2. /\ job' \in [Procs -> Jobs] /\ ppc' \in [Procs -> Steps]
      /\ outcome' \in [Procs -> Outcomes]
  <2> USE DEF ProgramsTypeOK, Steps, Outcomes
  <2>1. CASE \E j \in Jobs : Start(p, j)
    BY <2>1 DEF Start
  <2>2. CASE OpenSlot(p) \/ SetChannel(p) \/ Transfer(p) \/ CloseSlot(p) \/ Exit(p)
    BY <2>2 DEF OpenSlot, SetChannel, Transfer, CloseSlot, Exit, Goto
  <2>3. CASE InDriver(p) \/ WriteReturns(p) \/ FileCloses(p)
    BY <2>3 DEF InDriver, WriteReturns, FileCloses, programVars
  <2> QED BY <2>1, <2>2, <2>3 DEF Program
<1>3. sent' \in [Minors -> [Channels -> Sent]]
  <2>1. CASE WriteReturns(p)
    <3>1. WriteLength(p) /\ DriverInOrder
      BY <2>1 DEF WriteReturns, IInv, TypeOK, DriverInOrder
    <3>2. arg[p] \in Messages
      BY <3>1, StoresLength
    <3>3. (IF disturbed[p] THEN Unknown ELSE arg[p]) \in Sent
      BY <3>2 DEF Sent
    <3> DEFINE s == IF disturbed[p] THEN Unknown ELSE arg[p]
    <3>4. sent' = [sent EXCEPT ![minor[p]][channel[p]] = s]
      BY <2>1 DEF WriteReturns
    <3> HIDE DEF s
    <3> QED BY <3>3, <3>4 DEF ProgramsTypeOK, s
  <2>2. CASE ~ WriteReturns(p)
    <3>1. sent' = sent
      BY <2>2 DEF Program, Start, OpenSlot, SetChannel, Transfer, CloseSlot, Exit, Goto,
                  InDriver, FileCloses
    <3> QED BY <3>1 DEF ProgramsTypeOK
  <2> QED BY <2>1, <2>2
<1> QED BY <1>1, <1>2, <1>3 DEF ProgramsTypeOK

LEMMA UsersStep ==
  ASSUME IInv, ProgramsTypeOK, [UsersNext]_allVars
  PROVE  IInv' /\ ProgramsTypeOK'
<1>1. ASSUME NEW p \in Procs,
             Program(p) \/ InDriver(p) \/ WriteReturns(p) \/ FileCloses(p), Disturb(p)
      PROVE  IInv' /\ ProgramsTypeOK'
  BY <1>1, UsersCall, CallStep, StutterStep, ProgramsTypes
<1>2. CASE UNCHANGED allVars
  <2>1. UNCHANGED vars /\ UNCHANGED <<job, ppc, outcome, sent, disturbed>>
    BY <1>2 DEF allVars, programVars
  <2>2. ProgramsTypeOK'
    BY <2>1 DEF ProgramsTypeOK
  <2> QED BY <2>1, <2>2, StutterStep
<1> QED BY <1>1, <1>2 DEF UsersNext

\* The invariant of the driver with the programs of ex3.
THEOREM UsersInvariance == UsersSpec => [](IInv /\ ProgramsTypeOK)
<1>1. UsersInit => IInv /\ ProgramsTypeOK
  BY UsersInitInv
<1>2. IInv /\ ProgramsTypeOK /\ [UsersNext]_allVars => (IInv /\ ProgramsTypeOK)'
  BY UsersStep
<1> QED BY <1>1, <1>2, PTL DEF UsersSpec

\* Types of the driver and of message_sender and message_reader.
THEOREM UsersTypesCorrect == UsersSpec => []UsersTypeOK
<1>1. IInv /\ ProgramsTypeOK => UsersTypeOK
  BY DEF IInv, UsersTypeOK
<1> QED BY <1>1, UsersInvariance, PTL

\* A read returns only bytes that were written to its own channel of its own
\* minor, however many processes call the driver and however their calls overlap.
THEOREM ReadsAlwaysOwn ==
  /\ Spec => []ReadsOwnChannel
  /\ UsersSpec => []ReadsOwnChannel
<1>1. IInv => ReadsOwnChannel
  BY DEF IInv
<1>2. IInv /\ ProgramsTypeOK => ReadsOwnChannel
  BY <1>1
<1> QED BY <1>1, <1>2, Invariance, UsersInvariance, PTL

(***************************************************************************)
(* Calls that do not overlap.                                              *)
(***************************************************************************)

SerialOrder ==
  /\ Serial /\ OneCall /\ NoNodeLost
  /\ \A p \in Procs : SerialFile(p) /\ SerialBytes(p)

LEMMA HeadOnlyPublished ==
  ASSUME NEW p \in Procs, Call(p), ~ OpenPublish(p)
  PROVE  head' = head
  BY DEF Call, device, Open, OpenExisting, OpenInsert, OpenInsertFails, Ioctl, Release,
     ReleaseClose, Write, WriteCheck, WriteRefused, WriteByte, WriteLength, Read, ReadCheck,
     ReadRefused, ReadByte, ReadEnd, OrphanCalls, Replaced

\* A walk from the same node, or from the same head, finds what it found.
LEMMA HeadStays ==
  ASSUME IInv, NEW p \in Procs, Call(p), head' = head
  PROVE  \A m : GetMinorNode(m)' = GetMinorNode(m)
<1>1. ListType /\ DriverInOrder /\ allocated \in Nat
  BY TypesOfList DEF IInv, TypeOK, DriverInOrder
<1>2. ListType'
  <2>1. IInv'
    BY CallStep
  <2> QED BY <2>1, TypesOfListNext DEF IInv, TypeOK
<1>3. /\ allocated <= allocated'
      /\ \A k \in 1 .. allocated : /\ node'[k].next = node[k].next
                                  /\ node'[k].value = node[k].value
  <2>1. allocated' \in allocated .. MaxNodes
    BY <1>1, CallNodes
  <2>2. MaxNodes \in Nat
    BY SizesType
  <2> QED BY <1>1, <2>1, <2>2, CallNodes
<1>4. \A n \in 0 .. allocated : \A m : FirstFrom(n, m)' = FirstFrom(n, m)
  BY <1>1, <1>2, <1>3, OlderFirst
<1> SUFFICES ASSUME NEW m PROVE GetMinorNode(m)' = GetMinorNode(m)
  OBVIOUS
<1>5. ASSUME NEW h, h = head, h \in 0 .. allocated
      PROVE  GetMinorNode(m)' = GetMinorNode(m)
  <2>1. FirstFrom(h, m)' = FirstFrom(h, m)
    BY <1>4, <1>5
  <2>2. GetMinorNode(m)' = FirstFrom(h, m)'
    BY <1>5 DEF GetMinorNode
  <2> QED BY <1>5, <2>1, <2>2 DEF GetMinorNode
<1> QED BY <1>1, <1>5 DEF ListType

\* What a walk finds when p has put its node in front.
LEMMA HeadMoves ==
  ASSUME IInv, NEW p \in Procs, OpenPublish(p)
  PROVE  /\ found[p] \in 1 .. allocated /\ head' = found[p]
         /\ node' = node /\ allocated' = allocated
         /\ \A m : GetMinorNode(m)' = FirstFrom(found[p], m)
<1>1. /\ found[p] \in 1 .. allocated /\ head' = found[p]
      /\ node' = node /\ allocated' = allocated
  <2>1. found[p] \in Nodes /\ found[p] # Null /\ allocated \in Nat
    BY TypesOfList DEF OpenPublish, IInv, TypeOK, CallsTypeOK, CallsInOrder, CallInOrder
  <2> QED BY <2>1 DEF OpenPublish, HeadAfterInsert, Nodes, Null
<1> SUFFICES ASSUME NEW m PROVE GetMinorNode(m)' = FirstFrom(found[p], m)
  BY <1>1
<1>2. ASSUME NEW h, h = found[p]
      PROVE  GetMinorNode(m)' = FirstFrom(found[p], m)
  <2>1. GetMinorNode(m)' = FirstFrom(h, m)'
    BY <1>1, <1>2 DEF GetMinorNode
  <2>2. FirstFrom(h, m)' = FirstFrom(h, m)
    BY <1>1 DEF FirstFrom, Hits, NodesFrom
  <2> QED BY <1>2, <2>1, <2>2
<1> QED BY <1>2

\* While a call of q is served no other process starts or goes on with one.
LEMMA SerialAlone ==
  ASSUME SerialOrder, NEW p \in Procs, Call(p), NEW q \in Procs \ {p}, InCall(q)
  PROVE  OrphanCalls(p) \/ Replaced(p)
<1>1. ~ InCall(p) /\ ~ MayCall(p)
  BY DEF SerialOrder, OneCall, MayCall
<1> QED
  BY <1>1 DEF Call, InCall, Open, OpenExisting, OpenInsert, OpenInsertFails, OpenPublish,
     Ioctl, Release, ReleaseClose, Write, WriteCheck, WriteByte, WriteRefused, WriteLength,
     Read, ReadCheck, ReadRefused, ReadByte, ReadEnd

LEMMA SerialOneCall ==
  ASSUME IInv, SerialOrder, NEW p \in Procs, Call(p)
  PROVE  OneCall'
<1>1. CallsTypeOK /\ \A q \in Procs \ {p} : pc'[q] = pc[q]
  BY CallOthers DEF IInv, TypeOK, Keeps
<1>2. ASSUME NEW q \in Procs \ {p}, InCall(q) PROVE ~ InCall(p)'
  <2>1. OrphanCalls(p) \/ Replaced(p)
    BY <1>2, SerialAlone
  <2> QED BY <1>1, <2>1 DEF OrphanCalls, Replaced, InCall, CallsTypeOK
<1>3. \A q \in Procs \ {p} : InCall(q)' <=> InCall(q)
  BY <1>1 DEF InCall
<1>4. ASSUME NEW q \in Procs, NEW r \in Procs, InCall(q)', InCall(r)' PROVE q = r
  <2>1. CASE q # p /\ r # p
    BY <1>3, <1>4, <2>1 DEF SerialOrder, OneCall
  <2>2. CASE q = p \/ r = p
    BY <1>2, <1>3, <1>4, <2>2
  <2> QED BY <2>1, <2>2
<1> QED BY <1>4 DEF OneCall

\* In a step of p's that no other call is served in, p alone may have a node that
\* is not in the list yet.
LEMMA SerialNoneLost ==
  ASSUME IInv, SerialOrder, NEW p \in Procs, Call(p)
  PROVE  NoNodeLost'
<1>1. /\ allocated \in Nat /\ DriverInOrder /\ CallsTypeOK
      /\ \A q \in Procs \ {p} : pc'[q] = pc[q] /\ found'[q] = found[q]
      /\ \A n \in 1 .. allocated : node[n].next = n - 1
      /\ \/ head = allocated /\ \A q \in Procs : pc[q] # "publish"
         \/ /\ head = allocated - 1
            /\ \E q \in Procs : pc[q] = "publish" /\ found[q] = allocated
  BY TypesOfList, CallOthers
  DEF IInv, TypeOK, DriverInOrder, Keeps, SerialOrder, NoNodeLost
<1>2. \A q, r \in Procs : pc[q] = "publish" /\ pc[r] \in {"openFound", "publish"} => q = r
  BY DEF SerialOrder, OneCall, InCall
<1>3. CASE OpenInsert(p)
  <2>1. /\ allocated' = allocated + 1 /\ node'[allocated + 1].next = head
        /\ \A k \in 1 .. allocated : node'[k] = node[k]
    BY <1>1, <1>3, AddsNode
  <2>2. /\ pc[p] = "openFound" /\ pc'[p] = "publish" /\ found'[p] = allocated + 1
        /\ head' = head
    BY <1>1, <1>3 DEF OpenInsert, CallsTypeOK
  <2>3. head = allocated
    BY <1>1, <1>2, <2>2
  <2>4. ASSUME NEW n \in 1 .. allocated' PROVE node'[n].next = n - 1
    <3>1. CASE n = allocated + 1
      BY <1>1, <2>1, <2>3, <3>1
    <3>2. CASE n # allocated + 1
      <4>1. n \in 1 .. allocated
        BY <1>1, <2>1, <3>2
      <4> QED BY <1>1, <2>1, <4>1
    <3> QED BY <3>1, <3>2
  <2>5. head' = allocated' - 1
    BY <1>1, <2>1, <2>2, <2>3
  <2> QED BY <2>1, <2>2, <2>4, <2>5 DEF NoNodeLost
<1>4. CASE OpenPublish(p)
  <2>1. /\ head' = found[p] /\ node' = node /\ allocated' = allocated
        /\ pc[p] = "publish" /\ pc'[p] = "ready"
    BY <1>1, <1>4 DEF OpenPublish, HeadAfterInsert, Return, CallsTypeOK
  <2>2. found[p] = allocated
    BY <1>1, <1>2, <2>1
  <2>3. \A q \in Procs : pc'[q] # "publish"
    BY <1>1, <1>2, <2>1
  <2> QED BY <1>1, <2>1, <2>2, <2>3 DEF NoNodeLost
<1>5. CASE ~ OpenInsert(p) /\ ~ OpenPublish(p)
  <2>1. /\ allocated' = allocated
        /\ \A k \in 1 .. allocated : node'[k].next = node[k].next
    BY <1>1, <1>5, CallNodes
  <2>2. head' = head
    BY <1>5, HeadOnlyPublished
  <2>3. pc[p] # "publish" /\ pc'[p] # "publish"
    BY <1>1, <1>5 DEF CallsTypeOK, Call, Open, OpenExisting, OpenInsertFails, Return, Ioctl,
      Release, ReleaseClose, Write, WriteCheck, WriteByte, WriteRefused, Oops, WriteLength,
      Read, ReadCheck, ReadRefused, ReadByte, ReadEnd, OrphanCalls, Replaced
  <2>4. \A n \in 1 .. allocated' : node'[n].next = n - 1
    BY <1>1, <2>1
  <2>5. CASE head = allocated /\ \A q \in Procs : pc[q] # "publish"
    <3>1. \A q \in Procs : pc'[q] # "publish"
      BY <1>1, <2>3, <2>5
    <3> QED BY <2>1, <2>2, <2>4, <2>5, <3>1 DEF NoNodeLost
  <2>6. CASE /\ head = allocated - 1
             /\ \E q \in Procs : pc[q] = "publish" /\ found[q] = allocated
    <3>1. \E q \in Procs : pc'[q] = "publish" /\ found'[q] = allocated
      BY <1>1, <2>3, <2>6
    <3> QED BY <2>1, <2>2, <2>4, <2>6, <3>1 DEF NoNodeLost
  <2> QED BY <1>1, <2>5, <2>6
<1> QED BY <1>3, <1>4, <1>5

\* The node that p puts in front hides no other minor's.
LEMMA SerialPublish ==
  ASSUME IInv, SerialOrder, NEW p \in Procs, OpenPublish(p)
  PROVE  /\ found[p] \in 1 .. allocated
         /\ \A m : GetMinorNode(m)' = IF m = minor[p] THEN found[p] ELSE GetMinorNode(m)
<1>1. found[p] \in 1 .. allocated /\ \A m : GetMinorNode(m)' = FirstFrom(found[p], m)
  BY HeadMoves
<1>2. pc[p] = "publish" /\ allocated \in Nat /\ head \in 0 .. allocated /\ ListType
  BY TypesOfList DEF OpenPublish, IInv, TypeOK, ListType
<1>3. found[p] = allocated /\ head = allocated - 1
  <2>1. \A q \in Procs : pc[q] = "publish" => q = p
    BY <1>2 DEF SerialOrder, OneCall, InCall
  <2> QED BY <1>2, <2>1 DEF SerialOrder, NoNodeLost
<1>4. node[found[p]].next = head /\ node[found[p]].value = minor[p]
  <2>1. node[found[p]].next = found[p] - 1
    BY <1>1 DEF SerialOrder, NoNodeLost
  <2>2. node[found[p]].value = minor[p]
    BY <1>1, <1>2 DEF IInv, CallsInOrder, CallInOrder, Null
  <2> QED BY <1>3, <2>1, <2>2
<1>5. ASSUME NEW m
      PROVE  FirstFrom(found[p], m) = IF m = minor[p] THEN found[p] ELSE GetMinorNode(m)
  <2>1. FirstFrom(found[p], m) = IF node[found[p]].value = m THEN found[p]
                                 ELSE FirstFrom(node[found[p]].next, m)
    BY <1>1, <1>2, Walks DEF WalkFacts
  <2> QED BY <1>4, <2>1 DEF GetMinorNode
<1> QED BY <1>1, <1>5

\* A minor that has a node keeps one.
LEMMA SerialKeepsNode ==
  ASSUME IInv, SerialOrder, NEW p \in Procs, Call(p), NEW m, GetMinorNode(m) # Null
  PROVE  GetMinorNode(m)' # Null
<1>1. CASE OpenPublish(p)
  BY <1>1, SerialPublish DEF Null
<1>2. CASE ~ OpenPublish(p)
  BY <1>2, HeadOnlyPublished, HeadStays
<1> QED BY <1>1, <1>2

\* The files of others.
LEMMA SerialOtherFile ==
  ASSUME IInv, SerialOrder, NEW p \in Procs, Call(p), NEW q \in Procs \ {p}
  PROVE  SerialFile(q)' /\ SerialBytes(q)'
<1>1. Keeps(q) /\ SerialFile(q) /\ SerialBytes(q)
  BY CallOthers DEF IInv, TypeOK, SerialOrder
<1>2. ASSUME NEW m, m = minor[q], GetMinorNode(m) # Null
      PROVE  GetMinorNode(minor[q])' # Null
  <2>1. GetMinorNode(m)' # Null
    BY <1>2, SerialKeepsNode
  <2>2. minor'[q] = m
    BY <1>1, <1>2 DEF Keeps
  <2> QED BY <2>1, <2>2
<1>3. pc[q] = "ready" => GetMinorNode(minor[q])' # Null
  BY <1>1, <1>2 DEF SerialFile
<1>4. CASE InCall(q)
  <2>1. OrphanCalls(p) \/ Replaced(p)
    BY <1>4, SerialAlone
  <2>2. UNCHANGED <<head, allocated, node>>
    BY <2>1 DEF OrphanCalls, Replaced, device
  <2>3. ASSUME NEW m, m = minor[q]
        PROVE  GetMinorNode(minor[q])' = GetMinorNode(minor[q])
    <3>1. GetMinorNode(m)' = GetMinorNode(m)
      BY <2>2 DEF GetMinorNode, FirstFrom, Hits, NodesFrom
    <3>2. minor'[q] = m
      BY <1>1, <2>3 DEF Keeps
    <3> QED BY <2>3, <3>1, <3>2
  <2>4. SerialFile(q)'
    BY <1>1, <2>2, <2>3 DEF SerialFile, Keeps, InCall
  <2>5. SerialBytes(q)'
    BY <1>1, <2>2 DEF SerialBytes, Keeps, LengthNow
  <2> QED BY <2>4, <2>5
<1>5. CASE ~ InCall(q)
  BY <1>1, <1>3, <1>5 DEF SerialFile, SerialBytes, InCall, Keeps
<1> QED BY <1>4, <1>5

\* The file of the process whose call goes on.
LEMMA SerialOwnFile ==
  ASSUME IInv, SerialOrder, NEW p \in Procs, Call(p)
  PROVE  SerialFile(p)'
<1>1. CallsTypeOK /\ SerialFile(p) /\ DriverInOrder /\ allocated \in Nat
  BY TypesOfList DEF SerialOrder, IInv, TypeOK, DriverInOrder
<1>2. ASSUME NEW x, GetMinorNode(x)' # Null, minor'[p] = x, pc'[p] = "ready"
      PROVE  SerialFile(p)'
  <2>1. GetMinorNode(minor[p])' # Null
    BY <1>2
  <2> QED BY <1>2, <2>1 DEF SerialFile, InCall
<1>3. ASSUME head' = head, NEW x, minor'[p] = x, found'[p] = GetMinorNode(x),
             pc'[p] \in {"openFound", "writeFound", "writing", "readFound", "reading",
                         "releaseFound"},
             pc'[p] # "openFound" => GetMinorNode(x) # Null
      PROVE  SerialFile(p)'
  <2>1. GetMinorNode(minor[p])' = GetMinorNode(x)
    <3>1. GetMinorNode(x)' = GetMinorNode(x)
      BY <1>3, HeadStays
    <3> QED BY <1>3, <3>1
  <2> QED BY <1>3, <2>1 DEF SerialFile, InCall
<1>4. ASSUME NEW x \in Minors, Open(p, x) PROVE SerialFile(p)'
  <2>1. /\ head' = head /\ minor'[p] = x /\ found'[p] = GetMinorNode(x)
        /\ pc'[p] = "openFound"
    BY <1>1, <1>4 DEF Open, device, CallsTypeOK
  <2> QED BY <1>3, <2>1
<1>5. ASSUME pc[p] \in {"openFound", "ready", "writeFound", "writing", "readFound", "reading"},
             pc[p] = "openFound" => found[p] # Null,
             pc'[p] = "ready", minor'[p] = minor[p]
      PROVE  SerialFile(p)'
  <2>1. GetMinorNode(minor[p]) # Null
    BY <1>1, <1>5 DEF SerialFile, InCall
  <2>2. ASSUME NEW x, x = minor[p] PROVE SerialFile(p)'
    <3>1. GetMinorNode(x)' # Null
      BY <2>1, <2>2, SerialKeepsNode
    <3> QED BY <1>2, <1>5, <2>2, <3>1
  <2> QED BY <2>2
<1>6. ASSUME pc[p] \in {"ready", "writeFound", "writing", "readFound", "reading"}, head' = head,
             found'[p] = GetMinorNode(minor[p]), minor'[p] = minor[p],
             pc'[p] \in {"writeFound", "writing", "readFound", "reading", "releaseFound"}
      PROVE  SerialFile(p)'
  <2>1. GetMinorNode(minor[p]) # Null
    BY <1>1, <1>6 DEF SerialFile
  <2>2. ASSUME NEW x, x = minor[p] PROVE SerialFile(p)'
    BY <1>3, <1>6, <2>1, <2>2
  <2> QED BY <2>2
<1>7. ASSUME pc[p] \in {"writeFound", "writing", "readFound", "reading"}, head' = head,
             found'[p] = found[p], minor'[p] = minor[p],
             pc'[p] \in {"writing", "reading"}
      PROVE  SerialFile(p)'
  <2>1. found[p] = GetMinorNode(minor[p])
    BY <1>1, <1>7 DEF SerialFile, InCall
  <2> QED BY <1>6, <1>7, <2>1
<1>8. CASE OpenExisting(p)
  BY <1>1, <1>5, <1>8 DEF OpenExisting, Return, CallsTypeOK
<1>9. CASE OpenInsert(p)
  <2>1. /\ pc[p] = "openFound" /\ pc'[p] = "publish" /\ found'[p] = allocated + 1
        /\ minor'[p] = minor[p] /\ head' = head /\ found[p] = Null
    BY <1>1, <1>9 DEF OpenInsert, CallsTypeOK
  <2>2. /\ node'[allocated + 1].open
        /\ \A c \in Channels : node'[allocated + 1].length[c] = 0
    BY <1>1, <1>9, AddsNode
  <2>3. ASSUME NEW x, x = minor[p] PROVE GetMinorNode(minor[p])' = Null
    <3>1. GetMinorNode(x)' = Null
      BY <1>1, <2>1, <2>3, HeadStays DEF SerialFile, InCall
    <3> QED BY <2>1, <2>3, <3>1
  <2> QED BY <2>1, <2>2, <2>3 DEF SerialFile, InCall
<1>10. CASE OpenPublish(p)
  <2>1. pc'[p] = "ready" /\ minor'[p] = minor[p]
    BY <1>1, <1>10 DEF OpenPublish, Return, CallsTypeOK
  <2>2. ASSUME NEW x, x = minor[p] PROVE SerialFile(p)'
    <3>1. GetMinorNode(x)' # Null
      BY <1>10, <2>2, SerialPublish DEF Null
    <3> QED BY <1>2, <2>1, <2>2, <3>1
  <2> QED BY <2>2
<1>11. ASSUME NEW c \in Params, Ioctl(p, c) PROVE SerialFile(p)'
  BY <1>1, <1>5, <1>11 DEF Ioctl, Return, CallsTypeOK
<1>12. CASE Release(p)
  <2>1. pc[p] # "oops"
    BY <1>1 DEF SerialFile
  <2> QED BY <1>1, <1>6, <1>12, <2>1 DEF Release, CallsTypeOK, device
<1>13. ASSUME NEW x \in Messages, Write(p, x) PROVE SerialFile(p)'
  <2>1. CASE Writable(p, x)
    <3>1. /\ pc[p] = "ready" /\ pc'[p] = "writeFound" /\ head' = head
          /\ found'[p] = GetMinorNode(minor[p]) /\ minor'[p] = minor[p]
      BY <1>1, <1>13, <2>1 DEF Write, CallsTypeOK, device
    <3> QED BY <1>6, <3>1
  <2>2. CASE ~ Writable(p, x)
    BY <1>1, <1>5, <1>13, <2>2 DEF Write, Return, CallsTypeOK
  <2> QED BY <2>1, <2>2
<1>14. ASSUME NEW x \in ReadSizes, Read(p, x) PROVE SerialFile(p)'
  <2>1. CASE channel[p] # NoChannel
    <3>1. /\ pc[p] = "ready" /\ pc'[p] = "readFound" /\ head' = head
          /\ found'[p] = GetMinorNode(minor[p]) /\ minor'[p] = minor[p]
      BY <1>1, <1>14, <2>1 DEF Read, CallsTypeOK, device
    <3> QED BY <1>6, <3>1
  <2>2. CASE channel[p] = NoChannel
    BY <1>1, <1>5, <1>14, <2>2 DEF Read, Return, CallsTypeOK
  <2> QED BY <2>1, <2>2
<1>15. CASE WriteRefused(p) \/ ReadRefused(p)
  <2>1. found[p] # Null
    BY <1>1, <1>15 DEF SerialFile, InCall, WriteRefused, ReadRefused
  <2> QED BY <1>1, <1>5, <1>15, <2>1 DEF WriteRefused, ReadRefused, Return, CallsTypeOK
<1>16. CASE WriteCheck(p) \/ WriteByte(p) \/ ReadCheck(p) \/ ReadByte(p)
  BY <1>1, <1>7, <1>16 DEF WriteCheck, WriteByte, ReadCheck, ReadByte, CallsTypeOK, device
<1>17. CASE WriteLength(p) \/ ReadEnd(p)
  BY <1>1, <1>5, <1>17 DEF WriteLength, ReadEnd, Return, CallsTypeOK
<1>18. CASE OpenInsertFails(p) \/ ReleaseClose(p) \/ OrphanCalls(p) \/ Replaced(p)
  <2>1. pc'[p] \in {"closed", "crashed"}
    BY <1>1, <1>18 DEF OpenInsertFails, ReleaseClose, OrphanCalls, Replaced, CallsTypeOK
  <2> QED BY <2>1 DEF SerialFile, InCall
<1> QED BY <1>4, <1>8, <1>9, <1>10, <1>11, <1>12, <1>13, <1>14, <1>15, <1>16, <1>17, <1>18,
           Zenon DEF Call

LEMMA SerialOwnBytes ==
  ASSUME IInv, SerialOrder, NEW p \in Procs, Call(p)
  PROVE  SerialBytes(p)'
<1>1. /\ CallsTypeOK /\ SerialBytes(p) /\ DriverInOrder /\ allocated \in Nat
      /\ BufLen \in Nat /\ Lengths = 0 .. BufLen
  BY TypesOfList, SizesType DEF SerialOrder, IInv, TypeOK, DriverInOrder
<1>2. CASE WriteCheck(p)
  <2>1. pc'[p] = "writing" /\ i'[p] = 0
    BY <1>1, <1>2 DEF WriteCheck, CallsTypeOK
  <2> QED BY <2>1 DEF SerialBytes
<1>3. CASE WriteByte(p)
  <2>1. /\ pc[p] = "writing" /\ pc'[p] = "writing" /\ i'[p] = i[p] + 1 /\ i[p] \in 0 .. BufLen
        /\ found'[p] = found[p] /\ minor'[p] = minor[p] /\ channel'[p] = channel[p]
        /\ arg'[p] = arg[p]
    BY <1>1, <1>3 DEF WriteByte, CallsTypeOK
  <2> DEFINE n == found[p]  c == channel[p]
  <2>2. /\ node'[n].cell[c][i[p] + 1] = <<arg[p], minor[p], c>>
        /\ \A j \in (1 .. BufLen) \ {i[p] + 1} : node'[n].cell[c][j] = node[n].cell[c][j]
    BY <1>1, <1>3, StoresByte
  <2> HIDE DEF n, c
  <2>3. ASSUME NEW j \in 1 .. i[p] + 1 PROVE node'[n].cell[c][j] = <<arg[p], minor[p], c>>
    <3>1. CASE j = i[p] + 1
      BY <2>2, <3>1
    <3>2. CASE j # i[p] + 1
      <4>1. j \in 1 .. i[p] /\ j \in (1 .. BufLen) \ {i[p] + 1}
        BY <1>1, <2>1, <3>2
      <4>2. node[n].cell[c][j] = <<arg[p], minor[p], c>>
        BY <1>1, <2>1, <4>1 DEF SerialBytes, n, c
      <4> QED BY <2>2, <4>1, <4>2
    <3> QED BY <3>1, <3>2
  <2> QED BY <2>1, <2>3 DEF SerialBytes, n, c
<1>4. CASE ReadCheck(p)
  <2>1. /\ pc'[p] = "reading" /\ i'[p] = 0 /\ limit'[p] = LengthNow(p)
        /\ found'[p] = found[p] /\ channel'[p] = channel[p] /\ node' = node
        /\ found[p] \in 1 .. allocated
    BY <1>1, <1>4 DEF ReadCheck, CallsTypeOK, device, Nodes, Null
  <2>2. LengthNow(p)' = LengthNow(p)
    BY <2>1 DEF LengthNow
  <2>3. LengthNow(p) >= 0
    <3>1. channel[p] \in Channels
      BY <1>1, <1>4 DEF ReadCheck, DriverInOrder, CallsInOrder, CallInOrder
    <3>2. node \in [1 .. allocated -> NodeType]
      BY <1>1 DEF DriverInOrder, DeviceTypeOK
    <3>3. LengthNow(p) \in Lengths
      BY <2>1, <3>1, <3>2 DEF LengthNow, NodeType
    <3> QED BY <1>1, <3>3
  <2> QED BY <2>1, <2>2, <2>3 DEF SerialBytes
<1>5. CASE ReadByte(p)
  <2> DEFINE n == found[p]  c == channel[p]
  <2>1. /\ pc[p] = "reading" /\ pc'[p] = "reading" /\ i'[p] = i[p] + 1 /\ i[p] \in 0 .. BufLen
        /\ found'[p] = found[p] /\ channel'[p] = channel[p] /\ node' = node
        /\ got'[p] = Append(got[p], node[n].cell[c][i[p] + 1])
    BY <1>1, <1>5 DEF ReadByte, CallsTypeOK, device
  <2>2. /\ limit[p] = LengthNow(p) /\ i[p] <= limit[p]
        /\ \A k \in 1 .. i[p] : got[p][k] = node[n].cell[c][k]
        /\ got[p] \in Seq(Bytes) /\ Len(got[p]) = i[p] /\ limit[p] \in 0 .. BufLen
    BY <1>1, <2>1 DEF SerialBytes, DriverInOrder, CallsInOrder, CallInOrder, CallsTypeOK
  <2>3. i[p] < limit[p] /\ limit'[p] = limit[p]
    BY <1>1, <1>5, <2>2 DEF ReadByte, LimitMayBe, CallsTypeOK
  <2>4. LengthNow(p)' = LengthNow(p)
    BY <2>1 DEF LengthNow
  <2> DEFINE b == node[n].cell[c][i[p] + 1]
  <2>5. got'[p][i[p] + 1] = b /\ \A k \in 1 .. i[p] : got'[p][k] = got[p][k]
    <3>1. got'[p] = Append(got[p], b)
      BY <2>1
    <3> HIDE DEF b
    <3> QED BY <2>2, <3>1
  <2>6. ASSUME NEW k \in 1 .. i[p] + 1 PROVE got'[p][k] = node[n].cell[c][k]
    <3>1. CASE k = i[p] + 1
      BY <2>5, <3>1
    <3>2. CASE k # i[p] + 1
      <4>1. k \in 1 .. i[p]
        BY <2>1, <3>2
      <4> QED BY <2>2, <2>5, <4>1
    <3> QED BY <3>1, <3>2
  <2>7. i[p] + 1 <= limit[p]
    BY <2>1, <2>2, <2>3
  <2> QED BY <2>1, <2>2, <2>3, <2>4, <2>6, <2>7 DEF SerialBytes
<1>6. CASE ~ (WriteCheck(p) \/ WriteByte(p) \/ ReadCheck(p) \/ ReadByte(p))
  <2>1. pc'[p] \notin {"writing", "reading"}
    BY <1>1, <1>6 DEF CallsTypeOK, Call, Open, OpenExisting, OpenInsert, OpenInsertFails,
      OpenPublish, Return, Ioctl, Release, ReleaseClose, Write, WriteRefused, Oops,
      WriteLength, Read, ReadRefused, ReadEnd, OrphanCalls, Replaced
  <2> QED BY <2>1 DEF SerialBytes
<1> QED BY <1>2, <1>3, <1>4, <1>5, <1>6

LEMMA SerialStep ==
  ASSUME IInv, SerialOrder, [Next]_vars
  PROVE  SerialOrder'
<1>1. ASSUME NEW p \in Procs, Call(p) PROVE SerialOrder'
  <2>1. OneCall' /\ NoNodeLost'
    BY <1>1, SerialOneCall, SerialNoneLost
  <2>2. \A q \in Procs : SerialFile(q)' /\ SerialBytes(q)'
    BY <1>1, SerialOtherFile, SerialOwnFile, SerialOwnBytes
  <2> QED BY <2>1, <2>2 DEF SerialOrder
<1>2. CASE Unload
  <2>1. /\ allocated' = 0 /\ head' = 0
        /\ \A p \in Procs : pc'[p] \in {"closed", "orphan", "crashed"}
    BY <1>2, UnloadPlaces DEF Unload, CleanList, Null
  <2>2. OneCall' /\ NoNodeLost'
    BY <2>1 DEF OneCall, InCall, NoNodeLost
  <2>3. \A p \in Procs : SerialFile(p)' /\ SerialBytes(p)'
    BY <2>1 DEF SerialFile, SerialBytes, InCall
  <2> QED BY <2>2, <2>3 DEF SerialOrder
<1>3. CASE Load
  <2>1. /\ allocated' = 0 /\ head' = 0
        /\ \A p \in Procs : pc'[p] \in {"closed", "orphan", "crashed"}
    BY <1>3 DEF Load, IInv, ListInOrder, Null
  <2>2. OneCall' /\ NoNodeLost'
    BY <2>1 DEF OneCall, InCall, NoNodeLost
  <2>3. \A p \in Procs : SerialFile(p)' /\ SerialBytes(p)'
    BY <2>1 DEF SerialFile, SerialBytes, InCall
  <2> QED BY <2>2, <2>3 DEF SerialOrder
<1>4. CASE UNCHANGED vars
  <2> USE <1>4 DEF vars, device
  <2>1. OneCall' /\ NoNodeLost'
    BY DEF SerialOrder, OneCall, InCall, NoNodeLost
  <2>2. ASSUME NEW p \in Procs PROVE SerialFile(p)' /\ SerialBytes(p)'
    <3>1. SerialFile(p) /\ SerialBytes(p)
      BY DEF SerialOrder
    <3>2. SerialBytes(p)'
      BY <3>1 DEF SerialBytes, LengthNow
    <3>3. ASSUME NEW m, m = minor[p]
          PROVE  GetMinorNode(minor[p])' = GetMinorNode(minor[p])
      <4>1. GetMinorNode(m)' = GetMinorNode(m)
        BY DEF GetMinorNode, FirstFrom, Hits, NodesFrom
      <4> QED BY <3>3, <4>1
    <3>4. SerialFile(p)'
      BY <3>1, <3>3 DEF SerialFile, InCall
    <3> QED BY <3>2, <3>4
  <2> QED BY <2>1, <2>2 DEF SerialOrder
<1> QED BY <1>1, <1>2, <1>3, <1>4 DEF Next

\* The invariant of calls that do not overlap.
THEOREM SerialInvariance ==
  ASSUME Serial
  PROVE  Spec => [](IInv /\ SerialOrder)
<1>1. Init => IInv /\ SerialOrder
  <2> SUFFICES ASSUME Init PROVE IInv /\ SerialOrder
    OBVIOUS
  <2>1. /\ allocated = 0 /\ head = 0 /\ \A p \in Procs : pc[p] = "closed"
    BY DEF Init, Null
  <2>2. OneCall /\ NoNodeLost
    BY <2>1 DEF OneCall, InCall, NoNodeLost
  <2>3. \A p \in Procs : SerialFile(p) /\ SerialBytes(p)
    BY <2>1 DEF SerialFile, SerialBytes, InCall
  <2> QED BY <2>2, <2>3, InitInv DEF SerialOrder
<1>2. IInv /\ SerialOrder /\ [Next]_vars => (IInv /\ SerialOrder)'
  BY SerialStep, CallStep, UnloadStep, LoadStep, StutterStep DEF Next
<1> QED BY <1>1, <1>2, PTL DEF Spec

\* The list, the files and the bytes stay in order while calls do not overlap.
THEOREM SerialCorrect == Spec => []SerialInv
<1>1. CASE Serial
  <2>1. IInv /\ SerialOrder => SerialInv
    BY DEF SerialOrder, SerialInv
  <2> QED BY <1>1, <2>1, SerialInvariance, PTL
<1>2. CASE ~ Serial
  <2>1. IInv => SerialInv
    BY <1>2 DEF SerialInv
  <2> QED BY <2>1, Invariance, PTL
<1> QED BY <1>1, <1>2

\* Calls that do not overlap find a node for the minor of every open file: none
\* dereferences a null pointer (device_read, device_write).
THEOREM NoneOopses ==
  ASSUME Serial
  PROVE  Spec => []NoOops
<1>1. IInv /\ SerialOrder => NoOops
  BY DEF SerialOrder, SerialFile, NoOops
<1> QED BY <1>1, SerialInvariance, PTL

(***************************************************************************)
(* Calls that do not overlap implement a register for each channel.        *)
(***************************************************************************)

LEMMA CallFlags ==
  ASSUME DriverInOrder, NEW p \in Procs, Call(p), NEW n \in 1 .. allocated
  PROVE  OpenStep(p, n)
<1>1. ASSUME node'[n].open = node[n].open PROVE OpenStep(p, n)
  BY <1>1 DEF OpenStep
<1>2. CASE OpenExisting(p)
  <2>1. node'[found[p]].open = TRUE /\ (n # found[p] => node'[n] = node[n])
    BY <1>2, OpensNode
  <2> QED BY <1>2, <2>1 DEF OpenStep
<1>3. CASE ReleaseClose(p) /\ found[p] # Null
  <2>1. node'[found[p]].open = FALSE /\ (n # found[p] => node'[n] = node[n])
    BY <1>3, ClosesNode
  <2> QED BY <1>3, <2>1 DEF OpenStep
<1>4. CASE OpenInsert(p)
  <2>1. node'[n] = node[n]
    BY <1>4, AddsNode
  <2> QED BY <1>1, <2>1
<1>5. CASE WriteByte(p)
  <2>1. node'[n].open = node[n].open
    BY <1>5, StoresByte
  <2> QED BY <1>1, <2>1
<1>6. CASE WriteLength(p)
  <2>1. node'[n].open = node[n].open
    BY <1>6, StoresLength
  <2> QED BY <1>1, <2>1
<1>7. CASE NodesStay
  BY <1>1, <1>7 DEF NodesStay
<1> QED BY <1>2, <1>3, <1>4, <1>5, <1>6, <1>7, OtherSteps

\* A step that stores nothing in channel c of the first node of minor m leaves the
\* channel's text as it is.
LEMMA TextElsewhere ==
  ASSUME IInv, NEW p \in Procs, Call(p), head' = head, NEW m, NEW c \in Channels,
         WriteByte(p) \/ WriteLength(p) => m # minor[p] \/ c # channel[p]
  PROVE  Text(m, c)' = Text(m, c)
<1> DEFINE g == GetMinorNode(m)
<1>1. /\ DriverInOrder /\ allocated \in Nat /\ g \in 0 .. allocated
      /\ g # Null => node[g].value = m
  BY TypesOfList DEF IInv, TypeOK, DriverInOrder, Nodes
<1>2. GetMinorNode(m)' = g
  BY HeadStays
<1> HIDE DEF g
<1>3. CASE g = Null
  BY <1>2, <1>3 DEF Text, g
<1>4. CASE g # Null
  <2>1. g \in 1 .. allocated /\ node[g].value = m
    BY <1>1, <1>4 DEF Null
  <2>2. CellStep(p, g, c)
    BY <1>1, <2>1, CallCells
  <2>3. ~ (WriteByte(p) /\ g = found[p] /\ c = channel[p])
        /\ ~ (WriteLength(p) /\ g = found[p] /\ c = channel[p])
    <3>1. g = found[p] => m = minor[p]
      BY <1>1, <1>4, <2>1 DEF DriverInOrder, CallsInOrder, CallInOrder
    <3> QED BY <3>1
  <2>4. \A k \in 1 .. BufLen : node'[g].cell[c][k] = node[g].cell[c][k]
    BY <2>2, <2>3 DEF CellStep, ByteStep
  <2>5. node'[g].length[c] = node[g].length[c]
    BY <2>2, <2>3 DEF CellStep, LengthStep
  <2>6. node'[g].cell[c] = node[g].cell[c]
    <3>1. node[g] \in NodeType /\ node'[g] \in NodeType
      <4>1. node \in [1 .. allocated -> NodeType] /\ node' \in [1 .. allocated' -> NodeType]
        BY <1>1, CallNodes DEF DriverInOrder, DeviceTypeOK
      <4>2. g \in 1 .. allocated'
        <5>1. allocated' \in allocated .. MaxNodes /\ MaxNodes \in Nat
          BY <1>1, CallNodes, SizesType
        <5> QED BY <1>1, <2>1, <5>1
      <4> QED BY <2>1, <4>1, <4>2
    <3>2. /\ node[g].cell[c] \in [1 .. BufLen -> Bytes]
          /\ node'[g].cell[c] \in [1 .. BufLen -> Bytes]
      <4>1. /\ node[g].cell \in [Channels -> [1 .. BufLen -> Bytes]]
            /\ node'[g].cell \in [Channels -> [1 .. BufLen -> Bytes]]
        BY <3>1 DEF NodeType
      <4> QED BY <4>1
    <3> DEFINE f == node[g].cell[c]  h == node'[g].cell[c]  D == 1 .. BufLen
    <3>3. f \in [D -> Bytes] /\ h \in [D -> Bytes]
      BY <3>2
    <3>4. \A k \in D : f[k] = h[k]
      BY <2>4
    <3> HIDE DEF f, h, D
    <3>5. f = h
      BY <3>3, <3>4
    <3> QED BY <3>5 DEF f, h
  <2> QED BY <1>2, <1>4, <2>5, <2>6 DEF Text, g
<1> QED BY <1>3, <1>4

\* No process but p is served.
Alone(p) == \A q \in Procs \ {p} : ~ InCall(q)

LEMMA TextsAlone ==
  \A p \in Procs : Alone(p) =>
    texts = [m \in Minors |-> [c \in Channels |->
               IF pc[p] = "writing" /\ m = minor[p] /\ c = channel[p]
               THEN Whole(p) ELSE Text(m, c)]]
<1> SUFFICES ASSUME NEW p \in Procs, Alone(p)
             PROVE  texts = [m \in Minors |-> [c \in Channels |->
                               IF pc[p] = "writing" /\ m = minor[p] /\ c = channel[p]
                               THEN Whole(p) ELSE Text(m, c)]]
  OBVIOUS
<1>1. \A m, c : Writing(m, c) = IF pc[p] = "writing" /\ m = minor[p] /\ c = channel[p]
                                THEN {p} ELSE {}
  BY DEF Writing, Alone, InCall
<1>2. ASSUME NEW m \in Minors, NEW c \in Channels
      PROVE  (IF Writing(m, c) = {} THEN Text(m, c)
                                    ELSE Whole(CHOOSE q \in Writing(m, c) : TRUE))
             = IF pc[p] = "writing" /\ m = minor[p] /\ c = channel[p]
               THEN Whole(p) ELSE Text(m, c)
  <2>1. CASE pc[p] = "writing" /\ m = minor[p] /\ c = channel[p]
    <3>1. Writing(m, c) = {p}
      BY <1>1, <2>1
    <3>2. (CHOOSE q \in Writing(m, c) : TRUE) = p
      BY <3>1
    <3> QED BY <2>1, <3>1, <3>2
  <2>2. CASE ~ (pc[p] = "writing" /\ m = minor[p] /\ c = channel[p])
    BY <1>1, <2>2
  <2> QED BY <2>1, <2>2
<1> QED BY <1>2 DEF texts

LEMMA TextsAloneNext ==
  (\A p \in Procs : Alone(p) =>
    texts = [m \in Minors |-> [c \in Channels |->
               IF pc[p] = "writing" /\ m = minor[p] /\ c = channel[p]
               THEN Whole(p) ELSE Text(m, c)]])'
  BY TextsAlone, PTL

\* What the register has for a process.
FileOf(p) ==
  IF pc[p] \in {"closed", "openFound", "publish", "orphan", "crashed"}
  THEN << >> ELSE <<minor[p], channel[p]>>
BufferOf(p) == IF pc[p] = "reading" THEN Text(minor[p], channel[p]) ELSE got[p]
ResultOf(p) ==
  CASE pc[p] = "writing" -> Stored(arg[p])
    [] pc[p] = "reading" -> Len(Text(minor[p], channel[p]))
    [] OTHER -> result[p]

LEMMA Mapped ==
  /\ files = [p \in Procs |-> FileOf(p)]
  /\ buffers = [p \in Procs |-> BufferOf(p)]
  /\ results = [p \in Procs |-> ResultOf(p)]
  BY DEF files, buffers, results, FileOf, BufferOf, ResultOf

LEMMA MappedNext ==
  /\ files' = [p \in Procs |-> FileOf(p)']
  /\ buffers' = [p \in Procs |-> BufferOf(p)']
  /\ results' = [p \in Procs |-> ResultOf(p)']
  BY DEF files, buffers, results, FileOf, BufferOf, ResultOf

LEMMA OthersMapped ==
  ASSUME CallsTypeOK, NEW p \in Procs, Call(p), Alone(p), NEW q \in Procs \ {p}
  PROVE  FileOf(q)' = FileOf(q) /\ BufferOf(q)' = BufferOf(q) /\ ResultOf(q)' = ResultOf(q)
<1>1. Keeps(q) /\ pc[q] \notin {"reading", "writing"}
  BY CallOthers DEF Alone, InCall
<1> QED BY <1>1 DEF Keeps, FileOf, BufferOf, ResultOf

\* A step of p changes what the register has for p only.
LEMMA RegisterOwn ==
  ASSUME CallsTypeOK, NEW p \in Procs, Call(p), Alone(p)
  PROVE  /\ files' = [files EXCEPT ![p] = FileOf(p)']
         /\ buffers' = [buffers EXCEPT ![p] = BufferOf(p)']
         /\ results' = [results EXCEPT ![p] = ResultOf(p)']
         /\ files[p] = FileOf(p) /\ buffers[p] = BufferOf(p) /\ results[p] = ResultOf(p)
         /\ FileOf(p)' = FileOf(p) => files' = files
         /\ BufferOf(p)' = BufferOf(p) => buffers' = buffers
<1>1. \A q \in Procs \ {p} :
        FileOf(q)' = FileOf(q) /\ BufferOf(q)' = BufferOf(q) /\ ResultOf(q)' = ResultOf(q)
  BY OthersMapped
<1>2. files' = [files EXCEPT ![p] = FileOf(p)']
  BY <1>1, Mapped, MappedNext
<1>3. buffers' = [buffers EXCEPT ![p] = BufferOf(p)']
  BY <1>1, Mapped, MappedNext
<1>4. results' = [results EXCEPT ![p] = ResultOf(p)']
  BY <1>1, Mapped, MappedNext
<1>5. /\ FileOf(p)' = FileOf(p) => files' = files
      /\ BufferOf(p)' = BufferOf(p) => buffers' = buffers
  BY <1>1, Mapped, MappedNext
<1> QED BY <1>2, <1>3, <1>4, <1>5, Mapped

LEMMA RegisterStutters ==
  ASSUME CallsTypeOK, NEW p \in Procs, Call(p), Alone(p),
         FileOf(p)' = FileOf(p), BufferOf(p)' = BufferOf(p), ResultOf(p)' = ResultOf(p),
         liveMinors' = liveMinors, texts' = texts
  PROVE  UNCHANGED Register!vars
<1>1. \A q \in Procs :
        FileOf(q)' = FileOf(q) /\ BufferOf(q)' = BufferOf(q) /\ ResultOf(q)' = ResultOf(q)
  BY OthersMapped
<1>2. files' = files /\ buffers' = buffers /\ results' = results
  BY <1>1, Mapped, MappedNext
<1> QED BY <1>2 DEF Register!vars

\* The minors that are live change with a flag or the head of the list.
LEMMA LiveStays ==
  ASSUME IInv, NEW p \in Procs, Call(p), head' = head, ~ OpenExisting(p), ~ ReleaseClose(p)
  PROVE  liveMinors' = liveMinors
<1>1. DriverInOrder /\ allocated \in Nat /\ \A m : GetMinorNode(m) \in 0 .. allocated
  BY TypesOfList DEF IInv, TypeOK, DriverInOrder, Nodes
<1>2. ASSUME NEW m \in Minors, GetMinorNode(m) # Null
      PROVE  node'[GetMinorNode(m)].open = node[GetMinorNode(m)].open
  <2>1. GetMinorNode(m) \in 1 .. allocated
    BY <1>1, <1>2 DEF Null
  <2> QED BY <1>1, <2>1, CallFlags DEF OpenStep
<1>3. \A m : GetMinorNode(m)' = GetMinorNode(m)
  BY HeadStays
<1> QED BY <1>2, <1>3 DEF liveMinors

\* The text of a minor that has a node.
LEMMA TextOfNode ==
  ASSUME IInv, NEW m, NEW c \in Channels, GetMinorNode(m) # Null
  PROVE  LET n == GetMinorNode(m) IN
         /\ Text(m, c) \in Seq(Bytes)
         /\ Len(Text(m, c)) = node[n].length[c]
         /\ \A k \in 1 .. node[n].length[c] : Text(m, c)[k] = node[n].cell[c][k]
<1> DEFINE n == GetMinorNode(m)
<1>1. n \in 1 .. allocated /\ node \in [1 .. allocated -> NodeType]
  <2>1. n \in 0 .. allocated /\ allocated \in Nat
    BY TypesOfList DEF IInv, TypeOK, Nodes
  <2> QED BY <2>1 DEF IInv, TypeOK, DeviceTypeOK, Null
<1> HIDE DEF n
<1>2. node[n] \in NodeType
  BY <1>1
<1>3. node[n].length[c] \in Lengths /\ node[n].cell \in [Channels -> [1 .. BufLen -> Bytes]]
  BY <1>2 DEF NodeType
<1> DEFINE s == node[n].cell[c]  l == node[n].length[c]
<1>4. s \in [1 .. BufLen -> Bytes] /\ l \in 0 .. BufLen /\ BufLen \in Nat
  BY <1>3, SizesType
<1>5. Text(m, c) = SubSeq(s, 1, l)
  BY DEF Text, n
<1> HIDE DEF s, l
<1>6. s \in Seq(Bytes) /\ Len(s) = BufLen
  BY <1>4
<1>7. /\ SubSeq(s, 1, l) \in Seq(Bytes) /\ Len(SubSeq(s, 1, l)) = l
      /\ \A k \in 1 .. l : SubSeq(s, 1, l)[k] = s[k]
  BY <1>4, <1>6
<1> QED BY <1>5, <1>7 DEF s, l, n

LEMMA TextOfNodeNext ==
  (IInv => \A m : \A c \in Channels : GetMinorNode(m) # Null =>
     /\ Text(m, c) \in Seq(Bytes)
     /\ Len(Text(m, c)) = node[GetMinorNode(m)].length[c]
     /\ \A k \in 1 .. node[GetMinorNode(m)].length[c] :
          Text(m, c)[k] = node[GetMinorNode(m)].cell[c][k])'
<1>1. IInv => \A m : \A c \in Channels : GetMinorNode(m) # Null =>
        /\ Text(m, c) \in Seq(Bytes)
        /\ Len(Text(m, c)) = node[GetMinorNode(m)].length[c]
        /\ \A k \in 1 .. node[GetMinorNode(m)].length[c] :
             Text(m, c)[k] = node[GetMinorNode(m)].cell[c][k]
  BY TextOfNode
<1> QED BY <1>1, PTL

LEMMA StaysAlone ==
  ASSUME CallsTypeOK, NEW p \in Procs, Call(p), Alone(p)
  PROVE  Alone(p)'
<1>1. \A q \in Procs \ {p} : pc'[q] = pc[q]
  BY CallOthers DEF Keeps
<1> QED BY <1>1 DEF Alone, InCall

\* The texts before and after a step of the only process that is served.
LEMMA TextsBoth ==
  ASSUME CallsTypeOK, NEW p \in Procs, Call(p), Alone(p)
  PROVE  /\ texts = [m \in Minors |-> [c \in Channels |->
                       IF pc[p] = "writing" /\ m = minor[p] /\ c = channel[p]
                       THEN Whole(p) ELSE Text(m, c)]]
         /\ texts' = [m \in Minors |-> [c \in Channels |->
                        IF pc'[p] = "writing" /\ m = minor'[p] /\ c = channel'[p]
                        THEN Whole(p)' ELSE Text(m, c)']]
<1>1. Alone(p)'
  BY StaysAlone
<1> QED BY <1>1, TextsAlone, TextsAloneNext

LEMMA TextsStay ==
  ASSUME IInv, NEW p \in Procs, Call(p), Alone(p), head' = head,
         pc[p] # "writing", pc'[p] # "writing"
  PROVE  texts' = texts
<1>1. ~ WriteByte(p) /\ ~ WriteLength(p) /\ CallsTypeOK
  BY DEF WriteByte, WriteLength, IInv, TypeOK
<1>2. \A m \in Minors : \A c \in Channels : Text(m, c)' = Text(m, c)
  BY <1>1, TextElsewhere
<1> QED BY <1>1, <1>2, TextsBoth

LEMMA SameText ==
  ASSUME NEW t \in Seq(Bytes), NEW b, \A k \in 1 .. Len(t) : t[k] = b
  PROVE  t = [k \in 1 .. Len(t) |-> b]
<1> DEFINE D == 1 .. Len(t)
<1>1. t \in [D -> Bytes] /\ \A k \in D : t[k] = b
  BY LenProperties
<1> HIDE DEF D
<1>2. t = [k \in D |-> b]
  BY <1>1
<1> QED BY <1>2 DEF D

\* A byte changes no text, and the length only that of the message it is for.
LEMMA TextsWritten ==
  ASSUME IInv, SerialOrder, NEW p \in Procs, Alone(p), WriteByte(p) \/ WriteLength(p)
  PROVE  texts' = texts
<1>1. Call(p) /\ CallsTypeOK /\ head' = head /\ DriverInOrder
  BY DEF Call, WriteByte, WriteLength, IInv, TypeOK, DriverInOrder
<1>2. /\ pc[p] = "writing" /\ minor'[p] = minor[p] /\ channel'[p] = channel[p]
      /\ channel[p] \in Channels /\ minor[p] \in Minors
  BY <1>1 DEF WriteByte, WriteLength, DriverInOrder, CallsInOrder, CallInOrder, CallsTypeOK
<1>3. ASSUME NEW m \in Minors, NEW c \in Channels, m # minor[p] \/ c # channel[p]
      PROVE  Text(m, c)' = Text(m, c)
  BY <1>1, <1>3, TextElsewhere
<1>4. CASE WriteByte(p)
  <2>1. pc'[p] = "writing" /\ Whole(p)' = Whole(p)
    BY <1>2, <1>4 DEF WriteByte, Whole
  <2>2. ASSUME NEW m \in Minors, NEW c \in Channels
        PROVE  (IF pc'[p] = "writing" /\ m = minor'[p] /\ c = channel'[p]
                THEN Whole(p)' ELSE Text(m, c)')
               = IF pc[p] = "writing" /\ m = minor[p] /\ c = channel[p]
                 THEN Whole(p) ELSE Text(m, c)
    BY <1>2, <1>3, <2>1
  <2> QED BY <1>1, <2>2, TextsBoth
<1>5. CASE WriteLength(p)
  <2> DEFINE n == found[p]  c == channel[p]  m == minor[p]  l == Stored(arg[p])
  <2>1. /\ n \in 1 .. allocated /\ c \in Channels /\ arg[p] \in Messages
        /\ node' \in [1 .. allocated -> NodeType]
        /\ node'[n].length[c] = l /\ i[p] = l /\ l \in 0 .. BufLen /\ l \in Lengths
        /\ node'[n].cell = node[n].cell
    BY <1>1, <1>5, SizesType, StoresLength
  <2>2. /\ GetMinorNode(m) = n /\ n # Null
        /\ \A k \in 1 .. l : node[n].cell[c][k] = <<arg[p], m, c>>
    <3>1. SerialFile(p) /\ SerialBytes(p)
      BY DEF SerialOrder
    <3> QED BY <1>2, <2>1, <3>1 DEF SerialFile, SerialBytes, InCall, Null
  <2>3. ASSUME NEW x, x = minor[p], NEW d \in Channels, d = channel[p]
        PROVE  Text(x, d)' = Whole(p)
    <3>1. IInv' /\ GetMinorNode(x)' = n /\ GetMinorNode(x)' # Null
      BY <1>1, <2>2, <2>3, HeadStays, CallStep
    <3> DEFINE t == Text(x, d)'  g == GetMinorNode(x)'
    <3>2. /\ t \in Seq(Bytes) /\ Len(t) = node'[g].length[d]
          /\ \A k \in 1 .. node'[g].length[d] : t[k] = node'[g].cell[d][k]
      BY <3>1, TextOfNodeNext
    <3>3. g = n
      BY <3>1
    <3> HIDE DEF t, g
    <3> DEFINE b == <<arg[p], m, c>>
    <3>4. node'[n].length[d] = l /\ \A k \in 1 .. l : node'[n].cell[d][k] = b
      BY <2>1, <2>2, <2>3
    <3> HIDE DEF b, n, l
    <3>5. Len(t) = l /\ \A k \in 1 .. l : t[k] = b
      BY <3>2, <3>3, <3>4
    <3>6. \A k \in 1 .. Len(t) : t[k] = b
      BY <3>5
    <3>7. t = [k \in 1 .. Len(t) |-> b]
      BY <3>2, <3>6, SameText
    <3> QED BY <3>5, <3>7 DEF Whole, t, b, l
  <2>4. pc'[p] # "writing"
    BY <1>1, <1>5 DEF WriteLength, Return, CallsTypeOK
  <2>5. ASSUME NEW x \in Minors, NEW d \in Channels
        PROVE  Text(x, d)' = IF x = minor[p] /\ d = channel[p] THEN Whole(p) ELSE Text(x, d)
    <3>1. CASE x = minor[p] /\ d = channel[p]
      BY <2>3, <3>1
    <3>2. CASE ~ (x = minor[p] /\ d = channel[p])
      BY <1>3, <3>2
    <3> QED BY <3>1, <3>2
  <2> QED BY <1>1, <1>2, <2>4, <2>5, TextsBoth
<1> QED BY <1>4, <1>5

RegisterStep == Register!Next \/ UNCHANGED Register!vars

\* Steps that the register does not show: the walk that begins an open, a release,
\* a write or a read, and the node that is not in the list yet.
LEMMA SilentStep ==
  ASSUME IInv, NEW p \in Procs, Alone(p), Call(p), head' = head,
         ~ OpenExisting(p), ~ ReleaseClose(p),
         pc[p] \notin {"writing", "reading"}, pc'[p] \notin {"writing", "reading"},
         FileOf(p)' = FileOf(p), got'[p] = got[p], result'[p] = result[p]
  PROVE  UNCHANGED Register!vars
<1>1. CallsTypeOK /\ texts' = texts /\ liveMinors' = liveMinors
  BY TextsStay, LiveStays DEF IInv, TypeOK
<1>2. BufferOf(p)' = BufferOf(p) /\ ResultOf(p)' = ResultOf(p)
  BY DEF BufferOf, ResultOf
<1> QED BY <1>1, <1>2, RegisterStutters

LEMMA SilentSteps ==
  ASSUME IInv, NEW p \in Procs, Alone(p),
         \/ \E m \in Minors : Open(p, m)
         \/ OpenInsert(p) \/ OpenInsertFails(p)
         \/ Release(p) /\ pc[p] # "oops"
         \/ \E m \in Messages : Write(p, m) /\ Writable(p, m)
         \/ \E size \in ReadSizes : Read(p, size) /\ channel[p] # NoChannel
         \/ OrphanCalls(p) \/ Replaced(p)
  PROVE  RegisterStep
<1>1. CallsTypeOK
  BY DEF IInv, TypeOK
<1> USE DEF CallsTypeOK, FileOf, device
<1>2. ASSUME NEW m \in Minors, Open(p, m) PROVE RegisterStep
  <2>1. /\ Call(p) /\ head' = head /\ ~ OpenExisting(p) /\ ~ ReleaseClose(p)
        /\ pc[p] = "closed" /\ pc'[p] = "openFound" /\ FileOf(p)' = FileOf(p)
        /\ got'[p] = got[p] /\ result'[p] = result[p]
    BY <1>1, <1>2 DEF Call, Open, OpenExisting, ReleaseClose
  <2> QED BY <2>1, SilentStep DEF RegisterStep
<1>3. CASE OpenInsert(p) \/ OpenInsertFails(p)
  <2>1. /\ Call(p) /\ head' = head /\ ~ OpenExisting(p) /\ ~ ReleaseClose(p)
        /\ pc[p] = "openFound" /\ pc'[p] \in {"publish", "crashed"} /\ FileOf(p)' = FileOf(p)
        /\ got'[p] = got[p] /\ result'[p] = result[p]
    BY <1>1, <1>3 DEF Call, OpenInsert, OpenInsertFails, OpenExisting, ReleaseClose
  <2> QED BY <2>1, SilentStep DEF RegisterStep
<1>4. CASE Release(p) /\ pc[p] # "oops"
  <2>1. /\ Call(p) /\ head' = head /\ ~ OpenExisting(p) /\ ~ ReleaseClose(p)
        /\ pc[p] = "ready" /\ pc'[p] = "releaseFound" /\ FileOf(p)' = FileOf(p)
        /\ got'[p] = got[p] /\ result'[p] = result[p]
    BY <1>1, <1>4 DEF Call, Release, OpenExisting, ReleaseClose
  <2> QED BY <2>1, SilentStep DEF RegisterStep
<1>5. ASSUME NEW m \in Messages, Write(p, m), Writable(p, m) PROVE RegisterStep
  <2>1. /\ head' = head /\ pc[p] = "ready" /\ pc'[p] = "writeFound" /\ FileOf(p)' = FileOf(p)
        /\ got'[p] = got[p] /\ result'[p] = result[p]
    BY <1>1, <1>5 DEF Write
  <2>2. Call(p) /\ ~ OpenExisting(p) /\ ~ ReleaseClose(p)
    BY <1>5, <2>1 DEF Call, OpenExisting, ReleaseClose
  <2> QED BY <2>1, <2>2, SilentStep DEF RegisterStep
<1>6. ASSUME NEW size \in ReadSizes, Read(p, size), channel[p] # NoChannel
      PROVE  RegisterStep
  <2>1. /\ head' = head /\ pc[p] = "ready" /\ pc'[p] = "readFound" /\ FileOf(p)' = FileOf(p)
        /\ got'[p] = got[p] /\ result'[p] = result[p]
    BY <1>1, <1>6 DEF Read
  <2>2. Call(p) /\ ~ OpenExisting(p) /\ ~ ReleaseClose(p)
    BY <1>6, <2>1 DEF Call, OpenExisting, ReleaseClose
  <2> QED BY <2>1, <2>2, SilentStep DEF RegisterStep
<1>7. CASE OrphanCalls(p) \/ Replaced(p)
  <2>1. /\ Call(p) /\ head' = head /\ ~ OpenExisting(p) /\ ~ ReleaseClose(p)
        /\ pc[p] \in {"orphan", "crashed"} /\ pc'[p] \in {"crashed", "closed"}
        /\ FileOf(p)' = FileOf(p) /\ got'[p] = got[p] /\ result'[p] = result[p]
    BY <1>1, <1>7 DEF Call, OrphanCalls, Replaced, OpenExisting, ReleaseClose
  <2> QED BY <2>1, SilentStep DEF RegisterStep
<1> QED BY <1>2, <1>3, <1>4, <1>5, <1>6, <1>7

\* The bytes of a write and a read, and their end.
LEMMA CopySteps ==
  ASSUME IInv, SerialOrder, NEW p \in Procs, Alone(p),
         WriteByte(p) \/ WriteLength(p) \/ ReadByte(p) \/ ReadEnd(p)
  PROVE  RegisterStep
<1>1. /\ Call(p) /\ CallsTypeOK /\ DriverInOrder /\ head' = head
      /\ ~ OpenExisting(p) /\ ~ ReleaseClose(p)
  BY DEF IInv, TypeOK, DriverInOrder, Call, WriteByte, WriteLength, ReadByte, ReadEnd,
         OpenExisting, ReleaseClose, device
<1>2. liveMinors' = liveMinors
  BY <1>1, LiveStays
<1>3. ASSUME WriteByte(p) \/ WriteLength(p) PROVE RegisterStep
  <2>1. texts' = texts
    BY <1>3, TextsWritten
  <2>2. FileOf(p)' = FileOf(p) /\ BufferOf(p)' = BufferOf(p)
    BY <1>1, <1>3 DEF FileOf, BufferOf, WriteByte, WriteLength, Return, CallsTypeOK
  <2>3. ResultOf(p)' = ResultOf(p)
    <3>1. ResultOf(p) = Stored(arg[p])
      BY <1>3 DEF ResultOf, WriteByte, WriteLength
    <3>2. CASE WriteByte(p)
      BY <1>1, <3>1, <3>2 DEF ResultOf, WriteByte, CallsTypeOK
    <3>3. CASE WriteLength(p)
      <4>1. pc'[p] = "ready" /\ result'[p] = i[p] /\ i[p] = Stored(arg[p])
        BY <1>1, <3>3 DEF WriteLength, Return, CallsTypeOK
      <4> QED BY <3>1, <4>1 DEF ResultOf
    <3> QED BY <1>3, <3>2, <3>3
  <2> QED BY <1>1, <1>2, <2>1, <2>2, <2>3, RegisterStutters DEF RegisterStep
<1>4. ASSUME ReadByte(p) \/ ReadEnd(p) PROVE RegisterStep
  <2>1. /\ pc[p] = "reading" /\ pc'[p] \in {"reading", "ready"} /\ channel'[p] = channel[p]
        /\ minor'[p] = minor[p] /\ channel[p] \in Channels /\ minor[p] \in Minors
    BY <1>1, <1>4 DEF ReadByte, ReadEnd, Return, CallsTypeOK, DriverInOrder, CallsInOrder,
                      CallInOrder
  <2>2. texts' = texts
    BY <1>1, <2>1, TextsStay
  <2>3. FileOf(p)' = FileOf(p)
    BY <2>1 DEF FileOf
  <2>4. ASSUME NEW m, m = minor[p], NEW c \in Channels, c = channel[p]
        PROVE  /\ Text(minor[p], channel[p])' = Text(m, c)
               /\ pc'[p] = "ready" =>
                    got'[p] = Text(m, c) /\ result'[p] = Len(Text(m, c))
    <3>1. Text(m, c)' = Text(m, c)
      <4>1. ~ WriteByte(p) /\ ~ WriteLength(p)
        BY <2>1 DEF WriteByte, WriteLength
      <4> QED BY <1>1, <4>1, TextElsewhere
    <3>2. minor'[p] = m /\ channel'[p] = c
      BY <2>1, <2>4
    <3>3. Text(minor[p], channel[p])' = Text(m, c)
      BY <3>1, <3>2
    <3>4. ASSUME pc'[p] = "ready"
          PROVE  got'[p] = Text(m, c) /\ result'[p] = Len(Text(m, c))
      <4>1. ReadEnd(p)
        BY <1>1, <1>4, <3>4, <2>1 DEF ReadByte, CallsTypeOK
      <4> DEFINE t == Text(m, c)  n == found[p]
      <4>2. /\ SerialFile(p) /\ SerialBytes(p) /\ got[p] \in Seq(Bytes) /\ Len(got[p]) = i[p]
            /\ i[p] \in 0 .. BufLen /\ BufLen \in Nat
        BY <1>1, <2>1, SizesType
        DEF SerialOrder, CallsTypeOK, DriverInOrder, CallsInOrder, CallInOrder
      <4>3. /\ GetMinorNode(m) = n /\ n # Null
            /\ \A k \in 1 .. i[p] : got[p][k] = node[n].cell[c][k]
        BY <2>1, <2>4, <4>2 DEF SerialFile, SerialBytes, InCall
      <4>4. i[p] = node[n].length[c] /\ got'[p] = got[p] /\ result'[p] = i[p]
        <5>1. limit[p] = LengthNow(p) /\ i[p] <= limit[p] /\ LengthNow(p) = node[n].length[c]
          BY <2>1, <2>4, <4>2 DEF SerialBytes, LengthNow
        <5>2. i[p] >= limit[p] /\ got'[p] = got[p] /\ result'[p] = i[p]
          BY <1>1, <4>1, <5>1 DEF ReadEnd, Return, LimitMayBe, CallsTypeOK
        <5>3. limit[p] \in 0 .. BufLen
          BY <1>1, SizesType DEF CallsTypeOK
        <5> QED BY <4>2, <5>1, <5>2, <5>3
      <4>5. /\ t \in Seq(Bytes) /\ Len(t) = i[p]
            /\ \A k \in 1 .. i[p] : t[k] = node[n].cell[c][k]
        BY <4>3, <4>4, TextOfNode
      <4> HIDE DEF t
      <4>6. got[p] = t
        BY <4>2, <4>3, <4>5, SeqEqual
      <4> QED BY <4>4, <4>5, <4>6 DEF t
    <3> QED BY <3>3, <3>4
  <2>5. BufferOf(p)' = BufferOf(p) /\ ResultOf(p)' = ResultOf(p)
    BY <2>1, <2>4 DEF BufferOf, ResultOf
  <2> QED BY <1>1, <1>2, <2>2, <2>3, <2>5, RegisterStutters DEF RegisterStep
<1> QED BY <1>1, <1>3, <1>4

\* An open takes effect when it marks the node, or puts a new one in the list.
LEMMA OpenSteps ==
  ASSUME IInv, SerialOrder, NEW p \in Procs, Alone(p), OpenExisting(p) \/ OpenPublish(p)
  PROVE  RegisterStep
<1>1. /\ Call(p) /\ CallsTypeOK /\ DriverInOrder /\ SerialFile(p) /\ minor[p] \in Minors
  BY DEF IInv, TypeOK, DriverInOrder, Call, SerialOrder, CallsTypeOK
<1>2. /\ pc[p] \in {"openFound", "publish"} /\ pc'[p] = "ready" /\ minor'[p] = minor[p]
      /\ channel'[p] = NoChannel /\ result'[p] = 0 /\ got'[p] = got[p]
  BY <1>1 DEF OpenExisting, OpenPublish, Return, CallsTypeOK
<1>3. liveMinors' = liveMinors \cup {minor[p]} /\ texts' = texts
  <2>1. CASE OpenExisting(p)
    <3>1. /\ head' = head /\ found[p] = GetMinorNode(minor[p]) /\ found[p] # Null
          /\ node'[found[p]].open = TRUE
      BY <1>1, <2>1, OpensNode DEF OpenExisting, SerialFile, InCall
    <3>2. texts' = texts
      BY <1>1, <1>2, <3>1, TextsStay
    <3>3. \A m : GetMinorNode(m)' = GetMinorNode(m)
      BY <1>1, <3>1, HeadStays
    <3>4. ASSUME NEW m \in Minors, m # minor[p], GetMinorNode(m) # Null
          PROVE  node'[GetMinorNode(m)] = node[GetMinorNode(m)]
      <4>1. /\ GetMinorNode(m) \in 1 .. allocated /\ node[GetMinorNode(m)].value = m
            /\ node[found[p]].value = minor[p]
        <5>1. GetMinorNode(m) \in 0 .. allocated /\ allocated \in Nat
          BY TypesOfList DEF IInv, TypeOK, Nodes
        <5>2. node[GetMinorNode(m)].value = m /\ node[found[p]].value = minor[p]
          BY <3>1, <3>4, TypesOfList DEF IInv, TypeOK
        <5> QED BY <3>4, <5>1, <5>2 DEF Null
      <4> QED BY <1>1, <2>1, <3>4, <4>1, OpensNode
    <3>5. ASSUME NEW m \in Minors
          PROVE  (GetMinorNode(m)' # Null /\ node'[GetMinorNode(m)].open)
                 <=> (m = minor[p] \/ (GetMinorNode(m) # Null /\ node[GetMinorNode(m)].open))
      BY <3>1, <3>3, <3>4
    <3>6. liveMinors' = liveMinors \cup {minor[p]}
      <4>1. \A m \in Minors : m \in liveMinors' <=> m = minor[p] \/ m \in liveMinors
        BY <3>3, <3>5 DEF liveMinors
      <4> QED BY <1>1, <4>1 DEF liveMinors
    <3> QED BY <3>2, <3>6
  <2>2. CASE OpenPublish(p)
    <3>1. /\ node' = node /\ found[p] # Null
          /\ \A m : GetMinorNode(m)' = IF m = minor[p] THEN found[p] ELSE GetMinorNode(m)
      BY <2>2, SerialPublish, HeadMoves DEF Null
    <3>2. /\ GetMinorNode(minor[p]) = Null /\ node[found[p]].open
          /\ \A c \in Channels : node[found[p]].length[c] = 0
      BY <1>1, <2>2 DEF SerialFile, OpenPublish
    <3>3. liveMinors' = liveMinors \cup {minor[p]}
      <4>1. \A m \in Minors : m \in liveMinors' <=> m = minor[p] \/ m \in liveMinors
        BY <3>1, <3>2 DEF liveMinors
      <4> QED BY <1>1, <4>1 DEF liveMinors
    <3>4. ASSUME NEW m \in Minors, NEW c \in Channels PROVE Text(m, c)' = Text(m, c)
      <4>1. CASE m = minor[p]
        <5>1. Text(m, c) = << >>
          BY <3>2, <4>1 DEF Text
        <5>2. GetMinorNode(m)' = found[p]
          BY <3>1, <4>1
        <5>3. Text(m, c)' = SubSeq(node[found[p]].cell[c], 1, node[found[p]].length[c])
          BY <3>1, <5>2 DEF Text
        <5>4. node[found[p]].length[c] = 0
          BY <3>2
        <5> DEFINE s == node[found[p]].cell[c]
        <5>5. Text(m, c)' = SubSeq(s, 1, 0)
          BY <5>3, <5>4
        <5> HIDE DEF s
        <5>6. SubSeq(s, 1, 0) = << >>
          BY SubSeqEmpty
        <5> QED BY <5>1, <5>5, <5>6
      <4>2. CASE m # minor[p]
        <5>1. GetMinorNode(m)' = GetMinorNode(m)
          BY <3>1, <4>2
        <5> QED BY <3>1, <5>1 DEF Text
      <4> QED BY <4>1, <4>2
    <3>5. texts' = texts
      BY <1>1, <1>2, <3>4, TextsBoth
    <3> QED BY <3>3, <3>5
  <2> QED BY <2>1, <2>2
<1>4. /\ FileOf(p) = << >> /\ FileOf(p)' = <<minor[p], NoChannel>>
      /\ BufferOf(p)' = BufferOf(p) /\ ResultOf(p)' = 0
  BY <1>2 DEF FileOf, BufferOf, ResultOf
<1>5. /\ files[p] = << >> /\ files' = [files EXCEPT ![p] = <<minor[p], NoChannel>>]
      /\ buffers' = buffers /\ results' = [results EXCEPT ![p] = 0]
  BY <1>1, <1>4, RegisterOwn
<1>6. Register!Open(p, minor[p])
  BY <1>3, <1>5 DEF Register!Open, Register!IsOpen, Register!Closed, Register!Returns
<1> QED BY <1>1, <1>6 DEF RegisterStep, Register!Next

\* A release takes effect when it marks the node as closed.
LEMMA CloseStep ==
  ASSUME IInv, SerialOrder, NEW p \in Procs, Alone(p), ReleaseClose(p)
  PROVE  RegisterStep
<1>1. /\ Call(p) /\ CallsTypeOK /\ DriverInOrder /\ SerialFile(p) /\ minor[p] \in Minors
      /\ head' = head
  BY DEF IInv, TypeOK, DriverInOrder, Call, SerialOrder, CallsTypeOK, ReleaseClose
<1>2. /\ pc[p] = "releaseFound" /\ pc'[p] = "closed" /\ minor'[p] = minor[p]
      /\ result'[p] = 0 /\ got'[p] = << >>
  BY <1>1 DEF ReleaseClose, CallsTypeOK
<1>3. texts' = texts
  BY <1>1, <1>2, TextsStay
<1>4. liveMinors' = liveMinors \ {minor[p]}
  <2>1. /\ found[p] = GetMinorNode(minor[p]) /\ found[p] # Null
        /\ node'[found[p]].open = FALSE
    <3>1. found[p] = GetMinorNode(minor[p]) /\ found[p] # Null
      BY <1>1, <1>2 DEF SerialFile, InCall
    <3> QED BY <1>1, <3>1, ClosesNode
  <2>2. \A m : GetMinorNode(m)' = GetMinorNode(m)
    BY <1>1, HeadStays
  <2>3. ASSUME NEW m \in Minors, m # minor[p], GetMinorNode(m) # Null
        PROVE  node'[GetMinorNode(m)] = node[GetMinorNode(m)]
    <3>1. GetMinorNode(m) \in 0 .. allocated /\ allocated \in Nat
      BY TypesOfList DEF IInv, TypeOK, Nodes
    <3>2. node[GetMinorNode(m)].value = m /\ node[found[p]].value = minor[p]
      BY <2>1, <2>3, TypesOfList DEF IInv, TypeOK
    <3>3. GetMinorNode(m) \in 1 .. allocated /\ GetMinorNode(m) # found[p]
      BY <2>3, <3>1, <3>2 DEF Null
    <3> QED BY <1>1, <2>1, <3>3, ClosesNode
  <2>4. \A m \in Minors : m \in liveMinors' <=> m # minor[p] /\ m \in liveMinors
    BY <2>1, <2>2, <2>3 DEF liveMinors
  <2> QED BY <2>4 DEF liveMinors
<1>5. /\ FileOf(p) = <<minor[p], channel[p]>> /\ FileOf(p)' = << >>
      /\ BufferOf(p)' = << >> /\ ResultOf(p)' = 0
  BY <1>2 DEF FileOf, BufferOf, ResultOf
<1>6. /\ files[p] = <<minor[p], channel[p]>> /\ files' = [files EXCEPT ![p] = << >>]
      /\ buffers' = [buffers EXCEPT ![p] = << >>] /\ results' = [results EXCEPT ![p] = 0]
  BY <1>1, <1>5, RegisterOwn
<1>7. Register!Close(p)
  BY <1>3, <1>4, <1>6
  DEF Register!Close, Register!IsOpen, Register!Closed, Register!Returns, Register!Minor
<1> QED BY <1>7 DEF RegisterStep, Register!Next

\* A call that is refused.
LEMMA Refused ==
  ASSUME IInv, NEW p \in Procs, Alone(p), Call(p), head' = head,
         ~ OpenExisting(p), ~ ReleaseClose(p),
         pc[p] \in {"ready", "writeFound", "readFound"}, pc'[p] = "ready",
         minor'[p] = minor[p], channel'[p] = channel[p], got'[p] = got[p],
         result'[p] = EINVAL,
         \/ Params \ Channels # {}
         \/ ~ Register!Usable(p)
         \/ \E s \in Messages : Length[s] < PointerSize
         \/ \E size \in ReadSizes : Len(texts[minor[p]][channel[p]]) > size
  PROVE  RegisterStep
<1>1. CallsTypeOK /\ texts' = texts /\ liveMinors' = liveMinors
  BY TextsStay, LiveStays DEF IInv, TypeOK
<1>2. /\ FileOf(p) = <<minor[p], channel[p]>> /\ FileOf(p)' = FileOf(p)
      /\ BufferOf(p)' = BufferOf(p) /\ ResultOf(p)' = EINVAL
  BY DEF FileOf, BufferOf, ResultOf
<1>3. /\ files[p] = <<minor[p], channel[p]>> /\ files' = files
      /\ buffers' = buffers /\ results' = [results EXCEPT ![p] = EINVAL]
  BY <1>1, <1>2, RegisterOwn
<1>4. Register!IsOpen(p) /\ Register!Minor(p) = minor[p] /\ Register!Channel(p) = channel[p]
  BY <1>3 DEF Register!IsOpen, Register!Closed, Register!Minor, Register!Channel
<1>5. Register!Refuse(p)
  BY <1>1, <1>3, <1>4 DEF Register!Refuse, Register!Returns
<1> QED BY <1>5 DEF RegisterStep, Register!Next

\* A file of a minor that is live, and what its channel holds.
LEMMA UsableFile ==
  ASSUME IInv, SerialOrder, NEW p \in Procs, Alone(p),
         pc[p] \in {"ready", "writeFound", "readFound"}
  PROVE  /\ files[p] = <<minor[p], channel[p]>>
         /\ Register!Usable(p) <=> channel[p] # NoChannel /\ node[GetMinorNode(minor[p])].open
         /\ channel[p] \in Channels => texts[minor[p]][channel[p]] = Text(minor[p], channel[p])
<1>1. /\ SerialFile(p) /\ CallsTypeOK /\ minor[p] \in Minors
      /\ channel[p] \in Channels \cup {NoChannel}
  BY DEF SerialOrder, IInv, TypeOK, CallsTypeOK
<1>2. FileOf(p) = <<minor[p], channel[p]>>
  BY DEF FileOf
<1>3. files[p] = <<minor[p], channel[p]>>
  BY <1>2, Mapped
<1>4. minor[p] \in liveMinors <=> node[GetMinorNode(minor[p])].open
  BY <1>1 DEF SerialFile, liveMinors
<1>5. Register!Usable(p) <=> channel[p] # NoChannel /\ node[GetMinorNode(minor[p])].open
  BY <1>3, <1>4 DEF Register!Usable, Register!IsOpen, Register!Closed, Register!Minor,
                    Register!Channel
<1>6. channel[p] \in Channels => texts[minor[p]][channel[p]] = Text(minor[p], channel[p])
  BY <1>1, TextsAlone
<1> QED BY <1>3, <1>5, <1>6

LEMMA IoctlStep ==
  ASSUME IInv, SerialOrder, NEW p \in Procs, Alone(p), NEW c \in Params, Ioctl(p, c)
  PROVE  RegisterStep
<1>1. /\ Call(p) /\ CallsTypeOK /\ head' = head /\ ~ OpenExisting(p) /\ ~ ReleaseClose(p)
      /\ pc[p] = "ready"
  BY DEF IInv, TypeOK, Call, Ioctl, OpenExisting, ReleaseClose, device
<1>2. CASE c \in Channels
  <2>1. /\ pc'[p] = "ready" /\ minor'[p] = minor[p] /\ channel'[p] = c /\ result'[p] = 0
        /\ got'[p] = got[p]
    BY <1>1, <1>2 DEF Ioctl, Return, CallsTypeOK
  <2>2. texts' = texts /\ liveMinors' = liveMinors
    BY <1>1, <2>1, TextsStay, LiveStays
  <2>3. /\ FileOf(p) = <<minor[p], channel[p]>> /\ FileOf(p)' = <<minor[p], c>>
        /\ BufferOf(p)' = BufferOf(p) /\ ResultOf(p)' = 0
    BY <1>1, <2>1 DEF FileOf, BufferOf, ResultOf
  <2>4. /\ files[p] = <<minor[p], channel[p]>> /\ files' = [files EXCEPT ![p] = <<minor[p], c>>]
        /\ buffers' = buffers /\ results' = [results EXCEPT ![p] = 0]
    BY <1>1, <2>3, RegisterOwn
  <2>5. Register!SetChannel(p, c)
    BY <1>2, <2>2, <2>4
    DEF Register!SetChannel, Register!IsOpen, Register!Closed, Register!Returns, Register!Minor
  <2> QED BY <2>5 DEF RegisterStep, Register!Next
<1>3. CASE c \notin Channels
  <2>1. /\ pc'[p] = "ready" /\ minor'[p] = minor[p] /\ channel'[p] = channel[p]
        /\ result'[p] = EINVAL /\ got'[p] = got[p]
    BY <1>1, <1>3 DEF Ioctl, Return, CallsTypeOK
  <2>2. Params \ Channels # {}
    BY <1>3
  <2> QED BY <1>1, <2>1, <2>2, Refused
<1> QED BY <1>2, <1>3

\* A write takes effect when it finds the node open.
LEMMA WriteStep ==
  ASSUME IInv, SerialOrder, NEW p \in Procs, Alone(p), WriteCheck(p)
  PROVE  RegisterStep
<1>1. /\ Call(p) /\ CallsTypeOK /\ head' = head /\ ~ OpenExisting(p) /\ ~ ReleaseClose(p)
      /\ pc[p] = "writeFound" /\ DriverInOrder /\ ~ WriteByte(p) /\ ~ WriteLength(p)
      /\ SerialFile(p)
  BY DEF IInv, TypeOK, Call, WriteCheck, OpenExisting, ReleaseClose, device, DriverInOrder,
         WriteByte, WriteLength, SerialOrder
<1>2. /\ pc'[p] = "writing" /\ minor'[p] = minor[p] /\ channel'[p] = channel[p]
      /\ arg'[p] = arg[p] /\ got'[p] = got[p] /\ node' = node
      /\ node[found[p]].open /\ found[p] = GetMinorNode(minor[p])
  BY <1>1 DEF WriteCheck, CallsTypeOK, device, SerialFile, InCall
<1>3. /\ channel[p] \in Channels /\ minor[p] \in Minors /\ arg[p] \in Messages
      /\ Length[arg[p]] >= PointerSize
  BY <1>1 DEF DriverInOrder, CallsInOrder, CallInOrder, CallsTypeOK
<1>4. Register!Usable(p) /\ files[p] = <<minor[p], channel[p]>>
  <2>1. channel[p] # NoChannel
    BY <1>3 DEF Channels, NoChannel
  <2> QED BY <1>1, <1>2, <2>1, UsableFile
<1>5. liveMinors' = liveMinors
  BY <1>1, LiveStays
<1>6. Whole(p)' = Whole(p) /\ Whole(p) = Register!Prefix(arg[p], minor[p], channel[p])
  BY <1>2 DEF Whole, Register!Prefix, Stored
<1>7. texts' = [texts EXCEPT ![minor[p]][channel[p]] = Whole(p)]
  <2>1. \A m \in Minors : \A c \in Channels : Text(m, c)' = Text(m, c)
    BY <1>1, TextElsewhere
  <2>2. texts = [m \in Minors |-> [c \in Channels |-> Text(m, c)]]
    BY <1>1, TextsBoth
  <2>3. texts' = [m \in Minors |-> [c \in Channels |->
                    IF m = minor[p] /\ c = channel[p] THEN Whole(p) ELSE Text(m, c)]]
    BY <1>1, <1>2, <1>6, <2>1, TextsBoth
  <2> QED BY <1>3, <2>2, <2>3
<1>8. /\ FileOf(p)' = FileOf(p) /\ BufferOf(p)' = BufferOf(p) /\ ResultOf(p)' = Stored(arg[p])
  BY <1>1, <1>2 DEF FileOf, BufferOf, ResultOf, Stored
<1>9. /\ files' = files /\ buffers' = buffers
      /\ results' = [results EXCEPT ![p] = Stored(arg[p])]
  BY <1>1, <1>8, RegisterOwn
<1>10. Len(Register!Prefix(arg[p], minor[p], channel[p])) = Stored(arg[p])
  <2> DEFINE l == Stored(arg[p])  b == <<arg[p], minor[p], channel[p]>>
  <2>1. l \in Nat
    BY <1>3, SizesType DEF Stored
  <2>2. Whole(p) = [k \in 1 .. l |-> b]
    BY DEF Whole
  <2> HIDE DEF l, b
  <2>3. Len([k \in 1 .. l |-> b]) = l
    BY <2>1
  <2> QED BY <1>6, <2>2, <2>3 DEF l
<1>11. Register!Minor(p) = minor[p] /\ Register!Channel(p) = channel[p]
  BY <1>4 DEF Register!Minor, Register!Channel
<1>12. Register!Write(p, arg[p])
  BY <1>3, <1>4, <1>5, <1>6, <1>7, <1>9, <1>10, <1>11
  DEF Register!Write, Register!Returns
<1> QED BY <1>3, <1>12 DEF RegisterStep, Register!Next

\* A read takes effect when it finds the node open and its buffer large enough.
LEMMA ReadStep ==
  ASSUME IInv, SerialOrder, NEW p \in Procs, Alone(p), ReadCheck(p)
  PROVE  RegisterStep
<1>1. /\ Call(p) /\ CallsTypeOK /\ head' = head /\ ~ OpenExisting(p) /\ ~ ReleaseClose(p)
      /\ pc[p] = "readFound" /\ DriverInOrder /\ ~ WriteByte(p) /\ ~ WriteLength(p)
      /\ SerialFile(p)
  BY DEF IInv, TypeOK, Call, ReadCheck, OpenExisting, ReleaseClose, device, DriverInOrder,
         WriteByte, WriteLength, SerialOrder
<1>2. /\ pc'[p] = "reading" /\ minor'[p] = minor[p] /\ channel'[p] = channel[p]
      /\ node[found[p]].open /\ Fits(p) /\ found[p] = GetMinorNode(minor[p]) /\ found[p] # Null
  BY <1>1 DEF ReadCheck, CallsTypeOK, SerialFile, InCall
<1>3. channel[p] \in Channels /\ minor[p] \in Minors /\ arg[p] \in ReadSizes
  BY <1>1 DEF DriverInOrder, CallsInOrder, CallInOrder, CallsTypeOK
<1>4. /\ Register!Usable(p) /\ files[p] = <<minor[p], channel[p]>>
      /\ texts[minor[p]][channel[p]] = Text(minor[p], channel[p])
  <2>1. channel[p] # NoChannel
    BY <1>3 DEF Channels, NoChannel
  <2> QED BY <1>1, <1>2, <1>3, <2>1, UsableFile
<1>5. liveMinors' = liveMinors /\ texts' = texts
  BY <1>1, <1>2, LiveStays, TextsStay
<1>6. ASSUME NEW m, m = minor[p], NEW c \in Channels, c = channel[p]
      PROVE  Text(minor[p], channel[p])' = Text(m, c)
  <2>1. Text(m, c)' = Text(m, c)
    BY <1>1, TextElsewhere
  <2>2. minor'[p] = m /\ channel'[p] = c
    BY <1>2, <1>6
  <2> QED BY <2>1, <2>2
<1>7. /\ FileOf(p)' = FileOf(p) /\ BufferOf(p)' = Text(minor[p], channel[p])
      /\ ResultOf(p)' = Len(Text(minor[p], channel[p]))
  BY <1>1, <1>2, <1>3, <1>6 DEF FileOf, BufferOf, ResultOf
<1>8. /\ files' = files
      /\ buffers' = [buffers EXCEPT ![p] = Text(minor[p], channel[p])]
      /\ results' = [results EXCEPT ![p] = Len(Text(minor[p], channel[p]))]
  BY <1>1, <1>7, RegisterOwn
<1>9. Len(Text(minor[p], channel[p])) <= arg[p]
  BY <1>2, <1>3, TextOfNode DEF Fits, LengthNow
<1>10. Register!Minor(p) = minor[p] /\ Register!Channel(p) = channel[p]
  BY <1>4 DEF Register!Minor, Register!Channel
<1>11. Register!Read(p, arg[p])
  BY <1>3, <1>4, <1>5, <1>8, <1>9, <1>10 DEF Register!Read, Register!Returns
<1> QED BY <1>3, <1>11 DEF RegisterStep, Register!Next

\* What is refused before the walk or after it.
LEMMA RefusedSteps ==
  ASSUME IInv, SerialOrder, NEW p \in Procs, Alone(p),
         \/ \E m \in Messages : Write(p, m) /\ ~ Writable(p, m)
         \/ \E size \in ReadSizes : Read(p, size) /\ channel[p] = NoChannel
         \/ WriteRefused(p) \/ ReadRefused(p)
  PROVE  RegisterStep
<1>1. CallsTypeOK /\ DriverInOrder /\ SerialFile(p)
  BY DEF IInv, TypeOK, DriverInOrder, SerialOrder
<1> USE DEF Return, CallsTypeOK
<1>2. ASSUME NEW m \in Messages, Write(p, m), ~ Writable(p, m) PROVE RegisterStep
  <2>1. /\ head' = head /\ pc[p] = "ready" /\ pc'[p] = "ready" /\ minor'[p] = minor[p]
        /\ channel'[p] = channel[p] /\ got'[p] = got[p] /\ result'[p] = EINVAL
    BY <1>1, <1>2 DEF Write, device
  <2>2. Call(p) /\ ~ OpenExisting(p) /\ ~ ReleaseClose(p)
    BY <1>2, <2>1 DEF Call, OpenExisting, ReleaseClose
  <2>3. CASE channel[p] = NoChannel
    <3>1. ~ Register!Usable(p)
      BY <2>1, <2>3, UsableFile
    <3> QED BY <2>1, <2>2, <3>1, Refused
  <2>4. CASE ~ (Length[m] >= PointerSize)
    <3>1. Length[m] < PointerSize
      BY <2>4, SizesAssumption
    <3> QED BY <2>1, <2>2, <3>1, Refused
  <2> QED BY <1>2, <2>3, <2>4 DEF Writable
<1>3. ASSUME NEW size \in ReadSizes, Read(p, size), channel[p] = NoChannel PROVE RegisterStep
  <2>1. /\ head' = head /\ pc[p] = "ready" /\ pc'[p] = "ready" /\ minor'[p] = minor[p]
        /\ channel'[p] = channel[p] /\ got'[p] = got[p] /\ result'[p] = EINVAL
    BY <1>1, <1>3 DEF Read, device
  <2>2. Call(p) /\ ~ OpenExisting(p) /\ ~ ReleaseClose(p)
    BY <1>3, <2>1 DEF Call, OpenExisting, ReleaseClose
  <2>3. ~ Register!Usable(p)
    BY <1>3, <2>1, UsableFile
  <2> QED BY <2>1, <2>2, <2>3, Refused
<1>4. CASE WriteRefused(p)
  <2>1. found[p] = GetMinorNode(minor[p]) /\ found[p] # Null
    BY <1>1, <1>4 DEF WriteRefused, SerialFile, InCall
  <2>2. /\ head' = head /\ pc[p] = "writeFound" /\ pc'[p] = "ready" /\ minor'[p] = minor[p]
        /\ channel'[p] = channel[p] /\ got'[p] = got[p] /\ result'[p] = EINVAL
        /\ ~ node[found[p]].open
    BY <1>1, <1>4, <2>1 DEF WriteRefused, device
  <2>3. Call(p) /\ ~ OpenExisting(p) /\ ~ ReleaseClose(p)
    BY <1>4, <2>2 DEF Call, OpenExisting, ReleaseClose
  <2>4. ~ Register!Usable(p)
    BY <2>1, <2>2, UsableFile
  <2> QED BY <2>2, <2>3, <2>4, Refused
<1>5. CASE ReadRefused(p)
  <2>1. found[p] = GetMinorNode(minor[p]) /\ found[p] # Null
    BY <1>1, <1>5 DEF ReadRefused, SerialFile, InCall
  <2>2. /\ head' = head /\ pc[p] = "readFound" /\ pc'[p] = "ready" /\ minor'[p] = minor[p]
        /\ channel'[p] = channel[p] /\ got'[p] = got[p] /\ result'[p] = EINVAL
        /\ ~ (node[found[p]].open /\ Fits(p))
    BY <1>1, <1>5, <2>1 DEF ReadRefused, device
  <2>3. Call(p) /\ ~ OpenExisting(p) /\ ~ ReleaseClose(p)
    BY <1>5, <2>2 DEF Call, OpenExisting, ReleaseClose
  <2>4. CASE ~ node[found[p]].open
    <3>1. ~ Register!Usable(p)
      BY <2>1, <2>2, <2>4, UsableFile
    <3> QED BY <2>2, <2>3, <3>1, Refused
  <2>5. CASE ~ Fits(p)
    <3>1. /\ channel[p] \in Channels /\ arg[p] \in ReadSizes
          /\ LengthNow(p) = node[GetMinorNode(minor[p])].length[channel[p]]
      BY <1>1, <2>1, <2>2 DEF DriverInOrder, CallsInOrder, CallInOrder, LengthNow
    <3> DEFINE t == texts[minor[p]][channel[p]]
    <3>2. Len(t) = LengthNow(p)
      BY <2>1, <2>2, <3>1, UsableFile, TextOfNode
    <3>3. Len(t) \in Nat /\ arg[p] \in Nat
      <4>1. t \in Seq(Bytes)
        BY <2>1, <2>2, <3>1, UsableFile, TextOfNode
      <4>2. Len(t) \in Nat
        BY <4>1, LenProperties
      <4> QED BY <3>1, <4>2, SizesAssumption
    <3> HIDE DEF t
    <3>4. Len(t) > arg[p]
      BY <2>5, <3>2, <3>3 DEF Fits
    <3> QED BY <2>2, <2>3, <3>1, <3>4, Refused DEF t
  <2> QED BY <2>2, <2>4, <2>5
<1> QED BY <1>2, <1>3, <1>4, <1>5

\* While another process is served, one that was killed or lost its device shows
\* nothing to the register.
LEMMA BystanderSteps ==
  ASSUME IInv, NEW p \in Procs, OrphanCalls(p) \/ Replaced(p), NEW r \in Procs \ {p}, Alone(r)
  PROVE  UNCHANGED Register!vars
<1>1. /\ device' = device /\ UNCHANGED <<minor, channel, arg, i, limit, got, result>>
      /\ pc \in [Procs -> Places]
      /\ pc[p] \in {"orphan", "crashed"} /\ \E s \in {"crashed", "closed"} : pc' = [pc EXCEPT ![p] = s]
  BY DEF OrphanCalls, Replaced, IInv, TypeOK, CallsTypeOK
<1>2. /\ pc'[p] \in {"crashed", "closed"} /\ \A q \in Procs \ {p} : pc'[q] = pc[q]
  BY <1>1
<1>3. /\ \A m : GetMinorNode(m)' = GetMinorNode(m)
      /\ \A m, c : Text(m, c)' = Text(m, c)
      /\ \A q : Whole(q)' = Whole(q)
  <2>1. \A m : GetMinorNode(m)' = GetMinorNode(m)
    BY <1>1 DEF device, GetMinorNode, FirstFrom, Hits, NodesFrom
  <2>2. \A m, c : Text(m, c)' = Text(m, c)
    BY <1>1, <2>1 DEF device, Text
  <2>3. \A q : Whole(q)' = Whole(q)
    BY <1>1 DEF Whole
  <2> QED BY <2>1, <2>2, <2>3
<1>4. texts' = texts /\ liveMinors' = liveMinors
  <2>1. liveMinors' = liveMinors
    BY <1>1, <1>3 DEF liveMinors, device
  <2>2. Alone(r)' /\ pc'[r] = pc[r] /\ Whole(r)' = Whole(r)
    BY <1>1, <1>2, <1>3 DEF Alone, InCall
  <2>3. texts' = [m \in Minors |-> [c \in Channels |->
                    IF pc'[r] = "writing" /\ m = minor'[r] /\ c = channel'[r]
                    THEN Whole(r)' ELSE Text(m, c)']]
    BY <2>2, TextsAloneNext
  <2>4. texts' = texts
    BY <1>1, <1>3, <2>2, <2>3, TextsAlone
  <2> QED BY <2>1, <2>4
<1>5. ASSUME NEW q \in Procs
      PROVE  FileOf(q)' = FileOf(q) /\ BufferOf(q)' = BufferOf(q) /\ ResultOf(q)' = ResultOf(q)
  <2>1. ASSUME NEW m, m = minor[q], NEW c, c = channel[q]
        PROVE  Text(minor[q], channel[q])' = Text(m, c)
    BY <1>1, <1>3, <2>1
  <2>2. Text(minor[q], channel[q])' = Text(minor[q], channel[q])
    BY <2>1
  <2> QED BY <1>1, <1>2, <2>2 DEF FileOf, BufferOf, ResultOf
<1>6. files' = files /\ buffers' = buffers /\ results' = results
  BY <1>5, Mapped, MappedNext
<1> QED BY <1>4, <1>6 DEF Register!vars

LEMMA RegisterCalls ==
  ASSUME IInv, SerialOrder, NEW p \in Procs, Call(p)
  PROVE  RegisterStep
<1>1. CASE Alone(p)
  <2>1. \/ \E m \in Minors : Open(p, m)
        \/ OpenInsert(p) \/ OpenInsertFails(p)
        \/ Release(p) /\ pc[p] # "oops"
        \/ \E m \in Messages : Write(p, m) /\ Writable(p, m)
        \/ \E size \in ReadSizes : Read(p, size) /\ channel[p] # NoChannel
        \/ OrphanCalls(p) \/ Replaced(p)
        \/ WriteByte(p) \/ WriteLength(p) \/ ReadByte(p) \/ ReadEnd(p)
        \/ OpenExisting(p) \/ OpenPublish(p)
        \/ ReleaseClose(p)
        \/ \E c \in Params : Ioctl(p, c)
        \/ WriteCheck(p)
        \/ ReadCheck(p)
        \/ \E m \in Messages : Write(p, m) /\ ~ Writable(p, m)
        \/ \E size \in ReadSizes : Read(p, size) /\ channel[p] = NoChannel
        \/ WriteRefused(p) \/ ReadRefused(p)
    <3>1. pc[p] # "oops"
      BY DEF SerialOrder, SerialFile
    <3> QED BY <3>1, Zenon DEF Call
  <2> QED BY <1>1, <2>1, SilentSteps, CopySteps, OpenSteps, CloseStep, IoctlStep,
             WriteStep, ReadStep, RefusedSteps
<1>2. CASE ~ Alone(p)
  <2>1. PICK q \in Procs \ {p} : InCall(q)
    BY <1>2 DEF Alone
  <2>2. Alone(q) /\ (OrphanCalls(p) \/ Replaced(p))
    BY <2>1, SerialAlone DEF Alone, SerialOrder, OneCall
  <2> QED BY <2>1, <2>2, BystanderSteps DEF RegisterStep
<1> QED BY <1>1, <1>2

\* What the register has when no process has a file and the list is empty.
LEMMA RegisterEmpty ==
  ASSUME allocated = 0, head = Null,
         \A p \in Procs : pc[p] \in {"closed", "orphan", "crashed"}
  PROVE  /\ files = [p \in Procs |-> << >>]
         /\ liveMinors = {}
         /\ texts = [m \in Minors |-> [c \in Channels |-> << >>]]
         /\ buffers = [p \in Procs |-> got[p]]
         /\ results = [p \in Procs |-> result[p]]
<1>1. \A m : GetMinorNode(m) = Null
  BY DEF GetMinorNode, FirstFrom, Hits, NodesFrom
<1>2. \A m, c : Text(m, c) = << >> /\ Writing(m, c) = {}
  BY <1>1 DEF Text, Writing
<1>3. liveMinors = {} /\ texts = [m \in Minors |-> [c \in Channels |-> << >>]]
  BY <1>1, <1>2 DEF liveMinors, texts
<1>4. \A p \in Procs : FileOf(p) = << >> /\ BufferOf(p) = got[p] /\ ResultOf(p) = result[p]
  BY DEF FileOf, BufferOf, ResultOf
<1> QED BY <1>3, <1>4, Mapped

LEMMA RegisterEmptyNext ==
  (allocated = 0 /\ head = Null /\ (\A p \in Procs : pc[p] \in {"closed", "orphan", "crashed"})
   => /\ files = [p \in Procs |-> << >>]
      /\ liveMinors = {}
      /\ texts = [m \in Minors |-> [c \in Channels |-> << >>]]
      /\ buffers = [p \in Procs |-> got[p]]
      /\ results = [p \in Procs |-> result[p]])'
<1>1. allocated = 0 /\ head = Null /\ (\A p \in Procs : pc[p] \in {"closed", "orphan", "crashed"})
      => /\ files = [p \in Procs |-> << >>]
         /\ liveMinors = {}
         /\ texts = [m \in Minors |-> [c \in Channels |-> << >>]]
         /\ buffers = [p \in Procs |-> got[p]]
         /\ results = [p \in Procs |-> result[p]]
  BY RegisterEmpty
<1> QED BY <1>1, PTL

LEMMA RegisterInit ==
  ASSUME Init
  PROVE  Register!Init
<1>1. /\ allocated = 0 /\ head = Null /\ \A p \in Procs : pc[p] = "closed"
      /\ got = [p \in Procs |-> << >>] /\ result = [p \in Procs |-> 0]
  BY DEF Init
<1> QED BY <1>1, RegisterEmpty DEF Register!Init, Register!Closed

\* The device is removed with the module, and a module that is loaded finds the
\* register empty.
LEMMA RegisterModule ==
  ASSUME IInv, Unload \/ Load
  PROVE  RegisterStep
<1>1. CASE Unload
  <2>1. /\ allocated' = 0 /\ head' = Null
        /\ \A p \in Procs : pc'[p] \in {"closed", "orphan", "crashed"}
        /\ got' = [p \in Procs |-> << >>] /\ result' = [p \in Procs |-> 0]
    BY <1>1, UnloadPlaces DEF Unload, CleanList
  <2>2. /\ files' = [p \in Procs |-> << >>]
        /\ liveMinors' = {}
        /\ texts' = [m \in Minors |-> [c \in Channels |-> << >>]]
        /\ buffers' = [p \in Procs |-> got'[p]]
        /\ results' = [p \in Procs |-> result'[p]]
    BY <2>1, RegisterEmptyNext
  <2>3. Register!Remove
    BY <2>1, <2>2 DEF Register!Remove, Register!Closed
  <2> QED BY <2>3 DEF RegisterStep, Register!Next
<1>2. CASE Load
  <2>1. /\ allocated = 0 /\ \A p \in Procs : pc[p] \in {"closed", "orphan", "crashed"}
        /\ head \in Nodes
    BY <1>2 DEF Load, IInv, ListInOrder, TypeOK, DeviceTypeOK
  <2>2. head = Null
    BY <2>1 DEF Nodes, Null
  <2>3. /\ allocated' = allocated /\ head' = Null /\ pc' = pc /\ got' = got /\ result' = result
    BY <1>2 DEF Load
  <2>4. /\ files = files' /\ liveMinors = liveMinors' /\ texts = texts'
        /\ buffers' = buffers /\ results' = results
    BY <2>1, <2>2, <2>3, RegisterEmpty, RegisterEmptyNext
  <2> QED BY <2>4 DEF RegisterStep, Register!vars
<1> QED BY <1>1, <1>2

LEMMA RegisterIdle ==
  ASSUME UNCHANGED vars
  PROVE  UNCHANGED Register!vars
<1> USE DEF vars, device
<1>1. \A m : GetMinorNode(m)' = GetMinorNode(m)
  BY DEF GetMinorNode, FirstFrom, Hits, NodesFrom
<1>2. \A m, c : Text(m, c)' = Text(m, c)
  BY <1>1 DEF Text
<1>3. files' = files /\ liveMinors' = liveMinors
  BY <1>1 DEF files, liveMinors
<1>4. \A q \in Procs : BufferOf(q)' = BufferOf(q) /\ ResultOf(q)' = ResultOf(q)
  <2> SUFFICES ASSUME NEW q \in Procs, NEW m, m = minor[q], NEW c, c = channel[q]
               PROVE  BufferOf(q)' = BufferOf(q) /\ ResultOf(q)' = ResultOf(q)
    OBVIOUS
  <2>1. Text(minor[q], channel[q])' = Text(m, c)
    BY <1>2
  <2> QED BY <2>1 DEF BufferOf, ResultOf
<1>5. buffers' = buffers /\ results' = results
  BY <1>4, Mapped, MappedNext
<1>6. texts' = texts
  BY DEF texts, Writing, Whole, Text, GetMinorNode, FirstFrom, Hits, NodesFrom, Stored
<1> QED BY <1>3, <1>5, <1>6 DEF Register!vars

\* Calls that do not overlap make the device a register for each channel of each
\* minor (device_open to device_release, simple_cleanup and simple_init).
THEOREM Refines ==
  ASSUME Serial
  PROVE  Spec => ImplementsRegister
<1>1. Init => Register!Init
  BY RegisterInit
<1>2. IInv /\ SerialOrder /\ [Next]_vars => [Register!Next]_(Register!vars)
  BY RegisterCalls, RegisterModule, RegisterIdle DEF Next, RegisterStep
<1> QED BY <1>1, <1>2, SerialInvariance, PTL DEF Spec, ImplementsRegister, Register!Spec

(***************************************************************************)
(* What a program sees of a slot that it has to itself.                    *)
(***************************************************************************)

UserSteps(p) ==
  /\ Program(p) \/ InDriver(p) \/ WriteReturns(p) \/ FileCloses(p)
  /\ Disturb(p)

\* What the program of q has stays as it is.
KeepsProgram(q) == job'[q] = job[q] /\ ppc'[q] = ppc[q] /\ outcome'[q] = outcome[q]

LEMMA UsersBasics ==
  ASSUME UsersInv, NEW p \in Procs, UserSteps(p)
  PROVE  /\ DriverInOrder /\ CallsTypeOK /\ IInv' /\ CallsTypeOK' /\ ProgramsTypeOK'
         /\ allocated \in Nat /\ head \in 0 .. allocated /\ ListType /\ ListType'
         /\ Call(p) \/ UNCHANGED vars
<1>1. IInv /\ ProgramsTypeOK
  BY DEF UsersInv
<1>2. IInv' /\ ProgramsTypeOK'
  BY <1>1, UsersStep DEF UsersNext, UserSteps
<1>3. DriverInOrder /\ CallsTypeOK
  BY <1>1 DEF IInv, TypeOK, DriverInOrder
<1>4. CallsTypeOK' /\ DeviceTypeOK' /\ ListInOrder'
  BY <1>2 DEF IInv, TypeOK
<1>5. ListType'
  BY <1>4, TypesOfListNext
<1>6. Call(p) \/ UNCHANGED vars
  BY <1>1, UsersCall DEF UserSteps
<1> QED BY <1>2, <1>3, <1>4, <1>5, <1>6, TypesOfList DEF DriverInOrder, Nodes

LEMMA UsersOthers ==
  ASSUME UsersInv, NEW p \in Procs, UserSteps(p), NEW q \in Procs \ {p}
  PROVE  /\ Keeps(q) /\ KeepsProgram(q)
         /\ disturbed'[q] <=> \/ disturbed[q]
                              \/ InCall(q)' /\ \E r \in Procs \ {q} : InCall(r)'
                              \/ pc[p] = "releaseFound" /\ Uses(q, minor[p])
<1>1. Keeps(q)
  <2>1. CASE Call(p)
    BY <2>1, UsersBasics, CallOthers
  <2>2. CASE UNCHANGED vars
    BY <2>2 DEF vars, Keeps
  <2> QED BY <2>1, <2>2, UsersBasics
<1>2. KeepsProgram(q)
  <2> USE DEF UsersInv, ProgramsTypeOK, KeepsProgram
  <2>1. ASSUME NEW j \in Jobs, Start(p, j) PROVE KeepsProgram(q)
    BY <2>1 DEF Start
  <2>2. CASE OpenSlot(p) \/ SetChannel(p) \/ Transfer(p) \/ CloseSlot(p) \/ Exit(p)
    BY <2>2 DEF OpenSlot, SetChannel, Transfer, CloseSlot, Exit, Goto
  <2>3. CASE InDriver(p) \/ WriteReturns(p) \/ FileCloses(p)
    BY <2>3 DEF InDriver, WriteReturns, FileCloses, programVars
  <2> QED BY <2>1, <2>2, <2>3 DEF UserSteps, Program
<1>3. disturbed'[q] <=> \/ disturbed[q]
                        \/ InCall(q)' /\ \E r \in Procs \ {q} : InCall(r)'
                        \/ pc[p] = "releaseFound" /\ Uses(q, minor[p])
  BY DEF UserSteps, Disturb
<1> QED BY <1>1, <1>2, <1>3

\* A program that is not starting forgets nothing.
LEMMA UsersOwn ==
  ASSUME UsersInv, NEW p \in Procs, UserSteps(p)
  PROVE  /\ ppc[p] # "idle" /\ ~ disturbed'[p] =>
              /\ ~ disturbed[p]
              /\ ~ (InCall(p)' /\ \E r \in Procs \ {p} : InCall(r)')
         /\ ppc[p] # "idle" /\ InCall(p)' /\ (\E r \in Procs \ {p} : InCall(r)') => disturbed'[p]
         /\ ppc[p] = "idle" => /\ \E j \in Jobs : Start(p, j)
                               /\ UNCHANGED vars /\ pc[p] = "closed"
<1>1. disturbed'[p] <=> /\ ppc[p] # "idle"
                        /\ \/ disturbed[p]
                           \/ InCall(p)' /\ \E r \in Procs \ {p} : InCall(r)'
                           \/ pc[p] = "releaseFound" /\ Uses(p, minor[p])
  BY DEF UserSteps, Disturb
<1>2. CASE ppc[p] = "idle"
  <2>1. pc[p] = "closed"
    BY <1>2 DEF UsersInv, ProgramInOrder, PlacesAt
  <2>2. ~ (InDriver(p) \/ WriteReturns(p) \/ FileCloses(p))
    BY <2>1 DEF InDriver, WriteReturns, FileCloses, OpenExisting, OpenInsert, OpenPublish,
       WriteCheck, WriteRefused, WriteByte, WriteLength, ReadCheck, ReadRefused, ReadByte,
       ReadEnd, ReleaseClose
  <2>3. \E j \in Jobs : Start(p, j)
    BY <1>2, <2>2 DEF UserSteps, Program, OpenSlot, SetChannel, Transfer, CloseSlot, Exit
  <2>4. UNCHANGED vars
    BY <2>3 DEF Start
  <2> QED BY <1>2, <2>1, <2>3, <2>4
<1>3. CASE ppc[p] # "idle"
  BY <1>1, <1>3
<1> QED BY <1>2, <1>3

LEMMA UsersOverlaps ==
  ASSUME UsersInv, NEW p \in Procs, UserSteps(p)
  PROVE  OverlapsSeen'
<1> SUFFICES ASSUME NEW q \in Procs, NEW r \in Procs, q # r, InCall(q)', InCall(r)'
             PROVE  disturbed'[q]
  BY DEF OverlapsSeen
<1>1. CASE q # p
  BY <1>1, UsersOthers
<1>2. CASE q = p
  <2>1. ppc[p] # "idle"
    <3>1. CASE ppc[p] = "idle"
      <4>1. pc'[p] = "closed"
        BY <3>1, UsersOwn DEF vars
      <4> QED BY <1>2, <4>1 DEF InCall
    <3> QED BY <3>1
  <2> QED BY <1>2, <2>1, UsersOwn
<1> QED BY <1>1, <1>2

\* While an undisturbed call of q is served, another process does nothing that the
\* driver notices.
LEMMA UsersAlone ==
  ASSUME UsersInv, NEW p \in Procs, UserSteps(p), NEW q \in Procs \ {p},
         InCall(q), ~ disturbed'[q]
  PROVE  /\ UNCHANGED device
         /\ \A m : GetMinorNode(m)' = GetMinorNode(m)
<1>1. ~ disturbed[q] /\ Keeps(q) /\ ~ (InCall(q)' /\ \E r \in Procs \ {q} : InCall(r)')
  BY UsersOthers
<1>2. InCall(q)'
  BY <1>1 DEF Keeps, InCall
<1>3. ~ InCall(p) /\ ~ InCall(p)'
  <2>1. ~ InCall(p)
    BY <1>1 DEF UsersInv, OverlapsSeen
  <2> QED BY <1>1, <1>2, <2>1
<1>4. UNCHANGED device
  <2>1. CASE UNCHANGED vars
    BY <2>1 DEF vars
  <2>2. CASE Call(p)
    <3>1. CallsTypeOK
      BY UsersBasics
    <3>2. pc[p] \in Places /\ pc'[p] \in Places
      BY UsersBasics DEF CallsTypeOK
    <3>3. ASSUME NEW m \in Minors, Open(p, m) PROVE FALSE
      <4>1. pc'[p] = "openFound"
        BY <3>1, <3>3 DEF Open, CallsTypeOK
      <4> QED BY <1>3, <4>1 DEF InCall
    <3>4. ASSUME NEW c \in Params, Ioctl(p, c) PROVE UNCHANGED device
      BY <3>4 DEF Ioctl
    <3>5. ASSUME NEW m \in Messages, Write(p, m) PROVE UNCHANGED device
      BY <3>5 DEF Write
    <3>6. ASSUME NEW size \in ReadSizes, Read(p, size) PROVE UNCHANGED device
      BY <3>6 DEF Read
    <3>7. CASE Release(p) \/ OrphanCalls(p) \/ Replaced(p)
      BY <3>7 DEF Release, OrphanCalls, Replaced
    <3>8. ~ (OpenExisting(p) \/ OpenInsert(p) \/ OpenInsertFails(p) \/ OpenPublish(p)
             \/ ReleaseClose(p) \/ WriteCheck(p) \/ WriteRefused(p) \/ WriteByte(p)
             \/ WriteLength(p) \/ ReadCheck(p) \/ ReadRefused(p) \/ ReadByte(p)
             \/ ReadEnd(p))
      BY <1>3 DEF InCall, OpenExisting, OpenInsert, OpenInsertFails, OpenPublish,
         ReleaseClose, WriteCheck, WriteRefused, WriteByte, WriteLength, ReadCheck,
         ReadRefused, ReadByte, ReadEnd
    <3> QED BY <2>2, <3>3, <3>4, <3>5, <3>6, <3>7, <3>8, Zenon DEF Call
  <2> QED BY <2>1, <2>2, UsersBasics
<1>5. \A m : GetMinorNode(m)' = GetMinorNode(m)
  BY <1>4 DEF device, GetMinorNode, FirstFrom, Hits, NodesFrom
<1> QED BY <1>4, <1>5

\* A walk finds in the nodes that were there what it found.
LEMMA UsersWalks ==
  ASSUME UsersInv, NEW p \in Procs, UserSteps(p)
  PROVE  /\ allocated' \in allocated .. MaxNodes
         /\ \A k \in 1 .. allocated : /\ node'[k].value = node[k].value
                                      /\ node'[k].next = node[k].next
         /\ \A n \in 0 .. allocated : \A m : FirstFrom(n, m)' = FirstFrom(n, m)
<1>1. /\ allocated' \in allocated .. MaxNodes
      /\ \A k \in 1 .. allocated : /\ node'[k].value = node[k].value
                                   /\ node'[k].next = node[k].next
  <2>1. CASE Call(p)
    BY <2>1, UsersBasics, CallNodes
  <2>2. CASE UNCHANGED vars
    <3>1. allocated' = allocated /\ node' = node
      BY <2>2 DEF vars, device
    <3>2. allocated \in 0 .. MaxNodes
      BY UsersBasics DEF DriverInOrder, DeviceTypeOK
    <3> QED BY <3>1, <3>2, SizesType
  <2> QED BY <2>1, <2>2, UsersBasics
<1>2. allocated <= allocated'
  BY <1>1, UsersBasics, SizesType
<1> QED BY <1>1, <1>2, UsersBasics, OlderFirst

LEMMA SettledNode ==
  ASSUME UsersInv, NEW m, Settled(m)
  PROVE  GetMinorNode(m) \in 1 .. allocated /\ node[GetMinorNode(m)].value = m
<1>1. DeviceTypeOK /\ ListInOrder
  BY DEF UsersInv, IInv, TypeOK
<1> QED BY <1>1, TypesOfList DEF Settled, Nodes, Null

\* Once a minor has a node that nobody loses, it has it for good.
LEMMA SettledStays ==
  ASSUME UsersInv, NEW p \in Procs, UserSteps(p), NEW m, Settled(m)
  PROVE  Settled(m)' /\ GetMinorNode(m)' = GetMinorNode(m)
<1>1. /\ allocated \in Nat /\ CallsTypeOK /\ CallsTypeOK' /\ ListType
      /\ head \in 0 .. allocated /\ GetMinorNode(m) # Null /\ CallsInOrder
      /\ \A q \in Procs :
           /\ pc[q] = "openFound" /\ found[q] = Null => minor[q] # m
           /\ pc[q] = "publish" =>
                minor[q] # m /\ FirstFrom(node[found[q]].next, m) = GetMinorNode(m)
  BY UsersBasics DEF Settled, UsersInv, IInv
<1>2. \A q \in Procs : pc[q] = "publish" =>
        /\ found[q] \in 1 .. allocated /\ node[found[q]].next \in 0 .. allocated
        /\ node[found[q]].value = minor[q]
  <2> SUFFICES ASSUME NEW q \in Procs, pc[q] = "publish"
               PROVE  /\ found[q] \in 1 .. allocated
                      /\ node[found[q]].next \in 0 .. allocated
                      /\ node[found[q]].value = minor[q]
    OBVIOUS
  <2>1. found[q] \in 1 .. allocated /\ node[found[q]].value = minor[q]
    BY <1>1 DEF CallsTypeOK, CallsInOrder, CallInOrder, Nodes, Null
  <2>2. node[found[q]].next < found[q] /\ node[found[q]].next \in Nat
    BY <1>1, <2>1 DEF ListType
  <2> QED BY <1>1, <2>1, <2>2
<1>3. GetMinorNode(m)' = GetMinorNode(m)
  <2>1. CASE OpenPublish(p)
    <3>1. /\ found[p] \in 1 .. allocated /\ pc[p] = "publish"
          /\ GetMinorNode(m)' = FirstFrom(found[p], m)
      BY <2>1, HeadMoves DEF UsersInv, OpenPublish
    <3>2. FirstFrom(found[p], m) = IF node[found[p]].value = m THEN found[p]
                                   ELSE FirstFrom(node[found[p]].next, m)
      BY <1>1, <3>1, Walks DEF WalkFacts
    <3> QED BY <1>1, <1>2, <3>1, <3>2
  <2>2. CASE Call(p) /\ ~ OpenPublish(p)
    BY <2>2, HeadOnlyPublished, HeadStays DEF UsersInv
  <2>3. CASE UNCHANGED vars
    BY <2>3 DEF vars, device, GetMinorNode, FirstFrom, Hits, NodesFrom
  <2> QED BY <2>1, <2>2, <2>3, UsersBasics
<1>4. ASSUME NEW q \in Procs, pc'[q] = "openFound", found'[q] = Null
      PROVE  minor'[q] # m
  <2>1. CASE pc[q] = "openFound" /\ found[q] = Null /\ minor'[q] = minor[q]
    BY <1>1, <2>1
  <2>2. CASE ~ (pc[q] = "openFound" /\ found[q] = Null /\ minor'[q] = minor[q])
    <3>1. q = p
      BY <1>4, <2>2, UsersOthers DEF Keeps
    <3>2. Call(p)
      BY <1>4, <2>2, <3>1, UsersBasics DEF vars
    <3>3. PICK x \in Minors : Open(p, x)
      BY <1>1, <1>4, <2>2, <3>1, <3>2
      DEF Call, CallsTypeOK, OpenExisting, OpenInsert, OpenInsertFails, OpenPublish, Return,
          Ioctl, Release, ReleaseClose, Write, WriteCheck, WriteRefused, Oops, WriteByte,
          WriteLength, Read, ReadCheck, ReadRefused, ReadByte, ReadEnd, OrphanCalls, Replaced
    <3>4. found'[p] = GetMinorNode(x) /\ minor'[p] = x
      BY <1>1, <3>3 DEF Open, CallsTypeOK
    <3> QED BY <1>1, <1>4, <3>1, <3>4
  <2> QED BY <2>1, <2>2
<1>5. ASSUME NEW q \in Procs, pc'[q] = "publish"
      PROVE  minor'[q] # m /\ FirstFrom(node[found[q]].next, m)' = GetMinorNode(m)
  <2>1. CASE OpenInsert(p) /\ q = p
    <3>1. /\ found'[q] = allocated + 1 /\ minor'[q] = minor[q]
          /\ pc[q] = "openFound" /\ found[q] = Null
      BY <1>1, <2>1 DEF OpenInsert, CallsTypeOK
    <3>2. node'[allocated + 1].next = head
      BY <2>1, UsersBasics, AddsNode
    <3>3. ASSUME NEW h, h = head PROVE FirstFrom(node[found[q]].next, m)' = GetMinorNode(m)
      <4>1. FirstFrom(h, m)' = FirstFrom(h, m)
        BY <1>1, <3>3, UsersWalks
      <4>2. FirstFrom(node[found[q]].next, m)' = FirstFrom(h, m)'
        BY <3>1, <3>2, <3>3
      <4> QED BY <3>3, <4>1, <4>2 DEF GetMinorNode
    <3> QED BY <1>1, <3>1, <3>3
  <2>2. CASE ~ (OpenInsert(p) /\ q = p)
    <3>1. pc[q] = "publish" /\ found'[q] = found[q] /\ minor'[q] = minor[q]
      <4>1. CASE q # p
        BY <1>5, <4>1, UsersOthers DEF Keeps
      <4>2. CASE q = p /\ UNCHANGED vars
        BY <1>5, <4>2 DEF vars
      <4>3. CASE q = p /\ Call(p)
        BY <1>1, <1>5, <2>2, <4>3
        DEF Call, CallsTypeOK, Open, OpenExisting, OpenInsertFails, OpenPublish, Return,
          Ioctl, Release, ReleaseClose, Write, WriteCheck, WriteRefused, Oops, WriteByte,
          WriteLength, Read, ReadCheck, ReadRefused, ReadByte, ReadEnd, OrphanCalls, Replaced
      <4> QED BY <4>1, <4>2, <4>3, UsersBasics
    <3>2. ASSUME NEW h, h = node[found[q]].next
          PROVE  FirstFrom(node[found[q]].next, m)' = GetMinorNode(m)
      <4>1. h \in 0 .. allocated /\ FirstFrom(h, m) = GetMinorNode(m)
        BY <1>1, <1>2, <3>1, <3>2
      <4>2. FirstFrom(h, m)' = FirstFrom(h, m)
        BY <4>1, UsersWalks
      <4>3. node'[found[q]].next = h
        BY <1>2, <3>1, <3>2, UsersWalks
      <4>4. FirstFrom(node[found[q]].next, m)' = FirstFrom(h, m)'
        BY <3>1, <4>3
      <4> QED BY <4>1, <4>2, <4>4
    <3> QED BY <1>1, <3>1, <3>2
  <2> QED BY <2>1, <2>2
<1> QED BY <1>1, <1>3, <1>4, <1>5 DEF Settled

LEMMA PlacesOfSteps ==
  /\ PlacesAt("idle") = {"closed"} /\ PlacesAt("open") = {"closed"}
  /\ PlacesAt("ioctl") = {"openFound", "publish", "ready"}
  /\ PlacesAt("transfer") = {"ready"}
  /\ PlacesAt("close") = {"ready", "writeFound", "writing", "readFound", "reading", "oops"}
  /\ PlacesAt("exit") = {"releaseFound", "closed"}
  BY DEF PlacesAt

\* Where a program is says where its call is, and the other way round.
LEMMA ProgramPlaces ==
  ASSUME UsersInv, NEW p \in Procs
  PROVE  /\ ppc[p] \in {"idle", "open"} => pc[p] = "closed"
         /\ ppc[p] = "ioctl" => pc[p] \in {"openFound", "publish", "ready"}
         /\ ppc[p] = "transfer" => pc[p] = "ready"
         /\ ppc[p] = "close" => pc[p] \in {"ready", "writeFound", "writing", "readFound",
                                           "reading", "oops"}
         /\ pc[p] \in {"openFound", "publish"} => ppc[p] = "ioctl"
         /\ pc[p] \in {"writeFound", "writing", "readFound", "reading", "oops"} =>
              ppc[p] = "close"
         /\ pc[p] = "releaseFound" => ppc[p] = "exit"
         /\ ppc[p] \in {"idle", "open", "ioctl", "transfer", "close", "exit"}
<1>1. pc[p] \in PlacesAt(ppc[p])
      /\ ppc[p] \in {"idle", "open", "ioctl", "transfer", "close", "exit"}
  BY DEF UsersInv, ProgramInOrder, ProgramsTypeOK, Steps
<1>2. ASSUME NEW x, NEW y, x \in PlacesAt(y),
             y \in {"idle", "open", "ioctl", "transfer", "close", "exit"}
      PROVE  /\ y \in {"idle", "open"} => x = "closed"
             /\ y = "ioctl" => x \in {"openFound", "publish", "ready"}
             /\ y = "transfer" => x = "ready"
             /\ y = "close" => x \in {"ready", "writeFound", "writing", "readFound",
                                      "reading", "oops"}
             /\ x \in {"openFound", "publish"} => y = "ioctl"
             /\ x \in {"writeFound", "writing", "readFound", "reading", "oops"} => y = "close"
             /\ x = "releaseFound" => y = "exit"
  BY <1>2, PlacesOfSteps
<1> QED BY <1>1, <1>2

LEMMA ProgramOthers ==
  ASSUME UsersInv, NEW p \in Procs, UserSteps(p), NEW q \in Procs \ {p}
  PROVE  ProgramInOrder(q)'
<1>1. /\ Keeps(q) /\ KeepsProgram(q) /\ ProgramInOrder(q)
      /\ ~ disturbed'[q] => ~ disturbed[q]
  BY UsersOthers DEF UsersInv
<1> QED BY <1>1 DEF ProgramInOrder, Keeps, KeepsProgram

\* The node and the bytes of an undisturbed write or read: it is not refused.
LEMMA NotRefused ==
  ASSUME UsersInv, NEW p \in Procs, ~ disturbed[p],
         pc[p] \in {"writeFound", "writing", "readFound", "reading"}
  PROVE  /\ Settled(minor[p]) /\ found[p] = GetMinorNode(minor[p])
         /\ found[p] \in 1 .. allocated /\ node[found[p]].value = minor[p]
         /\ channel[p] \in Channels /\ LengthNow(p) \in Lengths
         /\ ~ WriteRefused(p) /\ ~ ReadRefused(p)
<1>1. SlotInOrder(p) /\ CallInOrder(p) /\ DeviceTypeOK
  BY DEF UsersInv, IInv, TypeOK, CallsInOrder
<1>2. Settled(minor[p]) /\ found[p] = GetMinorNode(minor[p])
  BY <1>1 DEF SlotInOrder
<1>3. found[p] \in 1 .. allocated /\ node[found[p]].value = minor[p]
  BY <1>2, SettledNode
<1>4. channel[p] \in Channels
  BY <1>1 DEF CallInOrder
<1>5. LengthNow(p) \in Lengths
  BY <1>1, <1>3, <1>4 DEF DeviceTypeOK, NodeType, LengthNow
<1>6. ~ WriteRefused(p)
  <2>1. pc[p] = "writeFound" => node[found[p]].open
    BY <1>1 DEF SlotInOrder
  <2>2. found[p] # Null
    BY <1>2 DEF Settled
  <2> QED BY <2>1, <2>2 DEF WriteRefused
<1>7. ~ ReadRefused(p)
  <2>1. pc[p] = "readFound" => node[found[p]].open /\ arg[p] = MaxBufferSize
    BY <1>1, BufferAssumption DEF SlotInOrder, CallInOrder
  <2>2. found[p] # Null
    BY <1>2 DEF Settled
  <2>3. LengthNow(p) <= MaxBufferSize
    BY <1>5, SizesType, BufferAssumption
  <2> QED BY <2>1, <2>2, <2>3 DEF ReadRefused, Fits
<1> QED BY <1>2, <1>3, <1>4, <1>5, <1>6, <1>7

LEMMA ProgramOwn ==
  ASSUME UsersInv, NEW p \in Procs, UserSteps(p)
  PROVE  ProgramInOrder(p)'
<1>1. /\ CallsTypeOK /\ ProgramsTypeOK /\ ProgramInOrder(p) /\ job[p] \in Jobs
      /\ ppc[p] # "idle" /\ ~ disturbed'[p] => ~ disturbed[p]
  BY UsersBasics, UsersOwn DEF UsersInv, ProgramsTypeOK
<1>2. SUFFICES
        /\ pc'[p] \in PlacesAt(ppc'[p])
        /\ ppc'[p] \notin {"idle", "exit"} => outcome'[p] = "none"
        /\ GoodJob(job'[p]) /\ ~ disturbed'[p] =>
             /\ ppc'[p] = "transfer" => channel'[p] = job'[p].channel
             /\ ppc'[p] = "close" => pc'[p] # "oops" /\ (pc'[p] = "ready" => result'[p] >= 0)
             /\ outcome'[p] # "none" => outcome'[p] = "success"
  BY DEF ProgramInOrder, GoodJob
<1>3. CASE ppc[p] = "idle"
  <2>1. PICK j \in Jobs : Start(p, j)
    BY <1>3, UsersOwn
  <2>2. pc'[p] = "closed"
    BY <1>3, UsersOwn DEF vars
  <2>3. job'[p] = j
    BY <1>1, <2>1 DEF Start, ProgramsTypeOK
  <2>4. CASE TooLong(j)
    <3>1. ppc'[p] = "idle"
      BY <1>1, <1>3, <2>1, <2>4 DEF Start, ProgramsTypeOK
    <3>2. ~ GoodJob(j)
      <4>1. Length[j.message] \in Nat /\ j.role = "sender" /\ Length[j.message] > MaxBufferSize
        BY <2>4, JobType, SizesAssumption DEF TooLong
      <4> QED BY <4>1, SizesAssumption DEF GoodJob
    <3> QED BY <2>2, <2>3, <3>1, <3>2, PlacesOfSteps
  <2>5. CASE ~ TooLong(j)
    <3>1. ppc'[p] = "open" /\ outcome'[p] = "none"
      BY <1>1, <2>1, <2>5 DEF Start, ProgramsTypeOK
    <3> QED BY <2>2, <3>1, PlacesOfSteps
  <2> QED BY <2>4, <2>5
<1>4. CASE OpenSlot(p)
  <2>1. ppc[p] = "open" /\ ppc'[p] = "ioctl" /\ outcome'[p] = outcome[p]
    BY <1>1, <1>4 DEF OpenSlot, Goto, ProgramsTypeOK
  <2>2. pc'[p] = "openFound"
    BY <1>1, <1>4 DEF OpenSlot, Open, CallsTypeOK
  <2> QED BY <1>1, <2>1, <2>2, PlacesOfSteps DEF ProgramInOrder
<1>5. CASE SetChannel(p)
  <2>1. /\ ppc[p] = "ioctl" /\ outcome'[p] = outcome[p] /\ job'[p] = job[p]
        /\ Ioctl(p, job[p].channel)
    BY <1>5 DEF SetChannel, Goto
  <2>2. ppc'[p] = IF result'[p] < 0 THEN "close" ELSE "transfer"
    <3> DEFINE place == IF result'[p] < 0 THEN "close" ELSE "transfer"
    <3>1. ppc' = [ppc EXCEPT ![p] = place]
      BY <1>5 DEF SetChannel, Goto
    <3> HIDE DEF place
    <3>2. ppc'[p] = place
      BY <1>1, <3>1 DEF ProgramsTypeOK
    <3> QED BY <3>2 DEF place
  <2>3. pc'[p] = "ready"
    BY <1>1, <2>1 DEF Ioctl, Return, CallsTypeOK
  <2>4. GoodJob(job[p]) => channel'[p] = job[p].channel /\ result'[p] = 0
    BY <1>1, <2>1 DEF GoodJob, Ioctl, Return, CallsTypeOK
  <2>5. outcome[p] = "none"
    BY <1>1, <2>1 DEF ProgramInOrder
  <2>6. ppc'[p] \in {"close", "transfer"} /\ (result'[p] = 0 => ppc'[p] = "transfer")
    BY <2>2
  <2> QED BY <2>1, <2>3, <2>4, <2>5, <2>6, PlacesOfSteps
<1>6. CASE Transfer(p)
  <2>1. /\ ppc[p] = "transfer" /\ ppc'[p] = "close" /\ outcome'[p] = outcome[p]
        /\ job'[p] = job[p]
    BY <1>1, <1>6 DEF Transfer, Goto, ProgramsTypeOK
  <2>2. outcome[p] = "none"
    BY <1>1, <2>1 DEF ProgramInOrder
  <2>3. /\ job[p].role = "sender" => Write(p, job[p].message)
        /\ job[p].role # "sender" => Read(p, MaxBufferSize)
    BY <1>6 DEF Transfer
  <2>4. pc'[p] \in {"ready", "writeFound", "readFound"}
    BY <1>1, <2>3 DEF Write, Read, Return, CallsTypeOK
  <2>5. GoodJob(job[p]) /\ ~ disturbed'[p] => pc'[p] # "ready"
    <3>1. SUFFICES ASSUME GoodJob(job[p]), ~ disturbed'[p] PROVE pc'[p] # "ready"
      OBVIOUS
    <3>2. channel[p] # NoChannel
      <4>1. channel[p] = job[p].channel
        BY <1>1, <2>1, <3>1 DEF ProgramInOrder
      <4> QED BY <3>1, <4>1, SizesType DEF GoodJob
    <3>3. CASE job[p].role = "sender"
      <4>1. Length[job[p].message] >= PointerSize
        BY <3>1, <3>3, SizesType DEF GoodJob
      <4> QED BY <1>1, <2>3, <3>2, <3>3, <4>1 DEF Write, Writable, CallsTypeOK
    <3>4. CASE job[p].role # "sender"
      BY <1>1, <2>3, <3>2, <3>4 DEF Read, CallsTypeOK
    <3> QED BY <3>3, <3>4
  <2> QED BY <2>1, <2>2, <2>4, <2>5, PlacesOfSteps
<1>7. CASE CloseSlot(p)
  <2>1. /\ ppc[p] = "close" /\ ppc'[p] = "exit" /\ job'[p] = job[p] /\ Release(p)
    BY <1>1, <1>7 DEF CloseSlot, ProgramsTypeOK
  <2>2. pc'[p] = "releaseFound" /\ pc[p] \in {"ready", "oops"}
    BY <1>1, <2>1 DEF Release, CallsTypeOK
  <2>3. GoodJob(job[p]) /\ ~ disturbed'[p] => outcome'[p] = "success"
    <3>1. SUFFICES ASSUME GoodJob(job[p]), ~ disturbed'[p] PROVE outcome'[p] = "success"
      OBVIOUS
    <3>2. pc[p] # "oops" /\ result[p] >= 0
      BY <1>1, <2>1, <2>2, <3>1 DEF ProgramInOrder
    <3>3. ~ (result[p] < 0)
      <4>1. result[p] \in Int
        <5>1. result[p] \in Results
          BY <1>1 DEF CallsTypeOK
        <5> QED BY <5>1, SizesType DEF Results, EINVAL
      <4> QED BY <3>2, <4>1
    <3> DEFINE o == CASE pc[p] = "oops"  -> "killed"
                      [] result[p] < 0   -> "failure"
                      [] OTHER           -> "success"
    <3>4. o = "success"
      BY <3>2, <3>3
    <3>5. outcome' = [outcome EXCEPT ![p] = o]
      BY <1>7 DEF CloseSlot
    <3> HIDE DEF o
    <3> QED BY <1>1, <3>4, <3>5 DEF ProgramsTypeOK
  <2> QED BY <2>1, <2>2, <2>3, PlacesOfSteps
<1>8. CASE Exit(p)
  <2>1. /\ ppc[p] = "exit" /\ ppc'[p] = "idle" /\ pc[p] = "closed" /\ pc'[p] = pc[p]
        /\ outcome'[p] = outcome[p] /\ job'[p] = job[p]
    BY <1>1, <1>8 DEF Exit, Goto, ProgramsTypeOK, vars
  <2> QED BY <1>1, <2>1, PlacesOfSteps DEF ProgramInOrder
<1>9. CASE InDriver(p) \/ WriteReturns(p) \/ FileCloses(p)
  <2>1. job'[p] = job[p] /\ ppc'[p] = ppc[p] /\ outcome'[p] = outcome[p]
    BY <1>9 DEF InDriver, WriteReturns, FileCloses, programVars
  <2>2. CASE OpenExisting(p) \/ OpenInsert(p) \/ OpenPublish(p)
    <3>1. pc[p] \in {"openFound", "publish"} /\ pc'[p] \in {"publish", "ready"}
      BY <1>1, <2>2 DEF OpenExisting, OpenInsert, OpenPublish, Return, CallsTypeOK
    <3>2. ppc[p] = "ioctl"
      BY <3>1, ProgramPlaces
    <3> QED BY <1>1, <2>1, <3>1, <3>2, PlacesOfSteps DEF ProgramInOrder
  <2>3. CASE WriteCheck(p) \/ WriteByte(p) \/ ReadCheck(p) \/ ReadByte(p)
    <3>1. /\ pc[p] \in {"writeFound", "writing", "readFound", "reading"}
          /\ pc'[p] \in {"writing", "reading"}
      BY <1>1, <2>3 DEF WriteCheck, WriteByte, ReadCheck, ReadByte, CallsTypeOK
    <3>2. ppc[p] = "close"
      BY <3>1, ProgramPlaces
    <3> QED BY <1>1, <2>1, <3>1, <3>2, PlacesOfSteps DEF ProgramInOrder
  <2>4. CASE WriteRefused(p) \/ ReadRefused(p)
    <3>1. /\ pc[p] \in {"writeFound", "writing", "readFound", "reading"}
          /\ pc'[p] \in {"oops", "ready"}
      BY <1>1, <2>4 DEF WriteRefused, ReadRefused, Oops, Return, CallsTypeOK
    <3>2. ppc[p] = "close"
      BY <3>1, ProgramPlaces
    <3>3. disturbed[p]
      BY <2>4, <3>1, NotRefused
    <3> QED BY <1>1, <2>1, <3>1, <3>2, <3>3, PlacesOfSteps DEF ProgramInOrder
  <2>5. CASE WriteReturns(p) \/ ReadEnd(p)
    <3>1. /\ pc[p] \in {"writing", "reading"} /\ pc'[p] = "ready" /\ result'[p] = i[p]
      BY <1>1, <2>5 DEF WriteReturns, WriteLength, ReadEnd, Return, CallsTypeOK
    <3>2. ppc[p] = "close"
      BY <3>1, ProgramPlaces
    <3>3. i[p] >= 0
      <4>1. i[p] \in Lengths
        BY <1>1 DEF CallsTypeOK
      <4> QED BY <4>1, SizesType
    <3> QED BY <1>1, <2>1, <3>1, <3>2, <3>3, PlacesOfSteps DEF ProgramInOrder
  <2>6. CASE FileCloses(p)
    <3>1. pc[p] = "releaseFound" /\ pc'[p] = "closed"
      BY <1>1, <2>6 DEF FileCloses, ReleaseClose, CallsTypeOK
    <3>2. ppc[p] = "exit"
      BY <3>1, ProgramPlaces
    <3> QED BY <1>1, <2>1, <3>1, <3>2, PlacesOfSteps DEF ProgramInOrder
  <2> QED BY <1>9, <2>2, <2>3, <2>4, <2>5, <2>6 DEF InDriver
<1> QED
  BY <1>3, <1>4, <1>5, <1>6, <1>7, <1>8, <1>9, UsersOwn DEF UserSteps, Program, Start

\* Only an open and a close change the flag of a node.
LEMMA CallOpens ==
  ASSUME DriverInOrder, NEW p \in Procs, Call(p), NEW n \in 1 .. allocated
  PROVE  OpenStep(p, n)
<1>1. CASE OpenExisting(p)
  <2>1. /\ node'[found[p]].open = TRUE
        /\ n # found[p] => node'[n] = node[n]
    BY <1>1, OpensNode
  <2> QED BY <1>1, <2>1 DEF OpenStep
<1>2. CASE ReleaseClose(p) /\ found[p] # Null
  <2>1. /\ node'[found[p]].open = FALSE
        /\ n # found[p] => node'[n] = node[n]
    BY <1>2, ClosesNode
  <2> QED BY <1>2, <2>1 DEF OpenStep
<1>3. CASE OpenInsert(p) \/ NodesStay
  <2>1. node'[n] = node[n]
    BY <1>3, AddsNode DEF NodesStay
  <2> QED BY <2>1 DEF OpenStep
<1>4. CASE WriteByte(p)
  <2>1. node'[n].open = node[n].open
    BY <1>4, StoresByte
  <2> QED BY <2>1 DEF OpenStep
<1>5. CASE WriteLength(p)
  <2>1. node'[n].open = node[n].open
    BY <1>5, StoresLength
  <2> QED BY <2>1 DEF OpenStep
<1> QED BY <1>1, <1>2, <1>3, <1>4, <1>5, OtherSteps

LEMMA SlotOthers ==
  ASSUME UsersInv, NEW p \in Procs, UserSteps(p), NEW q \in Procs \ {p}
  PROVE  SlotInOrder(q)'
<1>1. /\ Keeps(q) /\ KeepsProgram(q) /\ SlotInOrder(q)
      /\ disturbed'[q] <=> \/ disturbed[q]
                           \/ InCall(q)' /\ \E r \in Procs \ {q} : InCall(r)'
                           \/ pc[p] = "releaseFound" /\ Uses(q, minor[p])
  BY UsersOthers DEF UsersInv
<1>2. SUFFICES ASSUME ~ disturbed'[q] PROVE SlotInOrder(q)'
  BY DEF SlotInOrder
<1>3. ~ disturbed[q]
  BY <1>1, <1>2
<1>4. ASSUME NEW m, m = minor[q], Settled(m)
      PROVE  Settled(minor[q])' /\ GetMinorNode(minor[q])' = GetMinorNode(m)
  <2>1. Settled(m)' /\ GetMinorNode(m)' = GetMinorNode(m)
    BY <1>4, SettledStays
  <2>2. minor'[q] = m
    BY <1>1, <1>4 DEF Keeps
  <2> QED BY <2>1, <2>2
<1>5. CASE InCall(q)
  <2>1. UNCHANGED device /\ \A m : GetMinorNode(m)' = GetMinorNode(m)
    BY <1>2, <1>5, UsersAlone
  <2>2. node' = node
    BY <2>1 DEF device
  <2>3. ASSUME NEW m, m = minor[q] PROVE GetMinorNode(minor[q])' = GetMinorNode(minor[q])
    <3>1. GetMinorNode(m)' = GetMinorNode(m)
      BY <2>1
    <3>2. minor'[q] = m
      BY <1>1, <2>3 DEF Keeps
    <3> QED BY <2>3, <3>1, <3>2
  <2>4. pc[q] \in {"writeFound", "writing", "readFound", "reading"} => Settled(minor[q])'
    BY <1>1, <1>3, <1>4 DEF SlotInOrder
  <2>5. SerialBytes(q)'
    BY <1>1, <1>3, <2>2 DEF SlotInOrder, SerialBytes, Keeps, LengthNow
  <2>6. pc'[q] # "ready"
    BY <1>1, <1>5 DEF Keeps, InCall
  <2> QED BY <1>1, <1>3, <2>2, <2>3, <2>4, <2>5, <2>6 DEF SlotInOrder, Keeps
<1>6. CASE ~ InCall(q) /\ pc[q] = "ready" /\ ppc[q] \in {"ioctl", "transfer"}
  <2>1. /\ Settled(minor[q]) /\ node[GetMinorNode(minor[q])].open
    BY <1>1, <1>3, <1>6 DEF SlotInOrder
  <2>2. PICK n \in 1 .. allocated : n = GetMinorNode(minor[q]) /\ node[n].value = minor[q]
    BY <2>1, SettledNode
  <2>3. Settled(minor[q])' /\ GetMinorNode(minor[q])' = n
    BY <1>4, <2>1, <2>2
  <2>4. node'[n].open
    <3>1. CASE UNCHANGED vars
      BY <2>1, <2>2, <3>1 DEF vars, device
    <3>2. CASE Call(p)
      <4>1. OpenStep(p, n)
        BY <3>2, UsersBasics, CallOpens
      <4>2. ~ (ReleaseClose(p) /\ n = found[p])
        <5>1. SUFFICES ASSUME ReleaseClose(p), n = found[p] PROVE FALSE
          OBVIOUS
        <5>2. pc[p] = "releaseFound" /\ found[p] # Null
          BY <2>2, <5>1 DEF ReleaseClose, Null
        <5>3. node[n].value = minor[p]
          BY <5>1, <5>2 DEF UsersInv, IInv, CallsInOrder, CallInOrder
        <5> QED BY <1>1, <1>2, <1>6, <2>2, <5>2, <5>3 DEF Uses
      <4> QED BY <2>1, <2>2, <4>1, <4>2 DEF OpenStep
    <3> QED BY <3>1, <3>2, UsersBasics
  <2>5. pc'[q] = "ready"
    BY <1>1, <1>6 DEF Keeps
  <2> QED BY <2>3, <2>4, <2>5 DEF SlotInOrder, SerialBytes
<1>7. CASE ~ InCall(q) /\ ~ (pc[q] = "ready" /\ ppc[q] \in {"ioctl", "transfer"})
  <2>1. /\ pc'[q] \notin {"openFound", "publish", "writeFound", "writing", "readFound",
                          "reading"}
        /\ ~ (pc'[q] = "ready" /\ ppc'[q] \in {"ioctl", "transfer"})
    BY <1>1, <1>7 DEF Keeps, KeepsProgram, InCall
  <2> QED BY <2>1 DEF SlotInOrder, SerialBytes
<1> QED BY <1>5, <1>6, <1>7

\* A slot that a program has opened undisturbed has a node for good.
LEMMA SettledFresh ==
  ASSUME UsersInv, NEW p \in Procs, UserSteps(p), InCall(p), ~ disturbed[p],
         pc'[p] = "ready", NEW m, GetMinorNode(m)' # Null
  PROVE  Settled(m)'
<1>1. \A q \in Procs \ {p} : ~ InCall(q)
  BY DEF UsersInv, OverlapsSeen
<1>2. \A q \in Procs : pc'[q] \notin {"openFound", "publish"}
  BY <1>1, UsersOthers DEF Keeps, InCall
<1> QED BY <1>2 DEF Settled

LEMMA SlotOwn ==
  ASSUME UsersInv, NEW p \in Procs, UserSteps(p)
  PROVE  SlotInOrder(p)'
<1>1. SUFFICES ASSUME ~ disturbed'[p] PROVE SlotInOrder(p)'
  BY DEF SlotInOrder
<1>2. /\ CallsTypeOK /\ CallsTypeOK' /\ SlotInOrder(p) /\ allocated \in Nat /\ DriverInOrder
      /\ ProgramsTypeOK /\ CallInOrder(p)
  BY UsersBasics DEF UsersInv, IInv, CallsInOrder
<1>3. CASE ppc[p] = "idle"
  <2>1. pc'[p] = "closed"
    BY <1>3, UsersOwn DEF vars
  <2> QED BY <2>1 DEF SlotInOrder, SerialBytes
<1>4. ASSUME ppc[p] # "idle" PROVE ~ disturbed[p]
  BY <1>1, <1>4, UsersOwn
<1>5. CASE OpenSlot(p)
  <2>1. PICK m \in Minors : m = job[p].minor /\ Open(p, m)
    <3>1. job[p] \in Jobs
      BY <1>2 DEF ProgramsTypeOK
    <3> QED BY <1>5, <3>1, JobType DEF OpenSlot
  <2>2. pc'[p] = "openFound" /\ found'[p] = GetMinorNode(m) /\ minor'[p] = m /\ UNCHANGED device
    BY <1>2, <2>1 DEF Open, CallsTypeOK
  <2>3. GetMinorNode(m)' = GetMinorNode(m)
    BY <2>2 DEF device, GetMinorNode, FirstFrom, Hits, NodesFrom
  <2>4. GetMinorNode(minor[p])' = GetMinorNode(m)'
    BY <2>2
  <2> QED BY <2>2, <2>3, <2>4 DEF SlotInOrder, SerialBytes
<1>6. CASE SetChannel(p)
  <2>1. /\ ppc[p] = "ioctl" /\ pc[p] = "ready" /\ pc'[p] = "ready" /\ minor' = minor
        /\ UNCHANGED device
    BY <1>2, <1>6 DEF SetChannel, Ioctl, Return, CallsTypeOK
  <2>2. Settled(minor[p]) /\ node[GetMinorNode(minor[p])].open
    BY <1>2, <1>4, <2>1 DEF SlotInOrder
  <2>3. ASSUME NEW m, m = minor[p]
        PROVE  Settled(minor[p])' /\ node'[GetMinorNode(minor[p])'].open
    <3>1. Settled(m)' /\ GetMinorNode(m)' = GetMinorNode(m)
      BY <2>2, <2>3, SettledStays
    <3>2. minor'[p] = m /\ node' = node
      BY <2>1, <2>3 DEF device
    <3> QED BY <2>2, <2>3, <3>1, <3>2
  <2> QED BY <2>1, <2>3 DEF SlotInOrder, SerialBytes
<1>7. CASE Transfer(p)
  <2>1. /\ ppc[p] = "transfer" /\ pc[p] = "ready" /\ minor' = minor /\ UNCHANGED device
        /\ ppc'[p] = "close" /\ pc'[p] \in {"ready", "writeFound", "readFound"}
        /\ pc'[p] # "ready" => found'[p] = GetMinorNode(minor[p])
    <3>1. /\ ppc[p] = "transfer" /\ ppc'[p] = "close"
          /\ Write(p, job[p].message) \/ Read(p, MaxBufferSize)
      BY <1>2, <1>7 DEF Transfer, Goto, ProgramsTypeOK
    <3> QED BY <1>2, <3>1 DEF Write, Read, Return, CallsTypeOK
  <2>2. Settled(minor[p]) /\ node[GetMinorNode(minor[p])].open
    BY <1>2, <1>4, <2>1 DEF SlotInOrder
  <2>3. ASSUME NEW m, m = minor[p]
        PROVE  /\ Settled(minor[p])' /\ GetMinorNode(minor[p])' = GetMinorNode(m)
               /\ node'[GetMinorNode(m)].open
    <3>1. Settled(m)' /\ GetMinorNode(m)' = GetMinorNode(m)
      BY <2>2, <2>3, SettledStays
    <3>2. minor'[p] = m /\ node' = node
      BY <2>1, <2>3 DEF device
    <3> QED BY <2>2, <2>3, <3>1, <3>2
  <2> QED BY <2>1, <2>3 DEF SlotInOrder, SerialBytes
<1>8. CASE CloseSlot(p) \/ Exit(p)
  <2>1. pc'[p] \in {"releaseFound", "closed"}
    BY <1>2, <1>8 DEF CloseSlot, Exit, Release, CallsTypeOK, vars
  <2> QED BY <2>1 DEF SlotInOrder, SerialBytes
<1>9. CASE OpenExisting(p)
  <2>1. /\ pc[p] = "openFound" /\ pc'[p] = "ready" /\ found[p] # Null /\ head' = head
        /\ minor' = minor
    BY <1>2, <1>9 DEF OpenExisting, Return, CallsTypeOK
  <2>2. ~ disturbed[p] /\ InCall(p) /\ found[p] = GetMinorNode(minor[p])
    <3>1. ~ disturbed[p]
      BY <1>4, <2>1, ProgramPlaces
    <3> QED BY <1>2, <2>1, <3>1 DEF SlotInOrder, InCall
  <2>3. node'[found[p]].open
    BY <1>2, <1>9, OpensNode
  <2>4. ASSUME NEW m, m = minor[p]
        PROVE  Settled(minor[p])' /\ GetMinorNode(minor[p])' = found[p]
    <3>1. Call(p) /\ IInv
      BY <1>9 DEF Call, UsersInv
    <3>2. GetMinorNode(m)' = GetMinorNode(m)
      BY <2>1, <3>1, HeadStays
    <3>3. minor'[p] = m
      BY <2>1, <2>4
    <3>4. GetMinorNode(m)' # Null
      BY <2>1, <2>2, <2>4, <3>2
    <3>5. Settled(m)'
      BY <2>1, <2>2, <3>4, SettledFresh
    <3> QED BY <2>2, <2>4, <3>2, <3>3, <3>5
  <2> QED BY <2>1, <2>3, <2>4 DEF SlotInOrder, SerialBytes
<1>10. CASE OpenInsert(p)
  <2>1. pc'[p] = "publish" /\ found'[p] = allocated + 1
    BY <1>2, <1>10 DEF OpenInsert, CallsTypeOK
  <2>2. node'[allocated + 1].open
    BY <1>2, <1>10, AddsNode
  <2> QED BY <2>1, <2>2 DEF SlotInOrder, SerialBytes
<1>11. CASE OpenPublish(p)
  <2>1. /\ pc[p] = "publish" /\ pc'[p] = "ready" /\ minor' = minor /\ IInv
    BY <1>2, <1>11 DEF OpenPublish, Return, CallsTypeOK, UsersInv
  <2>2. /\ found[p] \in 1 .. allocated /\ node' = node
        /\ \A m : GetMinorNode(m)' = FirstFrom(found[p], m)
    BY <1>11, <2>1, HeadMoves
  <2>3. ~ disturbed[p] /\ InCall(p)
    <3>1. ~ disturbed[p]
      BY <1>4, <2>1, ProgramPlaces
    <3> QED BY <2>1, <3>1 DEF InCall
  <2>4. node[found[p]].value = minor[p] /\ node[found[p]].open
    BY <1>2, <2>1, <2>2, <2>3 DEF SlotInOrder, CallInOrder, Null
  <2>5. FirstFrom(found[p], minor[p]) = found[p]
    BY <2>2, <2>4, UsersBasics, Walks DEF WalkFacts
  <2>6. ASSUME NEW m, m = minor[p]
        PROVE  Settled(minor[p])' /\ GetMinorNode(minor[p])' = found[p]
    <3>1. GetMinorNode(m)' = found[p]
      BY <2>2, <2>5, <2>6
    <3>2. Settled(m)'
      BY <2>1, <2>2, <2>3, <3>1, SettledFresh DEF Null
    <3>3. minor'[p] = m
      BY <2>1, <2>6
    <3> QED BY <3>1, <3>2, <3>3
  <2> QED BY <2>1, <2>2, <2>4, <2>6 DEF SlotInOrder, SerialBytes
<1>12. ASSUME pc[p] \in {"writeFound", "writing", "readFound", "reading"},
              pc'[p] \in {"writing", "reading"}, minor' = minor, found' = found,
              SerialBytes(p)'
       PROVE  SlotInOrder(p)'
  <2>1. ~ disturbed[p]
    BY <1>4, <1>12, ProgramPlaces
  <2>2. Settled(minor[p]) /\ found[p] = GetMinorNode(minor[p])
    BY <1>12, <2>1, NotRefused
  <2>3. ASSUME NEW m, m = minor[p]
        PROVE  Settled(minor[p])' /\ GetMinorNode(minor[p])' = found[p]
    <3>1. Settled(m)' /\ GetMinorNode(m)' = GetMinorNode(m)
      BY <2>2, <2>3, SettledStays
    <3>2. minor'[p] = m
      BY <1>12, <2>3
    <3> QED BY <2>2, <2>3, <3>1, <3>2
  <2> QED BY <1>12, <2>3 DEF SlotInOrder
<1>13. CASE WriteCheck(p)
  <2>1. /\ pc[p] = "writeFound" /\ pc'[p] = "writing" /\ minor' = minor /\ found' = found
        /\ i'[p] = 0
    BY <1>2, <1>13 DEF WriteCheck, CallsTypeOK
  <2>2. SerialBytes(p)'
    BY <2>1 DEF SerialBytes
  <2> QED BY <1>12, <2>1, <2>2
<1>14. CASE WriteByte(p)
  <2>1. /\ pc[p] = "writing" /\ pc'[p] = "writing" /\ minor' = minor /\ found' = found
        /\ i'[p] = i[p] + 1 /\ channel' = channel /\ arg' = arg
    BY <1>2, <1>14 DEF WriteByte, CallsTypeOK
  <2>2. ~ disturbed[p]
    BY <1>4, <2>1, ProgramPlaces
  <2>3. \A k \in 1 .. i[p] :
          node[found[p]].cell[channel[p]][k] = <<arg[p], minor[p], channel[p]>>
    BY <1>2, <2>1, <2>2 DEF SlotInOrder, SerialBytes
  <2>4. /\ i[p] + 1 \in 1 .. BufLen /\ i[p] \in Nat
        /\ node'[found[p]].cell[channel[p]][i[p] + 1] = <<arg[p], minor[p], channel[p]>>
        /\ \A j \in (1 .. BufLen) \ {i[p] + 1} :
             node'[found[p]].cell[channel[p]][j] = node[found[p]].cell[channel[p]][j]
    BY <1>2, <1>14, StoresByte
  <2>5. ASSUME NEW k \in 1 .. i[p] + 1
        PROVE  node'[found[p]].cell[channel[p]][k] = <<arg[p], minor[p], channel[p]>>
    <3>1. CASE k = i[p] + 1
      BY <2>4, <3>1
    <3>2. CASE k # i[p] + 1
      <4>1. k \in 1 .. i[p] /\ k \in (1 .. BufLen) \ {i[p] + 1}
        BY <2>4, <3>2, SizesType
      <4> QED BY <2>3, <2>4, <4>1
    <3> QED BY <3>1, <3>2
  <2>6. SerialBytes(p)'
    BY <2>1, <2>5 DEF SerialBytes
  <2> QED BY <1>12, <2>1, <2>6
<1>15. CASE ReadCheck(p)
  <2>1. /\ pc[p] = "readFound" /\ pc'[p] = "reading" /\ minor' = minor /\ found' = found
        /\ i'[p] = 0 /\ limit'[p] = LengthNow(p) /\ node' = node /\ channel' = channel
    BY <1>2, <1>15 DEF ReadCheck, CallsTypeOK, device
  <2>2. ~ disturbed[p]
    BY <1>4, <2>1, ProgramPlaces
  <2>3. LengthNow(p) \in Nat
    BY <2>1, <2>2, NotRefused, SizesType
  <2>4. SerialBytes(p)'
    BY <2>1, <2>3 DEF SerialBytes, LengthNow
  <2> QED BY <1>12, <2>1, <2>4
<1>16. CASE ReadByte(p)
  <2>1. /\ pc[p] = "reading" /\ pc'[p] = "reading" /\ minor' = minor /\ found' = found
        /\ i'[p] = i[p] + 1 /\ node' = node /\ channel' = channel
        /\ got' = [got EXCEPT ![p] =
                     Append(got[p], node[found[p]].cell[channel[p]][i[p] + 1])]
    BY <1>2, <1>16 DEF ReadByte, CallsTypeOK, device
  <2>2. ~ disturbed[p]
    BY <1>4, <2>1, ProgramPlaces
  <2>3. /\ limit[p] = LengthNow(p) /\ i[p] <= limit[p]
        /\ \A k \in 1 .. i[p] : got[p][k] = node[found[p]].cell[channel[p]][k]
    BY <1>2, <2>1, <2>2 DEF SlotInOrder, SerialBytes
  <2>4. i[p] < LengthNow(p) /\ limit'[p] = LengthNow(p)
    BY <1>2, <1>16, <2>3 DEF ReadByte, LimitMayBe, CallsTypeOK
  <2>5. i[p] \in Nat /\ LengthNow(p) \in Nat /\ Len(got[p]) = i[p] /\ got[p] \in Seq(Bytes)
    <3>1. i[p] \in Lengths /\ LengthNow(p) \in Lengths
      BY <1>2, <2>1, <2>2, NotRefused DEF CallsTypeOK
    <3>2. Len(got[p]) = i[p] /\ got[p] \in Seq(Bytes)
      BY <1>2, <2>1 DEF CallInOrder, CallsTypeOK
    <3> QED BY <3>1, <3>2, SizesType
  <2> DEFINE b == node[found[p]].cell[channel[p]][i[p] + 1]
  <2>6. got'[p] = Append(got[p], b)
    BY <1>2, <2>1 DEF CallsTypeOK
  <2>7. /\ got'[p][i[p] + 1] = b
        /\ \A k \in 1 .. i[p] : got'[p][k] = got[p][k]
    <3> HIDE DEF b
    <3> QED BY <2>5, <2>6
  <2>8. ASSUME NEW k \in 1 .. i[p] + 1
        PROVE  got'[p][k] = node[found[p]].cell[channel[p]][k]
    <3>1. CASE k = i[p] + 1
      BY <2>7, <3>1
    <3>2. CASE k # i[p] + 1
      <4>1. k \in 1 .. i[p]
        BY <2>5, <3>2
      <4> QED BY <2>3, <2>7, <4>1
    <3> QED BY <3>1, <3>2
  <2>9. i[p] + 1 <= LengthNow(p)
    BY <2>4, <2>5
  <2>10. SerialBytes(p)'
    BY <2>1, <2>4, <2>8, <2>9 DEF SerialBytes, LengthNow
  <2> QED BY <1>12, <2>1, <2>10
<1>17. CASE WriteRefused(p) \/ ReadRefused(p) \/ WriteReturns(p) \/ ReadEnd(p) \/ FileCloses(p)
  <2>1. /\ pc[p] \in {"writeFound", "writing", "readFound", "reading", "releaseFound"}
        /\ pc'[p] \in {"ready", "oops", "closed"}
    BY <1>2, <1>17 DEF WriteRefused, ReadRefused, WriteReturns, WriteLength, ReadEnd,
       FileCloses, ReleaseClose, Oops, Return, CallsTypeOK
  <2>2. ppc'[p] \in {"close", "exit"}
    <3>1. ppc[p] \in {"close", "exit"}
      BY <2>1, ProgramPlaces
    <3>2. CASE WriteRefused(p) \/ ReadRefused(p)
      BY <1>4, <2>1, <3>1, <3>2, NotRefused DEF WriteRefused, ReadRefused
    <3>3. CASE (ReadEnd(p) /\ InDriver(p)) \/ WriteReturns(p) \/ FileCloses(p)
      BY <3>1, <3>3 DEF InDriver, WriteReturns, FileCloses, programVars
    <3>4. CASE ReadEnd(p) /\ ~ InDriver(p)
      <4>1. ~ (Program(p) \/ WriteReturns(p) \/ FileCloses(p))
        BY <1>2, <3>4 DEF Program, Start, OpenSlot, SetChannel, Transfer, CloseSlot, Exit,
           WriteReturns, FileCloses, ReadEnd, Open, Ioctl, Write, Read, Release, WriteLength,
           ReleaseClose, Return, vars, CallsTypeOK
      <4> QED BY <3>4, <4>1 DEF UserSteps
    <3> QED BY <1>17, <3>2, <3>3, <3>4
  <2> QED BY <2>1, <2>2 DEF SlotInOrder, SerialBytes
<1> QED
  BY <1>3, <1>5, <1>6, <1>7, <1>8, <1>9, <1>10, <1>11, <1>13, <1>14, <1>15, <1>16, <1>17,
     UsersOwn DEF UserSteps, Program, InDriver, Start

\* What is recorded of a channel changes when a write to it sets its length.
LEMMA SentOfStep ==
  ASSUME UsersInv, NEW p \in Procs, UserSteps(p), NEW m \in Minors, NEW c \in Channels
  PROVE  \/ /\ sent'[m][c] = sent[m][c]
            /\ ~ (WriteLength(p) /\ m = minor[p] /\ c = channel[p])
         \/ /\ WriteLength(p) /\ m = minor[p] /\ c = channel[p]
            /\ arg[p] \in Messages
            /\ sent'[m][c] \in {Unknown, arg[p]}
            /\ disturbed[p] => sent'[m][c] = Unknown
<1>1. DriverInOrder /\ CallsTypeOK /\ ProgramsTypeOK
  BY UsersBasics DEF UsersInv
<1>2. CASE WriteReturns(p)
  <2> DEFINE s == IF disturbed[p] THEN Unknown ELSE arg[p]
  <2>1. sent' = [sent EXCEPT ![minor[p]][channel[p]] = s] /\ WriteLength(p)
    BY <1>2 DEF WriteReturns
  <2>2. arg[p] \in Messages
    BY <1>1, <2>1, StoresLength
  <2>3. s \in {Unknown, arg[p]} /\ (disturbed[p] => s = Unknown)
    OBVIOUS
  <2> HIDE DEF s
  <2>4. sent'[m][c] = IF m = minor[p] /\ c = channel[p] THEN s ELSE sent[m][c]
    BY <1>1, <2>1 DEF ProgramsTypeOK
  <2> QED BY <2>1, <2>2, <2>3, <2>4
<1>3. CASE ~ WriteReturns(p)
  <2>1. sent' = sent
    BY <1>3 DEF UserSteps, Program, Start, OpenSlot, SetChannel, Transfer, CloseSlot, Exit,
                Goto, InDriver, FileCloses
  <2>2. ~ WriteLength(p)
    <3>1. SUFFICES ASSUME WriteLength(p) PROVE FALSE
      OBVIOUS
    <3>2. pc[p] = "writing" /\ pc'[p] = "ready"
      BY <1>1, <3>1 DEF WriteLength, Return, CallsTypeOK
    <3>3. ~ (Program(p) \/ FileCloses(p))
      BY <1>1, <3>2 DEF Program, Start, OpenSlot, SetChannel, Transfer, CloseSlot, Exit,
         FileCloses, Open, Ioctl, Write, Read, Release, ReleaseClose, vars
    <3>4. ~ InDriver(p)
      BY <1>1, <3>2 DEF InDriver, OpenExisting, OpenInsert, OpenPublish, WriteCheck,
         WriteRefused, WriteByte, ReadCheck, ReadRefused, ReadByte, ReadEnd
    <3> QED BY <1>3, <3>3, <3>4 DEF UserSteps
  <2> QED BY <2>1, <2>2
<1> QED BY <1>2, <1>3

\* Nothing was written to the channel, and there is nothing.
LEMMA NothingSent ==
  ASSUME UsersInv, NEW p \in Procs, UserSteps(p), NEW m \in Minors, NEW c \in Channels,
         sent'[m][c] = Garbage, NEW n \in 1 .. allocated', node'[n].value = m
  PROVE  node'[n].length[c] = 0
<1>1. /\ DriverInOrder /\ allocated \in Nat /\ CallsInOrder /\ SentInOrder(m, c)
      /\ allocated' \in allocated .. MaxNodes
  BY UsersBasics, UsersWalks DEF UsersInv, IInv
<1>2. /\ sent[m][c] = Garbage
      /\ ~ (WriteLength(p) /\ m = minor[p] /\ c = channel[p])
  <2>1. Garbage # Unknown /\ Garbage \notin Messages
    BY MessagesAssumption DEF Garbage, Unknown
  <2> QED BY <2>1, SentOfStep
<1>3. CASE UNCHANGED vars
  <2>1. node' = node /\ allocated' = allocated
    BY <1>3 DEF vars, device
  <2> QED BY <1>1, <1>2, <2>1 DEF SentInOrder
<1>4. CASE Call(p) /\ n \in 1 .. allocated
  <2>1. node[n].value = m
    BY <1>4, UsersWalks
  <2>2. node[n].length[c] = 0
    BY <1>1, <1>2, <1>4, <2>1 DEF SentInOrder
  <2>3. LengthStep(p, n, c)
    BY <1>1, <1>4, CallCells DEF CellStep
  <2>4. ~ (WriteLength(p) /\ n = found[p] /\ c = channel[p])
    <3>1. n = found[p] => minor[p] = m
      BY <1>1, <1>4, <2>1 DEF CallsInOrder, CallInOrder, Null
    <3> QED BY <1>2, <3>1
  <2> QED BY <2>2, <2>3, <2>4 DEF LengthStep
<1>5. CASE Call(p) /\ n \notin 1 .. allocated
  <2>1. OpenInsert(p)
    BY <1>1, <1>5, CallNodes, SizesType
  <2>2. allocated' = allocated + 1 /\ node'[allocated + 1].length[c] = 0
    BY <1>1, <2>1, AddsNode
  <2>3. n = allocated + 1
    BY <1>1, <1>5, <2>2
  <2> QED BY <2>2, <2>3
<1> QED BY <1>3, <1>4, <1>5, UsersBasics

\* An undisturbed write leaves its message.
LEMMA SentNow ==
  ASSUME UsersInv, NEW p \in Procs, UserSteps(p), WriteLength(p), ~ disturbed[p],
         NEW m, m = minor[p], NEW c, c = channel[p], NEW s, s = arg[p]
  PROVE  Settled(m)' /\ Holds(GetMinorNode(m), c, s)'
<1>1. DriverInOrder /\ SlotInOrder(p) /\ pc[p] = "writing"
  BY UsersBasics DEF UsersInv, WriteLength
<1>2. PICK n \in 1 .. allocated : n = found[p] /\ n = GetMinorNode(m) /\ node[n].value = m
  BY <1>1, NotRefused
<1>3. Settled(m)' /\ GetMinorNode(m)' = n
  BY <1>1, <1>2, NotRefused, SettledStays
<1>4. /\ node'[n].length[c] = Stored(s) /\ i[p] = Stored(s)
      /\ node'[n].value = m /\ node'[n].cell = node[n].cell
  BY <1>1, <1>2, StoresLength
<1>5. \A k \in 1 .. i[p] : node[n].cell[c][k] = <<s, m, c>>
  BY <1>1, <1>2 DEF SlotInOrder, SerialBytes
<1>6. Holds(n, c, s)'
  BY <1>4, <1>5 DEF Holds, Stored
<1> QED BY <1>3, <1>6 DEF Holds, Stored

\* What is in a channel stays until somebody writes to it.
LEMMA SentBefore ==
  ASSUME UsersInv, NEW p \in Procs, UserSteps(p), NEW m \in Minors, NEW c \in Channels,
         ~ (WriteLength(p) /\ m = minor[p] /\ c = channel[p]),
         NEW s, Settled(m), Writing(m, c) # {} \/ Holds(GetMinorNode(m), c, s)
  PROVE  /\ Settled(m)'
         /\ Writing(m, c)' # {} \/ Holds(GetMinorNode(m), c, s)'
<1>1. DriverInOrder /\ CallsTypeOK /\ CallsInOrder
  BY UsersBasics DEF UsersInv, IInv
<1>2. PICK n \in 1 .. allocated : n = GetMinorNode(m) /\ node[n].value = m
  BY SettledNode
<1>3. Settled(m)' /\ GetMinorNode(m)' = n
  BY <1>2, SettledStays
<1>4. ASSUME NEW q \in Writing(m, c) PROVE q \in Writing(m, c)'
  <2>1. q \in Procs /\ pc[q] = "writing" /\ minor[q] = m /\ channel[q] = c
    BY DEF Writing
  <2>2. pc'[q] = "writing" /\ minor'[q] = m /\ channel'[q] = c
    <3>1. CASE q # p
      BY <2>1, <3>1, UsersOthers DEF Keeps
    <3>2. CASE q = p /\ UNCHANGED vars
      BY <2>1, <3>2 DEF vars
    <3>3. CASE q = p /\ Call(p)
      <4>1. WriteByte(p)
        BY <2>1, <3>3 DEF Call, Open, OpenExisting, OpenInsert, OpenInsertFails, OpenPublish,
           Ioctl, Release, ReleaseClose, Write, WriteCheck, WriteRefused, WriteLength,
           Read, ReadCheck, ReadRefused, ReadByte, ReadEnd, OrphanCalls, Replaced
      <4> QED BY <2>1, <3>3, <4>1 DEF WriteByte
    <3> QED BY <3>1, <3>2, <3>3, UsersBasics
  <2> QED BY <2>1, <2>2 DEF Writing
<1>5. CASE Writing(m, c) # {}
  BY <1>3, <1>4, <1>5
<1>6. CASE Writing(m, c) = {}
  <2>1. Holds(n, c, s)
    BY <1>2, <1>6
  <2>2. /\ node'[n].value = node[n].value /\ node'[n].length[c] = node[n].length[c]
        /\ \A k \in 1 .. BufLen : node'[n].cell[c][k] = node[n].cell[c][k]
    <3>1. CASE UNCHANGED vars
      BY <3>1 DEF vars, device
    <3>2. CASE Call(p)
      <4>1. n = found[p] => minor[p] = m
        BY <1>1, <1>2 DEF CallsInOrder, CallInOrder, Null
      <4>2. ~ (WriteByte(p) /\ n = found[p] /\ c = channel[p])
        BY <1>6, <4>1 DEF WriteByte, Writing
      <4>3. CellStep(p, n, c)
        BY <1>1, <3>2, CallCells
      <4>4. node'[n].length[c] = node[n].length[c]
        BY <4>1, <4>3 DEF CellStep, LengthStep
      <4>5. \A k \in 1 .. BufLen : node'[n].cell[c][k] = node[n].cell[c][k]
        BY <4>2, <4>3 DEF CellStep, ByteStep
      <4> QED BY <4>4, <4>5, UsersWalks
    <3> QED BY <3>1, <3>2, UsersBasics
  <2>3. CASE Stored(s) \in Lengths
    <3>1. \A k \in 1 .. Stored(s) : k \in 1 .. BufLen
      BY <2>3, SizesType
    <3>2. \A k \in 1 .. Stored(s) : node'[n].cell[c][k] = <<s, node'[n].value, c>>
      BY <2>1, <2>2, <3>1 DEF Holds
    <3>3. node'[n].length[c] = Stored(s)
      BY <2>1, <2>2 DEF Holds
    <3> QED BY <1>3, <3>2, <3>3 DEF Holds, Stored
  <2>4. Stored(s) \in Lengths
    <3>1. node[n].length[c] \in Lengths
      BY <1>1, <1>2 DEF DriverInOrder, DeviceTypeOK, NodeType
    <3> QED BY <2>1, <3>1 DEF Holds
  <2> QED BY <2>3, <2>4
<1> QED BY <1>5, <1>6

LEMMA SentStep ==
  ASSUME UsersInv, NEW p \in Procs, UserSteps(p), NEW m \in Minors, NEW c \in Channels
  PROVE  SentInOrder(m, c)'
<1>1. sent'[m][c] = Garbage =>
        \A n \in 1 .. allocated' : node'[n].value = m => node'[n].length[c] = 0
  BY NothingSent
<1>2. ASSUME NEW s, s = sent'[m][c], s \in Messages \ {Unknown}
      PROVE  Settled(m)' /\ (Writing(m, c)' # {} \/ Holds(GetMinorNode(m), c, s)')
  <2>1. CASE WriteLength(p) /\ m = minor[p] /\ c = channel[p]
    <3>1. ~ disturbed[p] /\ s = arg[p]
      BY <1>2, <2>1, SentOfStep
    <3> QED BY <2>1, <3>1, SentNow
  <2>2. CASE ~ (WriteLength(p) /\ m = minor[p] /\ c = channel[p])
    <3>1. s = sent[m][c]
      BY <1>2, <2>2, SentOfStep
    <3>2. Settled(m) /\ (Writing(m, c) # {} \/ Holds(GetMinorNode(m), c, s))
      BY <1>2, <3>1 DEF UsersInv, SentInOrder
    <3> QED BY <2>2, <3>2, SentBefore
  <2> QED BY <2>1, <2>2
<1>3. ASSUME sent'[m][c] \in Messages \ {Unknown}
      PROVE  Settled(m)' /\ (Writing(m, c)' # {} \/ Holds(GetMinorNode(m), c, sent[m][c])')
  <2>1. PICK s : s = sent'[m][c]
    OBVIOUS
  <2>2. Settled(m)' /\ (Writing(m, c)' # {} \/ Holds(GetMinorNode(m), c, s)')
    BY <1>2, <1>3, <2>1
  <2>3. Holds(GetMinorNode(m), c, s)' => Holds(GetMinorNode(m), c, sent[m][c])'
    BY <2>1 DEF Holds, Stored
  <2> QED BY <2>2, <2>3
<1> QED BY <1>1, <1>3 DEF SentInOrder

LEMMA UsersInitOrder ==
  ASSUME UsersInit
  PROVE  UsersInv
<1>1. IInv /\ ProgramsTypeOK
  BY UsersInitInv
<1>2. /\ allocated = 0
      /\ \A p \in Procs : pc[p] = "closed" /\ ppc[p] = "idle" /\ outcome[p] = "none"
      /\ \A m \in Minors, c \in Channels : sent[m][c] = Garbage
  BY DEF UsersInit, Init
<1>3. OverlapsSeen
  BY <1>2 DEF OverlapsSeen, InCall
<1>4. ASSUME NEW p \in Procs PROVE ProgramInOrder(p) /\ SlotInOrder(p)
  BY <1>2, PlacesOfSteps DEF ProgramInOrder, SlotInOrder, SerialBytes
<1>5. ASSUME NEW m \in Minors, NEW c \in Channels PROVE SentInOrder(m, c)
  <2>1. sent[m][c] \notin Messages
    BY <1>2, MessagesAssumption
  <2> QED BY <1>2, <2>1 DEF SentInOrder
<1> QED BY <1>1, <1>3, <1>4, <1>5 DEF UsersInv

LEMMA UsersOrder ==
  ASSUME UsersInv, [UsersNext]_allVars
  PROVE  UsersInv'
<1>1. IInv' /\ ProgramsTypeOK'
  BY UsersStep DEF UsersInv
<1>2. ASSUME NEW p \in Procs, UserSteps(p) PROVE UsersInv'
  <2>1. OverlapsSeen'
    BY <1>2, UsersOverlaps
  <2>2. ASSUME NEW q \in Procs PROVE ProgramInOrder(q)' /\ SlotInOrder(q)'
    <3>1. CASE q = p
      <4>1. ProgramInOrder(p)' /\ SlotInOrder(p)'
        BY <1>2, ProgramOwn, SlotOwn
      <4> QED BY <3>1, <4>1
    <3>2. CASE q # p
      BY <1>2, <3>2, ProgramOthers, SlotOthers
    <3> QED BY <3>1, <3>2
  <2>3. \A m \in Minors, c \in Channels : SentInOrder(m, c)'
    BY <1>2, SentStep
  <2> QED BY <1>1, <2>1, <2>2, <2>3 DEF UsersInv
<1>3. CASE UNCHANGED allVars
  <2>1. UNCHANGED vars /\ UNCHANGED <<job, ppc, outcome, sent, disturbed>>
    BY <1>3 DEF allVars, programVars
  <2>2. /\ UNCHANGED <<head, allocated, node, pc, minor, channel, found, arg, i, limit, got, result>>
        /\ UNCHANGED <<job, ppc, outcome, sent, disturbed>>
    BY <2>1 DEF vars, device
  <2>3. OverlapsSeen' /\ \A q \in Procs : ProgramInOrder(q)'
    BY <2>2 DEF UsersInv, OverlapsSeen, InCall, ProgramInOrder
  <2>4. \A n, m : FirstFrom(n, m)' = FirstFrom(n, m) /\ GetMinorNode(m)' = GetMinorNode(m)
    BY <2>2 DEF GetMinorNode, FirstFrom, Hits, NodesFrom
  <2>5. ASSUME NEW m, Settled(m) PROVE Settled(m)'
    <3>1. ASSUME NEW q \in Procs, pc[q] = "publish", NEW h, h = node[found[q]].next
          PROVE  FirstFrom(node[found[q]].next, m)' = GetMinorNode(m)
      <4>1. FirstFrom(h, m)' = FirstFrom(h, m) /\ FirstFrom(h, m) = GetMinorNode(m)
        BY <2>4, <2>5, <3>1 DEF Settled
      <4>2. FirstFrom(node[found[q]].next, m)' = FirstFrom(h, m)'
        BY <2>2, <3>1
      <4> QED BY <4>1, <4>2
    <3>2. GetMinorNode(m)' = GetMinorNode(m)
      BY <2>4
    <3>3. \A q \in Procs :
            pc'[q] = "publish" => FirstFrom(node[found[q]].next, m)' = GetMinorNode(m)
      BY <2>2, <3>1
    <3> QED BY <2>2, <2>5, <3>2, <3>3 DEF Settled
  <2>6. ASSUME NEW q \in Procs PROVE SlotInOrder(q)'
    <3>1. SlotInOrder(q) /\ GetMinorNode(minor[q])' = GetMinorNode(minor[q])
      BY <2>2 DEF UsersInv, GetMinorNode, FirstFrom, Hits, NodesFrom
    <3>2. ASSUME NEW m, m = minor[q], Settled(minor[q]) PROVE Settled(minor[q])'
      <4>1. Settled(m)' /\ minor'[q] = m
        BY <2>2, <2>5, <3>2
      <4> QED BY <4>1
    <3>3. SerialBytes(q) => SerialBytes(q)'
      BY <2>2 DEF SerialBytes, LengthNow
    <3> QED BY <2>2, <3>1, <3>2, <3>3 DEF SlotInOrder
  <2>7. ASSUME NEW m \in Minors, NEW c \in Channels PROVE SentInOrder(m, c)'
    <3>1. SentInOrder(m, c) /\ GetMinorNode(m)' = GetMinorNode(m)
      BY <2>4 DEF UsersInv
    <3>2. Holds(GetMinorNode(m), c, sent[m][c]) => Holds(GetMinorNode(m), c, sent[m][c])'
      BY <2>2, <3>1 DEF Holds, Stored
    <3>3. Writing(m, c)' = Writing(m, c)
      BY <2>2 DEF Writing
    <3> QED BY <2>2, <2>5, <3>1, <3>2, <3>3 DEF SentInOrder
  <2> QED BY <1>1, <2>3, <2>6, <2>7 DEF UsersInv
<1> QED BY <1>2, <1>3 DEF UsersNext, UserSteps

\* The programs, the slots they have to themselves and what was sent stay in order,
\* however many processes, slots and channels there are (message_sender.c and
\* message_reader.c on message_slot.c).
THEOREM UsersInOrder == UsersSpec => []UsersInv
<1>1. UsersInit => UsersInv
  BY UsersInitOrder
<1>2. UsersInv /\ [UsersNext]_allVars => UsersInv'
  BY UsersOrder
<1> QED BY <1>1, <1>2, PTL DEF UsersSpec

\* A program with a good command line fails only when calls overlap its own or
\* somebody closes the slot under it, whatever was opened, sent, refused or closed
\* before (the exit codes of message_sender.c and message_reader.c).
THEOREM UndisturbedSucceed == UsersSpec => []UndisturbedSucceeds
<1>1. UsersInv => UndisturbedSucceeds
  BY DEF UsersInv, ProgramInOrder, UndisturbedSucceeds
<1> QED BY <1>1, UsersInOrder, PTL

\* What a read takes that nothing disturbed.
LEMMA TakesLastSent ==
  ASSUME UsersInv, NEW p \in Procs, ReadEnd(p), ~ disturbed[p],
         NEW s, s = sent[minor[p]][channel[p]]
  PROVE  \/ s = Unknown
         \/ s = Garbage /\ got[p] = << >>
         \/ s \in Messages
            /\ got[p] = [k \in 1 .. Stored(s) |-> <<s, minor[p], channel[p]>>]
<1>1. /\ CallsTypeOK /\ pc[p] = "reading" /\ CallInOrder(p) /\ SlotInOrder(p)
  BY DEF UsersInv, IInv, TypeOK, CallsInOrder, ReadEnd
<1>2. /\ found[p] = GetMinorNode(minor[p]) /\ found[p] \in 1 .. allocated
      /\ node[found[p]].value = minor[p]
      /\ channel[p] \in Channels /\ minor[p] \in Minors /\ LengthNow(p) \in Lengths
  BY <1>1, NotRefused DEF CallsTypeOK
<1>3. i[p] = LengthNow(p) /\ Len(got[p]) = i[p] /\ got[p] \in Seq(Bytes)
  <2>1. limit[p] = LengthNow(p) /\ i[p] <= limit[p]
    BY <1>1 DEF SlotInOrder, SerialBytes
  <2>2. i[p] >= LengthNow(p)
    BY <2>1 DEF ReadEnd, LimitMayBe
  <2>3. i[p] \in Lengths
    BY <1>1 DEF CallsTypeOK
  <2>4. i[p] = LengthNow(p)
    BY <1>2, <2>1, <2>2, <2>3, SizesType
  <2> QED BY <1>1, <2>4 DEF CallInOrder, CallsTypeOK
<1>4. \A k \in 1 .. i[p] : got[p][k] = node[found[p]].cell[channel[p]][k]
  BY <1>1 DEF SlotInOrder, SerialBytes
<1>5. SentInOrder(minor[p], channel[p]) /\ s \in Sent
  BY <1>2 DEF UsersInv, ProgramsTypeOK
<1>6. CASE s = Garbage
  <2>1. LengthNow(p) = 0
    BY <1>2, <1>5, <1>6 DEF SentInOrder, LengthNow
  <2>2. got[p] = << >>
    BY <1>3, <2>1
  <2> QED BY <1>6, <2>2
<1>7. CASE s \in Messages \ {Unknown}
  <2>1. Writing(minor[p], channel[p]) = {}
    <3>1. SUFFICES ASSUME NEW q \in Writing(minor[p], channel[p]) PROVE FALSE
      OBVIOUS
    <3>2. q \in Procs /\ q # p /\ InCall(q) /\ InCall(p)
      BY <1>1 DEF Writing, InCall
    <3> QED BY <3>2 DEF UsersInv, OverlapsSeen
  <2>2. Holds(found[p], channel[p], s)
    BY <1>2, <1>5, <1>7, <2>1 DEF SentInOrder
  <2>3. LengthNow(p) = Stored(s)
    BY <2>2 DEF Holds, LengthNow
  <2> DEFINE size == Stored(s)
  <2>4. /\ got[p] \in Seq(Bytes) /\ Len(got[p]) = size /\ size \in Nat
        /\ \A k \in 1 .. size : got[p][k] = <<s, minor[p], channel[p]>>
    <3>1. \A k \in 1 .. size : node[found[p]].cell[channel[p]][k] = <<s, minor[p], channel[p]>>
      BY <1>2, <2>2 DEF Holds
    <3> QED BY <1>2, <1>3, <1>4, <2>3, <3>1, SizesType
  <2> HIDE DEF size
  <2>5. got[p] = [k \in 1 .. size |-> <<s, minor[p], channel[p]>>]
    <3>1. got[p] \in [1 .. Len(got[p]) -> Bytes]
      BY <2>4, LenProperties
    <3> QED BY <2>4, <3>1
  <2> QED BY <1>7, <2>5 DEF size
<1> QED BY <1>5, <1>6, <1>7 DEF Sent

\* A read that no call overlaps and that finds its slot open returns what is stored
\* of the last message sent to its channel, or nothing before the first, whatever
\* overlapped before (device_write, device_read, getMinorNode).
THEOREM ReadsTheLastSent == UsersSpec => ReadsLastSent
<1>1. UsersInv /\ [UsersNext]_allVars =>
        [\A p \in Procs : pc[p] = "reading" /\ pc'[p] = "ready" /\ ~ disturbed[p] =>
           LET s == sent[minor[p]][channel[p]] IN
             \/ s = Unknown
             \/ s = Garbage /\ got[p] = << >>
             \/ s \in Messages
                /\ got[p] = [k \in 1 .. Stored(s) |-> <<s, minor[p], channel[p]>>]
        ]_allVars
  <2> SUFFICES ASSUME UsersInv, UsersNext, NEW p \in Procs,
                      pc[p] = "reading", pc'[p] = "ready", ~ disturbed[p],
                      NEW s, s = sent[minor[p]][channel[p]]
               PROVE  \/ s = Unknown
                      \/ s = Garbage /\ got[p] = << >>
                      \/ s \in Messages
                         /\ got[p] = [k \in 1 .. Stored(s) |-> <<s, minor[p], channel[p]>>]
    OBVIOUS
  <2>1. PICK q \in Procs : UserSteps(q)
    BY DEF UsersNext, UserSteps
  <2>2. q = p
    BY <2>1, UsersOthers DEF Keeps
  <2>3. CallsTypeOK /\ Call(p)
    BY <2>1, <2>2, UsersBasics DEF vars
  <2>4. ReadEnd(p)
    BY <2>3 DEF Call, Open, OpenExisting, OpenInsert, OpenInsertFails, OpenPublish,
       Ioctl, Release, ReleaseClose, Write, WriteCheck, WriteRefused, WriteByte, WriteLength,
       Read, ReadCheck, ReadRefused, ReadByte, OrphanCalls, Replaced, CallsTypeOK
  <2> QED BY <2>4, TakesLastSent
<1> QED BY <1>1, UsersInOrder, PTL DEF UsersSpec, ReadsLastSent
=============================================================================
