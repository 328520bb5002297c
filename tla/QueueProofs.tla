----------------------------- MODULE QueueProofs -----------------------------
(***************************************************************************)
(* The queue of the thread pool implements a sequence, for every finite    *)
(* set of nodes and every set of data: module Queue.                       *)
(***************************************************************************)
EXTENDS Queue, FiniteSetTheorems, NaturalsInduction, WellFoundedInduction, TLAPS

---------------------------------------------------------------------------
(* The inductive invariant *)

\* The node in place i of a queue whose nodes are ring, from p_head on.
Linked(ring, i) ==
  [p_data |-> node[ring[i]].p_data,
   p_next |-> IF i = size THEN NULL ELSE ring[i + 1],
   p_prev |-> IF i = 1 THEN NULL ELSE ring[i - 1]]

\* The allocated nodes, each once, linked both ways in one order.
IsRing(ring) ==
  /\ ring \in [1..size -> Node]
  /\ \A i, j \in 1..size : ring[i] = ring[j] => i = j
  /\ \A i \in 1..size : node[ring[i]] = Linked(ring, i) /\ node[ring[i]].p_data \in Data
  /\ \A n \in Node : (\A i \in 1..size : ring[i] # n) => node[n] = Free
  /\ IF size = 0 THEN p_head = NULL /\ p_tail = NULL
                 ELSE p_head = ring[1] /\ p_tail = ring[size]

NodeType == [p_data : Data \cup {NULL}, p_next : Node \cup {NULL}, p_prev : Node \cup {NULL}]

Types == size \in Nat /\ node \in [Node -> NodeType]

IInv == Types /\ \E ring : IsRing(ring)

\* What memory is: NULL is no node and no data, and there are finitely many nodes.
Memory == NULL \notin Node /\ NULL \notin Data /\ IsFiniteSet(Node)

---------------------------------------------------------------------------
(* The two chains of pointers *)

\* A non-empty set of natural numbers has a least element.
LEMMA LeastNatural ==
  ASSUME NEW T \in SUBSET Nat, T # {}
  PROVE  \E x \in T : \A y \in T : x <= y
<1>1. IsWellFoundedOn(OpToRel(<, Nat), Nat)
  BY NatLessThanWellFounded
<1>2. PICK x \in T : \A y \in T : ~(<<y, x>> \in OpToRel(<, Nat))
  BY <1>1, WFMin, Zenon
<1>3. \A y \in T : ~(y < x)
  BY <1>2 DEF OpToRel
<1>4. \A y \in T : y \in Nat /\ x \in Nat
  OBVIOUS
<1> QED BY <1>3, <1>4

\* Two functions that agree where they begin, and wherever they agreed one place
\* before, are one.
Alike(f, g, a, b) ==
  \A i \in a..b : (i = a \/ f[i - 1] = g[i - 1]) => f[i] = g[i]

LEMMA OneChain ==
  ASSUME NEW a \in Int, NEW b \in Int, NEW f, NEW g, Alike(f, g, a, b)
  PROVE  \A i \in a..b : f[i] = g[i]
<1> USE DEF Alike
<1> DEFINE T == {k \in Nat : a + k \in a..b /\ f[a + k] # g[a + k]}
<1>1. T = {}
  <2> SUFFICES ASSUME T # {}  PROVE FALSE
    OBVIOUS
  <2>1. PICK k \in T : \A y \in T : k <= y
    <3>1. T \in SUBSET Nat
      OBVIOUS
    <3> QED BY <3>1, LeastNatural
  <2>2. k # 0
    BY <2>1
  <2>3. k - 1 \in Nat /\ k - 1 \notin T /\ a + (k - 1) \in a..b /\ a + (k - 1) = (a + k) - 1
    BY <2>1, <2>2
  <2>4. f[(a + k) - 1] = g[(a + k) - 1]
    BY <2>3
  <2> QED BY <2>1, <2>4
<1> SUFFICES ASSUME NEW i \in a..b, f[i] # g[i]  PROVE FALSE
  OBVIOUS
<1>2. i - a \in Nat /\ a + (i - a) = i
  OBVIOUS
<1>3. i - a \in T
  BY <1>2
<1> QED BY <1>1, <1>3

\* Along p_next from p_head.
IsForth(f) == f = [i \in 1..size |-> IF i = 1 THEN p_head ELSE node[f[i - 1]].p_next]

LEMMA ContentsOf ==
  ASSUME Types, NEW ring, IsRing(ring)
  PROVE  Contents = [i \in 1..size |-> node[ring[i]].p_data]
<1>1. \A i \in 1..size : ring[i] = IF i = 1 THEN p_head ELSE node[ring[i - 1]].p_next
  <2> TAKE i \in 1..size
  <2>1. CASE i = 1
    BY <2>1 DEF Types, IsRing
  <2>2. CASE i # 1
    <3>1. i - 1 \in 1..size /\ (i - 1) + 1 = i /\ i - 1 # size
      BY <2>2 DEF Types
    <3>2. node[ring[i - 1]] = Linked(ring, i - 1)
      BY <3>1 DEF IsRing
    <3> QED BY <2>2, <3>1, <3>2 DEF Linked
  <2> QED BY <2>1, <2>2
<1>2. ring = [i \in 1..size |-> ring[i]]
  BY DEF IsRing
<1>3. IsForth(ring)
  BY <1>1, <1>2 DEF IsForth
<1>4. ASSUME NEW f, IsForth(f)
      PROVE  f = ring
  <2>1. f = [i \in 1..size |-> f[i]]
    BY <1>4 DEF IsForth
  <2>2. \A i \in 1..size : f[i] = IF i = 1 THEN p_head ELSE node[f[i - 1]].p_next
    BY <1>4 DEF IsForth
  <2>3. size \in Int /\ 1 \in Int
    BY DEF Types
  <2>4. Alike(f, ring, 1, size)
    BY <1>1, <2>2 DEF Alike
  <2>5. \A i \in 1..size : f[i] = ring[i]
    BY <2>3, <2>4, OneChain
  <2> QED BY <1>2, <2>1, <2>5
<1> DEFINE at == CHOOSE f : IsForth(f)
<1>5. at = ring
  <2>1. IsForth(at)
    BY <1>3, Zenon
  <2> HIDE DEF at
  <2> QED BY <1>4, <2>1
<1>6. Contents = [i \in 1..size |-> node[at[i]].p_data]
  BY DEF Contents, IsForth
<1> QED BY <1>5, <1>6

\* Along p_prev from p_tail.
IsBack(f) == f = [i \in 0..size - 1 |-> IF i = 0 THEN p_tail ELSE node[f[i - 1]].p_prev]
Back == CHOOSE f : IsBack(f)

LEMMA BackOf ==
  ASSUME Types, NEW ring, IsRing(ring)
  PROVE  Back = [i \in 0..size - 1 |-> ring[size - i]]
<1> DEFINE b == [i \in 0..size - 1 |-> ring[size - i]]
<1>1. \A i \in 0..size - 1 : b[i] = IF i = 0 THEN p_tail ELSE node[b[i - 1]].p_prev
  <2> TAKE i \in 0..size - 1
  <2>1. CASE i = 0
    BY <2>1 DEF Types, IsRing
  <2>2. CASE i # 0
    <3>1. /\ i - 1 \in 0..size - 1 /\ size - (i - 1) \in 1..size
          /\ size - (i - 1) # 1 /\ (size - (i - 1)) - 1 = size - i
      BY <2>2 DEF Types
    <3>2. node[ring[size - (i - 1)]] = Linked(ring, size - (i - 1))
      BY <3>1 DEF IsRing
    <3> QED BY <2>2, <3>1, <3>2 DEF Linked
  <2> QED BY <2>1, <2>2
<1>2. b = [i \in 0..size - 1 |-> b[i]]
  OBVIOUS
<1> HIDE DEF b
<1>3. IsBack(b)
  BY <1>1, <1>2 DEF IsBack
<1>4. ASSUME NEW f, IsBack(f)
      PROVE  f = b
  <2>1. f = [i \in 0..size - 1 |-> f[i]]
    BY <1>4 DEF IsBack
  <2>2. \A i \in 0..size - 1 : f[i] = IF i = 0 THEN p_tail ELSE node[f[i - 1]].p_prev
    BY <1>4 DEF IsBack
  <2>3. size - 1 \in Int /\ 0 \in Int
    BY DEF Types
  <2>4. Alike(f, b, 0, size - 1)
    BY <1>1, <2>2 DEF Alike
  <2>5. \A i \in 0..size - 1 : f[i] = b[i]
    BY <2>3, <2>4, OneChain
  <2> QED BY <1>2, <2>1, <2>5
<1>5. IsBack(Back)
  BY <1>3, Zenon DEF Back
<1> QED BY <1>4, <1>5 DEF b

LEMMA ContentsNext ==
  ASSUME NEW CONSTANT ring
  PROVE  /\ Types /\ IsRing(ring) => Contents = [i \in 1..size |-> node[ring[i]].p_data]
         /\ (Types /\ IsRing(ring))'
              => (Contents = [i \in 1..size |-> node[ring[i]].p_data])'
<1>1. Types /\ IsRing(ring) => Contents = [i \in 1..size |-> node[ring[i]].p_data]
  BY ContentsOf
<1> QED BY <1>1, PTL

\* What the queue holds, as a sequence.
LEMMA ContentsFacts ==
  ASSUME Types, NEW ring, IsRing(ring)
  PROVE  /\ Contents \in Seq(Data) /\ Len(Contents) = size /\ DOMAIN Contents = 1..size
         /\ \A i \in 1..size : Contents[i] = node[ring[i]].p_data
<1>1. Contents = [i \in 1..size |-> node[ring[i]].p_data]
  BY ContentsOf
<1>2. size \in Nat /\ \A i \in 1..size : node[ring[i]].p_data \in Data
  BY DEF Types, IsRing
<1> QED BY <1>1, <1>2

LEMMA ContentsFactsNext ==
  ASSUME NEW CONSTANT ring, (Types /\ IsRing(ring))'
  PROVE  /\ Contents' \in Seq(Data) /\ Len(Contents') = size' /\ DOMAIN Contents' = 1..size'
         /\ \A i \in 1..size' : Contents'[i] = node'[ring[i]].p_data
<1>1. Contents' = [i \in 1..size' |-> node'[ring[i]].p_data]
  BY ContentsNext
<1>2. size' \in Nat /\ \A i \in 1..size' : node'[ring[i]].p_data \in Data
  BY DEF Types, IsRing
<1> QED BY <1>1, <1>2

\* There are no more nodes in the queue than in memory.
LEMMA SizeBound ==
  ASSUME Memory, Types, NEW ring, IsRing(ring)
  PROVE  size <= Cardinality(Node)
<1>1. IsFiniteSet(1..size) /\ Cardinality(1..size) = size /\ size \in Nat
  BY FS_Interval DEF Types
<1>2. IsFiniteSet(Node) /\ Cardinality(Node) \in Nat
  BY FS_CardinalityType DEF Memory
<1>3. ring \in [1..size -> Node] /\ \A i, j \in 1..size : ring[i] = ring[j] => i = j
  BY DEF IsRing
<1>4. ~(Cardinality(Node) < Cardinality(1..size))
  BY <1>1, <1>2, <1>3, FS_PigeonHole
<1> QED BY <1>1, <1>2, <1>4

---------------------------------------------------------------------------
(* The operations *)

LEMMA EnqueueStep ==
  ASSUME Memory, Types, NEW ring, IsRing(ring), NEW d \in Data, Enqueue(d)
  PROVE  /\ Types' /\ \E r : IsRing(r)'
         /\ Contents' = <<d>> \o Contents
         /\ Node # {} /\ returned' = "SUCCESS"
<1>1. PICK n \in Node \ Allocated :
        /\ p_head' = n
        /\ p_tail' = IF size = 0 THEN n ELSE p_tail
        /\ node' = [m \in Node |->
             IF m = n THEN [p_data |-> d, p_prev |-> NULL, p_next |-> p_head]
             ELSE IF m = p_head THEN [node[m] EXCEPT !.p_prev = n]
             ELSE node[m]]
  BY DEF Enqueue
<1>2. size' = size + 1 /\ size \in Nat /\ node \in [Node -> NodeType]
  BY DEF Enqueue, Types
<1>3. n \in Node /\ node[n] = Free
  BY <1>1 DEF Allocated
<1>4. \A i \in 1..size : ring[i] \in Node /\ ring[i] # n
  BY <1>3 DEF IsRing, Free, Memory
<1>5. /\ size # 0 => p_head = ring[1] /\ p_tail = ring[size] /\ p_head \in Node
      /\ size = 0 => p_head = NULL
      /\ p_head \in Node \cup {NULL}
  BY <1>2 DEF IsRing
<1>6. Types'
  <2>1. ASSUME NEW m \in Node
        PROVE  node'[m] \in NodeType
    <3>1. node[m] \in NodeType
      BY <1>2
    <3> QED BY <1>1, <1>3, <1>5, <3>1 DEF NodeType
  <2> QED BY <1>1, <1>2, <2>1 DEF Types
<1> PICK r : r = [i \in 1..size + 1 |-> IF i = 1 THEN n ELSE ring[i - 1]]
  OBVIOUS
<1>7. /\ r \in [1..size' -> Node] /\ r[1] = n
      /\ \A i \in 1..size : r[i + 1] = ring[i]
      /\ \A i \in 1..size' : i # 1 => i - 1 \in 1..size /\ r[i] = ring[i - 1]
  BY <1>2, <1>3, <1>4
<1>8. node'[n] = [p_data |-> d, p_prev |-> NULL, p_next |-> p_head]
  BY <1>1, <1>3
<1>9. ASSUME NEW i \in 1..size
      PROVE  /\ node'[ring[i]].p_data = node[ring[i]].p_data
             /\ node'[ring[i]] = Linked(r, i + 1)'
  <2>1. /\ node[ring[i]] = Linked(ring, i) /\ ring[i] \in Node /\ ring[i] # n
        /\ node[ring[i]].p_data \in Data
    BY <1>4 DEF IsRing
  <2>2. /\ i + 1 \in 1..size' /\ i + 1 # 1 /\ (i + 1) - 1 = i
        /\ (i + 1 = size' <=> i = size) /\ (i # size => i + 1 \in 1..size)
    BY <1>2
  <2>3. CASE i = 1
    <3>1. ring[i] = p_head
      BY <1>2, <1>5, <2>3
    <3>2. node'[ring[i]] = [node[ring[i]] EXCEPT !.p_prev = n]
      BY <1>1, <2>1, <3>1
    <3>3. node'[ring[i]] = [p_data |-> node[ring[i]].p_data,
                            p_next |-> IF i = size THEN NULL ELSE ring[i + 1],
                            p_prev |-> n]
      BY <2>1, <3>2 DEF Linked
    <3>4. /\ r[i + 1] = ring[i] /\ r[(i + 1) - 1] = n
          /\ i # size => r[(i + 1) + 1] = ring[i + 1]
      BY <1>7, <2>2, <2>3
    <3> QED BY <2>2, <3>3, <3>4 DEF Linked
  <2>4. CASE i # 1
    <3>1. ring[i] # p_head
      BY <1>2, <1>5, <2>4 DEF IsRing
    <3>2. node'[ring[i]] = node[ring[i]]
      BY <1>1, <2>1, <3>1
    <3>3. i - 1 \in 1..size /\ (i - 1) + 1 = i
      BY <1>2, <2>4
    <3>4. r[i] = ring[i - 1]
      BY <1>7, <3>3
    <3> QED BY <1>7, <2>1, <2>2, <2>4, <3>2, <3>4 DEF Linked
  <2> QED BY <2>3, <2>4
<1>10. node'[n] = Linked(r, 1)' /\ node'[n].p_data \in Data
  <2>1. CASE size = 0
    BY <1>2, <1>5, <1>7, <1>8, <2>1 DEF Linked
  <2>2. CASE size # 0
    <3>1. 1 \in 1..size /\ size' # 1
      BY <1>2, <2>2
    <3>2. r[1 + 1] = p_head
      BY <1>5, <1>7, <2>2, <3>1
    <3> QED BY <1>7, <1>8, <3>1, <3>2 DEF Linked
  <2> QED BY <2>1, <2>2
<1>11. IsRing(r)'
  <2>1. \A i, j \in 1..size' : r[i] = r[j] => i = j
    <3> SUFFICES ASSUME NEW i \in 1..size', NEW j \in 1..size', r[i] = r[j]  PROVE i = j
      OBVIOUS
    <3>1. CASE i = 1 \/ j = 1
      BY <1>4, <1>7, <3>1
    <3>2. CASE i # 1 /\ j # 1
      <4>1. i - 1 \in 1..size /\ j - 1 \in 1..size /\ ring[i - 1] = ring[j - 1]
        BY <1>7, <3>2
      <4>2. i - 1 = j - 1
        BY <4>1 DEF IsRing
      <4> QED BY <1>2, <4>2
    <3> QED BY <3>1, <3>2
  <2>2. \A i \in 1..size' : node'[r[i]] = Linked(r, i)' /\ node'[r[i]].p_data \in Data
    <3> SUFFICES ASSUME NEW i \in 1..size'
                 PROVE  node'[r[i]] = Linked(r, i)' /\ node'[r[i]].p_data \in Data
      OBVIOUS
    <3>1. CASE i = 1
      BY <1>7, <1>10, <3>1
    <3>2. CASE i # 1
      <4>1. i - 1 \in 1..size /\ r[i] = ring[i - 1] /\ (i - 1) + 1 = i
        BY <1>2, <1>7, <3>2
      <4>2. node[ring[i - 1]].p_data \in Data
        BY <4>1 DEF IsRing
      <4> QED BY <1>9, <4>1, <4>2
    <3> QED BY <3>1, <3>2
  <2>3. \A m \in Node : (\A i \in 1..size' : r[i] # m) => node'[m] = Free
    <3> SUFFICES ASSUME NEW m \in Node, \A i \in 1..size' : r[i] # m
                 PROVE  node'[m] = Free
      OBVIOUS
    <3>1. m # n
      BY <1>2, <1>7
    <3>2. ASSUME NEW i \in 1..size
          PROVE  ring[i] # m
      <4>1. i + 1 \in 1..size' /\ r[i + 1] = ring[i]
        BY <1>2, <1>7
      <4> QED BY <4>1
    <3>3. node[m] = Free /\ (size # 0 => m # p_head)
      BY <1>2, <1>5, <3>2 DEF IsRing
    <3>4. m # p_head
      BY <1>5, <3>3 DEF Memory
    <3> QED BY <1>1, <3>1, <3>3, <3>4
  <2>4. size' # 0 /\ p_head' = r[1] /\ p_tail' = r[size']
    <3>1. size # 0 => r[size + 1] = ring[size]
      BY <1>2, <1>7
    <3> QED BY <1>1, <1>2, <1>5, <1>7, <3>1
  <2> QED BY <1>7, <2>1, <2>2, <2>3, <2>4 DEF IsRing
<1>12. Contents' = <<d>> \o Contents
  <2>1. /\ Contents \in Seq(Data) /\ Len(Contents) = size /\ DOMAIN Contents = 1..size
        /\ \A i \in 1..size : Contents[i] = node[ring[i]].p_data
    BY ContentsFacts
  <2>2. /\ Contents' \in Seq(Data) /\ Len(Contents') = size'
        /\ \A i \in 1..size' : Contents'[i] = node'[r[i]].p_data
    BY <1>6, <1>11, ContentsFactsNext
  <2>3. Contents'[1] = d
    BY <1>2, <1>7, <1>8, <2>2
  <2>4. \A i \in 1..size : Contents'[i + 1] = Contents[i]
    <3> TAKE i \in 1..size
    <3>1. i + 1 \in 1..size' /\ r[i + 1] = ring[i]
      BY <1>2, <1>7
    <3>2. Contents'[i + 1] = node'[r[i + 1]].p_data
      BY <2>2, <3>1
    <3>3. node'[ring[i]].p_data = node[ring[i]].p_data
      BY <1>9
    <3>4. Contents[i] = node[ring[i]].p_data
      BY <2>1
    <3> QED BY <3>1, <3>2, <3>3, <3>4
  <2> PICK s : s = Contents
    OBVIOUS
  <2> PICK t : t = Contents'
    OBVIOUS
  <2>5. /\ s \in Seq(Data) /\ t \in Seq(Data) /\ Len(t) = Len(s) + 1
        /\ t[1] = d /\ \A i \in 1..Len(s) : t[i + 1] = s[i]
    BY <1>2, <2>1, <2>2, <2>3, <2>4
  <2>6. t = <<d>> \o s
    BY <2>5
  <2> QED BY <2>6
<1> QED BY <1>3, <1>6, <1>11, <1>12 DEF Enqueue

LEMMA TakeLastStep ==
  ASSUME Memory, Types, NEW ring, IsRing(ring), TakeLast
  PROVE  /\ Types' /\ \E r : IsRing(r)'
         /\ size # 0 /\ Contents # << >>
         /\ Contents' = SubSeq(Contents, 1, Len(Contents) - 1)
         /\ LastData = Contents[Len(Contents)]
<1>1. /\ size \in Nat /\ size # 0 /\ size' = size - 1 /\ size' \in Nat
      /\ node \in [Node -> NodeType]
  BY DEF TakeLast, Types
<1>2. /\ p_head = ring[1] /\ p_tail = ring[size] /\ 1 \in 1..size /\ size \in 1..size
      /\ p_head \in Node /\ p_tail \in Node
  BY <1>1 DEF IsRing
<1>3. size > 1 => BeforeLast = ring[size - 1] /\ size - 1 \in 1..size /\ BeforeLast \in Node
                  /\ BeforeLast # p_tail
  <2> SUFFICES ASSUME size > 1
               PROVE  BeforeLast = ring[size - 1] /\ size - 1 \in 1..size /\ BeforeLast \in Node
                      /\ BeforeLast # p_tail
    OBVIOUS
  <2>1. size - 1 \in 1..size /\ size # 1 /\ size - 1 # size
    BY <1>1
  <2>2. node[ring[size]] = Linked(ring, size)
    BY <1>2 DEF IsRing
  <2>3. BeforeLast = ring[size - 1]
    BY <1>2, <2>1, <2>2 DEF BeforeLast, Linked
  <2> QED BY <1>2, <2>1, <2>3 DEF IsRing
<1>4. /\ node' \in [Node -> NodeType]
      /\ node'[p_tail] = Free
      /\ \A n \in Node : n # p_tail /\ (size > 1 => n # BeforeLast) => node'[n] = node[n]
      /\ size > 1 => node'[BeforeLast] = [node[BeforeLast] EXCEPT !.p_next = NULL]
  <2>1. Free \in NodeType
    BY DEF Free, NodeType
  <2>2. CASE size = 1
    BY <1>1, <1>2, <2>1, <2>2 DEF TakeLast
  <2>3. CASE size > 1
    <3>1. node' = [node EXCEPT ![p_tail] = Free, ![BeforeLast].p_next = NULL]
      BY <1>1, <2>3 DEF TakeLast
    <3>2. [node[BeforeLast] EXCEPT !.p_next = NULL] \in NodeType
      BY <1>1, <1>3, <2>3 DEF NodeType
    <3>3. node' = [n \in Node |-> IF n = BeforeLast THEN [node[n] EXCEPT !.p_next = NULL]
                                  ELSE IF n = p_tail THEN Free ELSE node[n]]
      BY <1>1, <1>2, <1>3, <2>3, <3>1
    <3> QED BY <1>1, <1>2, <1>3, <2>1, <2>3, <3>2, <3>3
  <2> QED BY <1>1, <2>2, <2>3
<1>5. Types'
  BY <1>1, <1>4 DEF Types
<1> PICK r : r = [i \in 1..size - 1 |-> ring[i]]
  OBVIOUS
<1>6. /\ r \in [1..size' -> Node]
      /\ \A i \in 1..size' : i \in 1..size /\ i # size /\ r[i] = ring[i] /\ ring[i] # p_tail
  <2>1. \A i \in 1..size - 1 : i \in 1..size /\ i # size
    BY <1>1
  <2> QED BY <1>1, <1>2, <2>1 DEF IsRing
<1>7. ASSUME NEW i \in 1..size'
      PROVE  node'[r[i]] = Linked(r, i)' /\ node'[r[i]].p_data = node[ring[i]].p_data
  <2>1. i \in 1..size /\ i # size /\ r[i] = ring[i] /\ ring[i] # p_tail /\ ring[i] \in Node
    BY <1>6 DEF IsRing
  <2>2. node[ring[i]] = Linked(ring, i)
    BY <2>1 DEF IsRing
  <2>3. i # 1 => r[i - 1] = ring[i - 1]
    <3>1. i # 1 => i - 1 \in 1..size'
      BY <1>1
    <3> QED BY <1>6, <3>1
  <2>4. CASE i = size'
    <3>1. size > 1 /\ ring[i] = BeforeLast
      BY <1>1, <1>3, <2>4
    <3>2. node'[ring[i]] = [p_data |-> node[ring[i]].p_data, p_next |-> NULL,
                            p_prev |-> IF i = 1 THEN NULL ELSE ring[i - 1]]
      BY <1>4, <2>2, <3>1 DEF Linked
    <3> DEFINE before == IF i = 1 THEN NULL ELSE r[i - 1]
    <3>7. before = IF i = 1 THEN NULL ELSE ring[i - 1]
      BY <2>3
    <3> HIDE DEF before
    <3>8. node'[r[i]] = [p_data |-> node[ring[i]].p_data, p_next |-> NULL, p_prev |-> before]
      BY <2>1, <3>2, <3>7, Zenon
    <3>3. /\ node'[r[i]].p_data = node[ring[i]].p_data
          /\ node'[r[i]] = [p_data |-> node[ring[i]].p_data, p_next |-> NULL,
                             p_prev |-> IF i = 1 THEN NULL ELSE r[i - 1]]
      BY <3>8 DEF before
    <3>4. Linked(r, i)' = [p_data |-> node'[r[i]].p_data, p_next |-> NULL,
                           p_prev |-> IF i = 1 THEN NULL ELSE r[i - 1]]
      BY <2>4 DEF Linked
    <3>5. node'[r[i]].p_data = node[ring[i]].p_data
      BY <3>3
    <3>6. node'[r[i]] = Linked(r, i)'
      BY <3>3, <3>4, <3>5, Zenon
    <3> QED BY <3>5, <3>6
  <2>5. CASE i # size'
    <3>1. i + 1 \in 1..size' /\ r[i + 1] = ring[i + 1]
      BY <1>1, <1>6, <2>5
    <3>2. size > 1 => ring[i] # BeforeLast
      BY <1>1, <1>3, <2>1, <2>5 DEF IsRing
    <3>3. node'[ring[i]] = node[ring[i]]
      BY <1>4, <2>1, <3>2
    <3> QED BY <2>1, <2>2, <2>3, <2>5, <3>1, <3>3 DEF Linked
  <2> QED BY <2>4, <2>5
<1>8. IsRing(r)'
  <2>1. \A i, j \in 1..size' : r[i] = r[j] => i = j
    BY <1>6 DEF IsRing
  <2>2. \A i \in 1..size' : node'[r[i]] = Linked(r, i)' /\ node'[r[i]].p_data \in Data
    BY <1>6, <1>7 DEF IsRing
  <2>3. \A n \in Node : (\A i \in 1..size' : r[i] # n) => node'[n] = Free
    <3> SUFFICES ASSUME NEW n \in Node, \A i \in 1..size' : r[i] # n, n # p_tail
                 PROVE  node'[n] = Free
      BY <1>4
    <3>1. ASSUME NEW i \in 1..size
          PROVE  ring[i] # n
      <4>1. i = size \/ i \in 1..size'
        BY <1>1
      <4> QED BY <1>2, <1>6, <4>1
    <3>2. node[n] = Free /\ (size > 1 => n # BeforeLast)
      BY <1>3, <3>1 DEF IsRing
    <3> QED BY <1>4, <3>2
  <2>4. IF size' = 0 THEN p_head' = NULL /\ p_tail' = NULL
                     ELSE p_head' = r[1] /\ p_tail' = r[size']
    <3>1. CASE size = 1
      BY <1>1, <3>1 DEF TakeLast
    <3>2. CASE size > 1
      <4>1. 1 \in 1..size' /\ size' \in 1..size' /\ size' # 0
        BY <1>1, <3>2
      <4>2. p_head' = p_head /\ p_tail' = BeforeLast
        BY <1>1, <3>2 DEF TakeLast
      <4> QED BY <1>1, <1>2, <1>3, <1>6, <3>2, <4>1, <4>2
    <3> QED BY <1>1, <3>1, <3>2
  <2> QED BY <1>6, <2>1, <2>2, <2>3, <2>4 DEF IsRing
<1>9. /\ Contents \in Seq(Data) /\ Len(Contents) = size
      /\ \A i \in 1..size : Contents[i] = node[ring[i]].p_data
  BY ContentsFacts
<1>10. /\ Contents' \in Seq(Data) /\ Len(Contents') = size'
       /\ \A i \in 1..size' : Contents'[i] = node'[r[i]].p_data
  BY <1>5, <1>8, ContentsFactsNext
<1>11. Contents' = SubSeq(Contents, 1, Len(Contents) - 1)
  <2>1. \A i \in 1..size' : Contents'[i] = Contents[i]
    BY <1>6, <1>7, <1>9, <1>10
  <2> PICK s : s = Contents
    OBVIOUS
  <2> PICK t : t = Contents'
    OBVIOUS
  <2>2. /\ s \in Seq(Data) /\ t \in Seq(Data) /\ Len(t) = Len(s) - 1
        /\ \A i \in 1..Len(t) : t[i] = s[i]
    BY <1>1, <1>9, <1>10, <2>1
  <2>3. t = SubSeq(s, 1, Len(s) - 1)
    BY <2>2
  <2> QED BY <2>3
<1>12. LastData = Contents[Len(Contents)] /\ Contents # << >>
  BY <1>1, <1>2, <1>9 DEF LastData
<1> QED BY <1>1, <1>5, <1>8, <1>11, <1>12

LEMMA FullDestroyStep ==
  ASSUME Memory, Types, NEW ring, IsRing(ring), FullDestroy
  PROVE  /\ Types' /\ \E r : IsRing(r)'
         /\ Contents' = << >> /\ returned' = "SUCCESS"
<1>1. /\ node' = [n \in Node |-> IF \E i \in 0..size - 1 : Back[i] = n THEN Free
                                 ELSE node[n]]
      /\ p_head' = NULL /\ p_tail' = NULL /\ size' = 0 /\ returned' = "SUCCESS"
  BY DEF FullDestroy, Back, IsBack
<1>2. \A n \in Node : node'[n] = Free
  <2> TAKE n \in Node
  <2>1. CASE \E i \in 0..size - 1 : Back[i] = n
    BY <1>1, <2>1
  <2>2. CASE \A i \in 0..size - 1 : Back[i] # n
    <3>1. ASSUME NEW i \in 1..size
          PROVE  ring[i] # n
      <4>1. size - i \in 0..size - 1 /\ size - (size - i) = i
        BY DEF Types
      <4>2. Back[size - i] = ring[i]
        BY <4>1, BackOf
      <4> QED BY <2>2, <4>1, <4>2
    <3>2. node[n] = Free
      BY <3>1 DEF IsRing
    <3> QED BY <1>1, <2>2, <3>2
  <2> QED BY <2>1, <2>2
<1>3. Types'
  <2>1. Free \in NodeType
    BY DEF Free, NodeType
  <2>2. node' \in [Node -> NodeType]
    BY <1>1, <1>2, <2>1
  <2> QED BY <1>1, <2>2 DEF Types
<1> PICK r : r = [i \in 1..0 |-> NULL]
  OBVIOUS
<1>4. IsRing(r)'
  <2>1. r \in [1..size' -> Node] /\ \A i \in 1..size' : FALSE
    BY <1>1
  <2> QED BY <1>1, <1>2, <2>1 DEF IsRing
<1>5. Contents' \in Seq(Data) /\ Len(Contents') = 0
  BY <1>1, <1>3, <1>4, ContentsFactsNext
<1> QED BY <1>1, <1>3, <1>4, <1>5

---------------------------------------------------------------------------
(* Theorems *)

LEMMA InsertedFirst ==
  ASSUME NEW s \in Seq(Data), NEW d \in Data
  PROVE  <<d>> \o s = SubSeq(s, 1, 0) \o <<d>> \o SubSeq(s, 1, Len(s))
<1>1. SubSeq(s, 1, 0) = << >> /\ SubSeq(s, 1, Len(s)) = s
  OBVIOUS
<1>2. << >> \o <<d>> = <<d>>
  OBVIOUS
<1> QED BY <1>1, <1>2

\* Every call of the queue is one of the sequence, and keeps the chains.
LEMMA CallRefines ==
  ASSUME Memory, IInv, Next
  PROVE  IInv' /\ Abstract!Next
<1>1. PICK ring : IsRing(ring)
  BY DEF IInv
<1>2. /\ Types /\ size \in Nat
      /\ Contents \in Seq(Data) /\ Len(Contents) = size
  BY <1>1, ContentsFacts DEF IInv, Types
<1>3. size <= Cardinality(Node) /\ Cardinality(Node) \in Nat
  BY <1>1, <1>2, SizeBound, FS_CardinalityType DEF Memory
<1>4. ASSUME NEW d \in Data, Enqueue(d), call' = <<"insert", 0, d>>
      PROVE  IInv' /\ Abstract!Next
  <2>1. /\ IInv' /\ Contents' = <<d>> \o Contents
        /\ Node # {} /\ returned' = "SUCCESS"
    BY <1>1, <1>2, <1>4, EnqueueStep DEF IInv
  <2>2. Contents' = SubSeq(Contents, 1, 0) \o <<d>> \o SubSeq(Contents, 1, Len(Contents))
    BY <1>2, <2>1, InsertedFirst
  <2>3. 0 \in 0..Len(Contents) /\ 0 + 1 = 1 /\ 1 - 1 = 0
    BY <1>2
  <2>4. Abstract!Insert(0, d)
    BY <1>4, <2>1, <2>2, <2>3 DEF Abstract!Insert, Abstract!InsertAt
  <2>5. 0 \in -1..Cardinality(Node) - 1
    <3>1. Cardinality(Node) # 0
      BY <2>1, FS_EmptySet DEF Memory
    <3> QED BY <1>3, <3>1
  <2> QED BY <2>1, <2>4, <2>5 DEF Abstract!Next
<1>5. ASSUME UNCHANGED <<p_head, p_tail, size, node>>
      PROVE  IInv' /\ Contents' = Contents
  <2>1. Contents' = Contents
    BY <1>5 DEF Contents
  <2>2. Types'
    BY <1>2, <1>5 DEF Types
  <2>3. IsRing(ring)'
    BY <1>1, <1>5 DEF IsRing, Linked
  <2> QED BY <2>1, <2>2, <2>3 DEF IInv
<1>6. CASE Dequeue /\ call' = <<"pop">>
  <2>1. CASE size = 0
    <3>1. returned' = NULL /\ UNCHANGED <<p_head, p_tail, size, node>>
      BY <1>2, <1>6, <2>1 DEF Dequeue
    <3>2. Contents = << >>
      BY <1>2, <2>1
    <3> QED BY <1>5, <1>6, <3>1, <3>2 DEF Abstract!Next, Abstract!Pop, Abstract!Returns
  <2>2. CASE size # 0
    <3>1. TakeLast /\ returned' = LastData
      BY <1>6, <2>2 DEF Dequeue
    <3>2. /\ IInv' /\ Contents # << >>
          /\ Contents' = SubSeq(Contents, 1, Len(Contents) - 1)
          /\ LastData = Contents[Len(Contents)]
      BY <1>1, <1>2, <3>1, TakeLastStep DEF IInv
    <3> QED BY <1>6, <3>1, <3>2
            DEF Abstract!Next, Abstract!Pop, Abstract!Front, Abstract!Last
  <2> QED BY <2>1, <2>2
<1>7. CASE Peek /\ call' = <<"return", size - 1>>
  <2>1. IInv' /\ Contents' = Contents
    BY <1>5, <1>7 DEF Peek
  <2>2. returned' = IF size - 1 \in 0..Len(Contents) - 1 THEN Contents[(size - 1) + 1] ELSE NULL
    <3>1. CASE size = 0
      BY <1>2, <1>7, <3>1 DEF Peek
    <3>2. CASE size # 0
      <4>1. size - 1 \in 0..Len(Contents) - 1 /\ (size - 1) + 1 = size /\ size \in 1..size
        BY <1>2, <3>2
      <4>2. Contents[size] = node[ring[size]].p_data /\ p_tail = ring[size]
        BY <1>1, <1>2, <3>2, <4>1, ContentsFacts DEF IsRing
      <4> QED BY <1>7, <3>2, <4>1, <4>2 DEF Peek, LastData
    <3> QED BY <3>1, <3>2
  <2>3. Abstract!Return(size - 1)
    BY <1>7, <2>1, <2>2 DEF Abstract!Return, Abstract!Returns
  <2>4. size - 1 \in -1..Cardinality(Node) - 1
    BY <1>2, <1>3
  <2> QED BY <2>1, <2>3, <2>4 DEF Abstract!Next
<1>8. CASE FullDestroy /\ call' = <<"destroy">>
  <2>1. IInv' /\ Contents' = << >> /\ returned' = "SUCCESS"
    BY <1>1, <1>2, <1>8, FullDestroyStep DEF IInv
  <2> QED BY <1>8, <2>1 DEF Abstract!Next, Abstract!Destroy
<1> QED BY <1>4, <1>6, <1>7, <1>8 DEF Next

LEMMA InitRefines ==
  ASSUME Init
  PROVE  IInv /\ Abstract!Init
<1> PICK r : r = [i \in 1..0 |-> NULL]
  OBVIOUS
<1>1. Types
  BY DEF Init, Types, Free, NodeType
<1>2. IsRing(r)
  <2>1. r \in [1..size -> Node] /\ \A i \in 1..size : FALSE
    BY DEF Init
  <2> QED BY <2>1 DEF Init, IsRing
<1>3. Contents = << >>
  <2>1. Contents \in Seq(Data) /\ Len(Contents) = 0
    BY <1>1, <1>2, ContentsFacts DEF Init
  <2> QED BY <2>1
<1> QED BY <1>1, <1>2, <1>3 DEF Init, IInv, Abstract!Init

\* The nodes of the queue are linked both ways in one order, whatever calls come
\* one after the other: queue_enqueue, queue_dequeue and queue_full_destroy.
THEOREM ChainsMirror ==
  ASSUME Memory
  PROVE  Spec => []IInv
<1>1. Init => IInv
  BY InitRefines
<1>2. IInv /\ [Next]_vars => IInv'
  <2> SUFFICES ASSUME IInv, [Next]_vars  PROVE IInv'
    OBVIOUS
  <2>1. CASE Next
    BY <2>1, CallRefines
  <2>2. CASE UNCHANGED vars
    BY <2>2 DEF vars, IInv, Types, IsRing, Linked
  <2> QED BY <2>1, <2>2
<1> QED BY <1>1, <1>2, PTL DEF Spec

\* A queue is a sequence that is filled in front and emptied at its end: each
\* call returns and leaves what that call of a sequence would.
THEOREM IsSequence ==
  ASSUME Memory
  PROVE  Spec => QueueIsSequence
<1>1. Init => Abstract!Init
  BY InitRefines
<1>2. IInv /\ [Next]_vars => [Abstract!Next]_(Abstract!vars)
  <2> SUFFICES ASSUME IInv, [Next]_vars  PROVE Abstract!Next \/ UNCHANGED Abstract!vars
    OBVIOUS
  <2>1. CASE Next
    BY <2>1, CallRefines
  <2>2. CASE UNCHANGED vars
    BY <2>2 DEF vars, Abstract!vars, Contents
  <2> QED BY <2>1, <2>2
<1> QED BY <1>1, <1>2, ChainsMirror, PTL DEF Spec, QueueIsSequence, Abstract!Spec
=============================================================================
