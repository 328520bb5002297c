--------------------------- MODULE ContainersProofs ---------------------------
(***************************************************************************)
(* The circular list (module Cll) is a closed ring of the nodes allocated, *)
(* and behaves as a sequence, for every finite set of nodes and every set  *)
(* of data.  The last section is about module MCContainers, which runs a   *)
(* queue and a table beside the list: what QueueProofs and HTableProofs    *)
(* show of each container holds of the composition.                        *)
(***************************************************************************)
EXTENDS MCContainers, FiniteSetTheorems, NaturalsInduction, WellFoundedInduction,
        SequenceTheorems, TLAPS

---------------------------------------------------------------------------
(* Induction *)

\* A non-empty set of natural numbers has a least element.
LEMMA LeastNatural ==
  ASSUME NEW T \in SUBSET Nat, T # {}
  PROVE  \E x \in T : \A y \in T : x <= y
<1>1. IsWellFoundedOn(OpToRel(<, Nat), Nat)
  BY NatLessThanWellFounded
<1>2. PICK x \in T : \A y \in T : ~(<<y, x>> \in OpToRel(<, Nat))
  BY <1>1, WFMin, Zenon
<1>3. \A y \in T : ~(y < x)
  BY <1>2 DEF OpToRel
<1>4. \A y \in T : y \in Nat /\ x \in Nat
  OBVIOUS
<1> QED BY <1>3, <1>4

---------------------------------------------------------------------------
(* Sequences of nodes *)

Nodes(s) == {s[i] : i \in 1..Len(s)}
Distinct(s) == \A i, j \in 1..Len(s) : s[i] = s[j] => i = j
Key(n) == Char[node[n].p_data]
InOrder(s) == \A i, j \in 1..Len(s) : i < j => Key(s[i]) <= Key(s[j])

\* What putting a node in front of a sequence makes of it.
LEMMA ConsFacts ==
  ASSUME NEW h \in Node, NEW s \in Seq(Node)
  PROVE  /\ <<h>> \o s \in Seq(Node) /\ Len(<<h>> \o s) = Len(s) + 1
         /\ Nodes(<<h>> \o s) = {h} \cup Nodes(s)
         /\ Distinct(<<h>> \o s) <=> h \notin Nodes(s) /\ Distinct(s)
         /\ InOrder(<<h>> \o s) <=> InOrder(s) /\ \A n \in Nodes(s) : Key(h) <= Key(n)
<1> DEFINE c == <<h>> \o s
<1>1. /\ c \in Seq(Node) /\ Len(c) = Len(s) + 1 /\ Len(s) \in Nat
      /\ c[1] = h /\ \A i \in 1..Len(s) : c[i + 1] = s[i]
  OBVIOUS
<1> HIDE DEF c
<1>2. \A i \in 1..Len(c) : i # 1 => i - 1 \in 1..Len(s) /\ c[i] = s[i - 1]
  <2> SUFFICES ASSUME NEW i \in 1..Len(c), i # 1
               PROVE  i - 1 \in 1..Len(s) /\ c[i] = s[i - 1]
    OBVIOUS
  <2>1. i - 1 \in 1..Len(s) /\ (i - 1) + 1 = i
    BY <1>1
  <2> QED BY <1>1, <2>1
<1>3. 1 \in 1..Len(c) /\ \A i \in 1..Len(s) : i + 1 \in 1..Len(c) /\ i + 1 # 1
  BY <1>1
<1>4. Nodes(c) = {h} \cup Nodes(s)
  <2>1. Nodes(c) \subseteq {h} \cup Nodes(s)
    BY <1>1, <1>2 DEF Nodes
  <2>2. {h} \cup Nodes(s) \subseteq Nodes(c)
    BY <1>1, <1>3 DEF Nodes
  <2> QED BY <2>1, <2>2
<1>5. Distinct(c) <=> h \notin Nodes(s) /\ Distinct(s)
  <2>1. ASSUME Distinct(c)
        PROVE  h \notin Nodes(s) /\ Distinct(s)
    <3>1. \A i \in 1..Len(s) : s[i] # h
      BY <1>1, <1>3, <2>1 DEF Distinct
    <3>2. \A i, j \in 1..Len(s) : s[i] = s[j] => i = j
      <4> SUFFICES ASSUME NEW i \in 1..Len(s), NEW j \in 1..Len(s), s[i] = s[j]
                   PROVE  i = j
        OBVIOUS
      <4>1. i + 1 = j + 1
        BY <1>1, <1>3, <2>1 DEF Distinct
      <4> QED BY <4>1
    <3> QED BY <3>1, <3>2 DEF Nodes, Distinct
  <2>2. ASSUME h \notin Nodes(s), Distinct(s)
        PROVE  Distinct(c)
    <3> SUFFICES ASSUME NEW i \in 1..Len(c), NEW j \in 1..Len(c), c[i] = c[j]
                 PROVE  i = j
      BY DEF Distinct
    <3>1. (i = 1 <=> j = 1)
      BY <1>1, <1>2, <2>2 DEF Nodes
    <3>2. i # 1 => i - 1 = j - 1
      BY <1>2, <2>2, <3>1 DEF Distinct
    <3> QED BY <3>1, <3>2
  <2> QED BY <2>1, <2>2
<1>6. InOrder(c) <=> InOrder(s) /\ \A n \in Nodes(s) : Key(h) <= Key(n)
  <2>1. ASSUME InOrder(c)
        PROVE  InOrder(s) /\ \A n \in Nodes(s) : Key(h) <= Key(n)
    <3>1. ASSUME NEW i \in 1..Len(s)
          PROVE  Key(h) <= Key(s[i])
      <4>1. i + 1 \in 1..Len(c) /\ 1 \in 1..Len(c) /\ 1 < i + 1 /\ c[i + 1] = s[i]
        BY <1>1, <1>3
      <4> QED BY <1>1, <2>1, <4>1 DEF InOrder
    <3>2. ASSUME NEW i \in 1..Len(s), NEW j \in 1..Len(s), i < j
          PROVE  Key(s[i]) <= Key(s[j])
      <4>1. /\ i + 1 \in 1..Len(c) /\ j + 1 \in 1..Len(c) /\ i + 1 < j + 1
            /\ c[i + 1] = s[i] /\ c[j + 1] = s[j]
        BY <1>1, <1>3, <3>2
      <4>2. Key(c[i + 1]) <= Key(c[j + 1])
        BY <2>1, <4>1 DEF InOrder
      <4> QED BY <4>1, <4>2
    <3> QED BY <3>1, <3>2 DEF InOrder, Nodes
  <2>2. ASSUME InOrder(s), \A n \in Nodes(s) : Key(h) <= Key(n)
        PROVE  InOrder(c)
    <3> SUFFICES ASSUME NEW i \in 1..Len(c), NEW j \in 1..Len(c), i < j
                 PROVE  Key(c[i]) <= Key(c[j])
      BY DEF InOrder
    <3>1. j # 1 /\ j - 1 \in 1..Len(s) /\ c[j] = s[j - 1]
      BY <1>2
    <3>2. CASE i = 1
      BY <1>1, <2>2, <3>1, <3>2 DEF Nodes
    <3>3. CASE i # 1
      <4>1. i - 1 \in 1..Len(s) /\ c[i] = s[i - 1] /\ i - 1 < j - 1
        BY <1>2, <3>1, <3>3
      <4>2. Key(s[i - 1]) <= Key(s[j - 1])
        BY <2>2, <3>1, <4>1 DEF InOrder
      <4> QED BY <3>1, <4>1, <4>2
    <3> QED BY <3>2, <3>3
  <2> QED BY <2>1, <2>2
<1> QED BY <1>1, <1>4, <1>5, <1>6 DEF c

LEMMA EmptyFacts ==
  /\ Nodes(<< >>) = {} /\ Distinct(<< >>) /\ InOrder(<< >>)
  /\ << >> \in Seq(Node) /\ Len(<< >>) = 0
  /\ \A s \in Seq(Node) : Len(s) \in Nat /\ (Len(s) = 0 <=> s = << >>)
  /\ \A s \in Seq(Node) : << >> \o s = s /\ s \o << >> = s
<1>1. << >> \in Seq(Node) /\ Len(<< >>) = 0
  OBVIOUS
<1>2. \A i \in 1..Len(<< >>) : FALSE
  BY <1>1
<1>3. \A s \in Seq(Node) : Len(s) \in Nat /\ (Len(s) = 0 <=> s = << >>)
  OBVIOUS
<1>4. \A s \in Seq(Node) : << >> \o s = s /\ s \o << >> = s
  BY ConcatEmptySeq
<1> QED BY <1>1, <1>2, <1>3, <1>4 DEF Nodes, Distinct, InOrder

LEMMA HeadTailFacts ==
  ASSUME NEW s \in Seq(Node), s # << >>
  PROVE  /\ Head(s) \in Node /\ Tail(s) \in Seq(Node) /\ Len(Tail(s)) = Len(s) - 1
         /\ s = <<Head(s)>> \o Tail(s)
<1>1. Head(s) \in Node /\ Tail(s) \in Seq(Node) /\ Len(Tail(s)) = Len(s) - 1
  BY HeadTailProperties
<1>2. s = <<Head(s)>> \o Tail(s)
  OBVIOUS
<1> QED BY <1>1, <1>2

---------------------------------------------------------------------------
(* cll_merge *)

Pairs == Seq(Node) \X Seq(Node)
Both(p) == Len(p[1]) + Len(p[2])

\* One step of Merge, the rest of it done by another function.
MergeStep(f, a, b) ==
  IF a = << >> \/ b = << >> THEN a \o b
  ELSE IF Key(Head(a)) < Key(Head(b))
       THEN <<Head(a)>> \o f[<<Tail(a), b>>]
       ELSE <<Head(b)>> \o f[<<a, Tail(b)>>]

\* f merges the pairs of a set.
IsMerge(f, P) == f = [p \in P |-> MergeStep(f, p[1], p[2])]

PairsUpTo(n) == {p \in Pairs : Both(p) <= n}

LEMMA PairFacts ==
  \A p \in Pairs : /\ Both(p) \in Nat /\ p[1] \in Seq(Node) /\ p[2] \in Seq(Node)
                   /\ p = <<p[1], p[2]>>
<1> SUFFICES ASSUME NEW p \in Pairs
             PROVE  /\ Both(p) \in Nat /\ p[1] \in Seq(Node) /\ p[2] \in Seq(Node)
                    /\ p = <<p[1], p[2]>>
  OBVIOUS
<1>1. p[1] \in Seq(Node) /\ p[2] \in Seq(Node) /\ p = <<p[1], p[2]>>
  BY DEF Pairs
<1>2. Len(p[1]) \in Nat /\ Len(p[2]) \in Nat
  BY <1>1, EmptyFacts
<1> QED BY <1>1, <1>2 DEF Both

LEMMA PairOf ==
  ASSUME NEW a \in Seq(Node), NEW b \in Seq(Node)
  PROVE  <<a, b>> \in Pairs /\ Both(<<a, b>>) = Len(a) + Len(b)
         /\ <<a, b>>[1] = a /\ <<a, b>>[2] = b
BY DEF Pairs, Both

\* A step asks only for smaller pairs.
LEMMA MergeStepAlike ==
  ASSUME NEW p \in Pairs, NEW f, NEW g,
         \A q \in Pairs : Both(q) < Both(p) => f[q] = g[q]
  PROVE  MergeStep(f, p[1], p[2]) = MergeStep(g, p[1], p[2])
<1> PICK a \in Seq(Node), b \in Seq(Node) : p = <<a, b>>
  BY PairFacts
<1>1. p[1] = a /\ p[2] = b /\ Both(p) = Len(a) + Len(b) /\ Len(a) \in Nat /\ Len(b) \in Nat
  BY PairOf, EmptyFacts
<1>2. ASSUME a # << >>
      PROVE  f[<<Tail(a), b>>] = g[<<Tail(a), b>>]
  <2>1. PICK t : t = Tail(a)
    OBVIOUS
  <2>2. t \in Seq(Node) /\ Len(t) = Len(a) - 1
    BY <1>2, <2>1, HeadTailFacts, Zenon
  <2>3. <<t, b>> \in Pairs /\ Both(<<t, b>>) = Len(t) + Len(b)
    BY <2>2, PairOf, Zenon
  <2>4. Both(<<t, b>>) < Both(p)
    BY <1>1, <2>2, <2>3
  <2> QED BY <2>1, <2>3, <2>4, Zenon
<1>3. ASSUME b # << >>
      PROVE  f[<<a, Tail(b)>>] = g[<<a, Tail(b)>>]
  <2>1. PICK t : t = Tail(b)
    OBVIOUS
  <2>2. t \in Seq(Node) /\ Len(t) = Len(b) - 1
    BY <1>3, <2>1, HeadTailFacts, Zenon
  <2>3. <<a, t>> \in Pairs /\ Both(<<a, t>>) = Len(a) + Len(t)
    BY <2>2, PairOf, Zenon
  <2>4. Both(<<a, t>>) < Both(p)
    BY <1>1, <2>2, <2>3
  <2> QED BY <2>1, <2>3, <2>4, Zenon
<1>4. CASE a = << >> \/ b = << >>
  BY <1>1, <1>4 DEF MergeStep
<1>5. CASE a # << >> /\ b # << >>
  BY <1>1, <1>2, <1>3, <1>5, Zenon DEF MergeStep
<1> QED BY <1>4, <1>5

LEMMA MergeUnique ==
  ASSUME NEW m, NEW n, NEW f, NEW g,
         IsMerge(f, PairsUpTo(m)), IsMerge(g, PairsUpTo(n)), m \in Int, n \in Int,
         NEW p \in PairsUpTo(m), p \in PairsUpTo(n)
  PROVE  f[p] = g[p]
<1> DEFINE T == {k \in Nat : \E q \in Pairs :
                   Both(q) = k /\ k <= m /\ k <= n /\ f[q] # g[q]}
<1>1. T = {}
  <2> SUFFICES ASSUME T # {}  PROVE FALSE
    OBVIOUS
  <2>1. PICK k \in T : \A y \in T : k <= y
    <3>1. T \in SUBSET Nat
      OBVIOUS
    <3> HIDE DEF T
    <3> QED BY <3>1, LeastNatural
  <2>2. PICK q \in Pairs : Both(q) = k /\ k <= m /\ k <= n /\ f[q] # g[q]
    BY <2>1
  <2>3. q \in PairsUpTo(m) /\ q \in PairsUpTo(n)
    BY <2>2 DEF PairsUpTo
  <2>4. f[q] = MergeStep(f, q[1], q[2]) /\ g[q] = MergeStep(g, q[1], q[2])
    BY <2>3 DEF IsMerge
  <2>5. \A r \in Pairs : Both(r) < Both(q) => f[r] = g[r]
    <3> SUFFICES ASSUME NEW r \in Pairs, Both(r) < Both(q), f[r] # g[r]  PROVE FALSE
      OBVIOUS
    <3>1. Both(r) \in Nat /\ Both(r) < k
      BY <2>2, PairFacts
    <3>2. Both(r) \in T
      BY <2>1, <2>2, <3>1
    <3> QED BY <2>1, <3>1, <3>2
  <2>6. MergeStep(f, q[1], q[2]) = MergeStep(g, q[1], q[2])
    BY <2>5, MergeStepAlike
  <2> QED BY <2>2, <2>4, <2>6
<1>2. p \in Pairs /\ Both(p) \in Nat /\ Both(p) <= m /\ Both(p) <= n
  BY PairFacts DEF PairsUpTo
<1> QED BY <1>1, <1>2

LEMMA MergeUpTo ==
  \A n \in Nat : \E f : IsMerge(f, PairsUpTo(n))
<1> DEFINE T == {k \in Nat : \A f : ~IsMerge(f, PairsUpTo(k))}
<1> SUFFICES ASSUME T # {}  PROVE FALSE
  OBVIOUS
<1>1. PICK k \in T : \A y \in T : k <= y
  <2>1. T \in SUBSET Nat
    OBVIOUS
  <2> HIDE DEF T
  <2> QED BY <2>1, LeastNatural
<1>2. \E g : IsMerge(g, PairsUpTo(k - 1))
  <2>1. CASE k = 0
    <3>1. PairsUpTo(k - 1) = {}
      BY <2>1, PairFacts DEF PairsUpTo
    <3>2. IsMerge([p \in {} |-> p], {})
      BY DEF IsMerge
    <3> QED BY <3>1, <3>2
  <2>2. CASE k # 0
    <3>1. k - 1 \in Nat /\ k - 1 \notin T
      BY <1>1, <2>2
    <3> QED BY <3>1
  <2> QED BY <2>1, <2>2
<1>3. PICK g : IsMerge(g, PairsUpTo(k - 1))
  BY <1>2
<1> DEFINE f == [p \in PairsUpTo(k) |-> MergeStep(g, p[1], p[2])]
<1>4. \A p \in PairsUpTo(k) : f[p] = MergeStep(f, p[1], p[2])
  <2> SUFFICES ASSUME NEW p \in PairsUpTo(k)
               PROVE  MergeStep(g, p[1], p[2]) = MergeStep(f, p[1], p[2])
    OBVIOUS
  <2>1. p \in Pairs /\ Both(p) <= k /\ Both(p) \in Nat /\ k \in Nat
    BY PairFacts DEF PairsUpTo
  <2>2. ASSUME NEW q \in Pairs, Both(q) < Both(p)
        PROVE  g[q] = f[q]
    <3>1. q \in PairsUpTo(k - 1) /\ q \in PairsUpTo(k)
      BY <2>1, <2>2, PairFacts DEF PairsUpTo
    <3>2. g[q] = MergeStep(g, q[1], q[2])
      BY <1>3, <3>1 DEF IsMerge
    <3> QED BY <3>1, <3>2
  <2> HIDE DEF f
  <2> QED BY <2>1, <2>2, MergeStepAlike
<1>5. f = [p \in PairsUpTo(k) |-> f[p]]
  OBVIOUS
<1>6. IsMerge(f, PairsUpTo(k))
  <2> HIDE DEF f
  <2> QED BY <1>4, <1>5 DEF IsMerge
<1> QED BY <1>1, <1>6

LEMMA MergeDefined ==
  \A p \in Pairs : Merge[p] = MergeStep(Merge, p[1], p[2])
<1> DEFINE At(n) == CHOOSE g : IsMerge(g, PairsUpTo(n))
<1>1. \A n \in Nat : IsMerge(At(n), PairsUpTo(n))
  BY MergeUpTo
<1> HIDE DEF At
<1> DEFINE f == [p \in Pairs |-> At(Both(p))[p]]
<1>2. ASSUME NEW p \in Pairs
      PROVE  f[p] = MergeStep(f, p[1], p[2])
  <2>1. Both(p) \in Nat /\ p \in PairsUpTo(Both(p))
    BY PairFacts DEF PairsUpTo
  <2>2. IsMerge(At(Both(p)), PairsUpTo(Both(p)))
    BY <1>1, <2>1
  <2>3. f[p] = MergeStep(At(Both(p)), p[1], p[2])
    BY <2>1, <2>2 DEF IsMerge
  <2>4. ASSUME NEW q \in Pairs, Both(q) < Both(p)
        PROVE  At(Both(p))[q] = f[q]
    <3>1. Both(q) \in Nat /\ q \in PairsUpTo(Both(q)) /\ q \in PairsUpTo(Both(p))
      BY <2>1, <2>4, PairFacts DEF PairsUpTo
    <3>2. IsMerge(At(Both(q)), PairsUpTo(Both(q)))
      BY <1>1, <3>1
    <3>3. At(Both(p))[q] = At(Both(q))[q]
      BY <2>1, <2>2, <3>1, <3>2, MergeUnique
    <3> QED BY <3>3
  <2> HIDE DEF f
  <2>5. MergeStep(At(Both(p)), p[1], p[2]) = MergeStep(f, p[1], p[2])
    BY <2>4, MergeStepAlike
  <2> QED BY <2>3, <2>5
<1>3. f = [p \in Pairs |-> f[p]]
  OBVIOUS
<1> HIDE DEF f
<1>4. IsMerge(f, Pairs)
  BY <1>2, <1>3 DEF IsMerge
<1> DEFINE merge == CHOOSE g : IsMerge(g, Pairs)
<1>5. IsMerge(merge, Pairs)
  BY <1>4, Zenon
<1>6. Merge = merge
  BY DEF Merge, IsMerge, MergeStep, Key, Pairs
<1> HIDE DEF merge
<1> QED BY <1>5, <1>6 DEF IsMerge

\* The same of a sequence that begins with a node.
LEMMA ConsOf ==
  ASSUME NEW h \in Node, NEW t \in Seq(Node), NEW s, s = <<h>> \o t
  PROVE  /\ Len(s) = Len(t) + 1 /\ Nodes(s) = {h} \cup Nodes(t)
         /\ Distinct(s) <=> h \notin Nodes(t) /\ Distinct(t)
         /\ InOrder(s) <=> InOrder(t) /\ \A n \in Nodes(t) : Key(h) <= Key(n)
BY ConsFacts

Keyed(S) == \A n \in S : Key(n) \in Int

\* c has the nodes of a and b, once each, and in order if a and b are.
IsMerged(c, a, b) ==
  /\ c \in Seq(Node) /\ Len(c) = Len(a) + Len(b)
  /\ Nodes(c) = Nodes(a) \cup Nodes(b)
  /\ Distinct(a) /\ Distinct(b) /\ Nodes(a) \cap Nodes(b) = {} => Distinct(c)
  /\ Keyed(Nodes(c)) /\ InOrder(a) /\ InOrder(b) => InOrder(c)

LEMMA MergedEither ==
  ASSUME NEW a \in Seq(Node), NEW b \in Seq(Node), NEW c, IsMerged(c, a, b)
  PROVE  IsMerged(c, b, a)
<1>1. Len(a) + Len(b) = Len(b) + Len(a)
  BY EmptyFacts
<1>2. Nodes(a) \cup Nodes(b) = Nodes(b) \cup Nodes(a)
      /\ Nodes(a) \cap Nodes(b) = Nodes(b) \cap Nodes(a)
  OBVIOUS
<1> QED BY <1>1, <1>2 DEF IsMerged

\* Either list comes first.
LEMMA MergedFront ==
  ASSUME NEW a \in Seq(Node), NEW b \in Seq(Node), NEW h \in Node, NEW t \in Seq(Node),
         NEW c \in Seq(Node), a = <<h>> \o t, IsMerged(c, t, b),
         \A n \in Nodes(b) : Keyed(Nodes(a) \cup Nodes(b)) /\ InOrder(b) => Key(h) <= Key(n)
  PROVE  IsMerged(<<h>> \o c, a, b) /\ IsMerged(<<h>> \o c, b, a)
<1>1. /\ Len(a) = Len(t) + 1 /\ Nodes(a) = {h} \cup Nodes(t)
      /\ Distinct(a) <=> h \notin Nodes(t) /\ Distinct(t)
      /\ InOrder(a) <=> InOrder(t) /\ \A n \in Nodes(t) : Key(h) <= Key(n)
  BY ConsFacts
<1> PICK d : d = <<h>> \o c
  OBVIOUS
<1>2. /\ d \in Seq(Node) /\ Len(d) = Len(c) + 1 /\ Nodes(d) = {h} \cup Nodes(c)
      /\ Distinct(d) <=> h \notin Nodes(c) /\ Distinct(c)
      /\ InOrder(d) <=> InOrder(c) /\ \A n \in Nodes(c) : Key(h) <= Key(n)
  BY ConsFacts, Zenon
<1>3. Len(a) \in Nat /\ Len(b) \in Nat /\ Len(t) \in Nat
  BY EmptyFacts
<1>4. Nodes(d) = Nodes(a) \cup Nodes(b) /\ Len(d) = Len(a) + Len(b)
  BY <1>1, <1>2, <1>3 DEF IsMerged
<1>5. Distinct(a) /\ Distinct(b) /\ Nodes(a) \cap Nodes(b) = {} => Distinct(d)
  BY <1>1, <1>2 DEF IsMerged
<1>6. Keyed(Nodes(d)) /\ InOrder(a) /\ InOrder(b) => InOrder(d)
  <2> SUFFICES ASSUME Keyed(Nodes(d)), InOrder(a), InOrder(b)
               PROVE  InOrder(d)
    OBVIOUS
  <2>1. Keyed(Nodes(c))
    BY <1>2 DEF Keyed
  <2>2. InOrder(c) /\ Nodes(c) = Nodes(t) \cup Nodes(b)
    BY <1>1, <2>1 DEF IsMerged
  <2>3. \A n \in Nodes(c) : Key(h) <= Key(n)
    BY <1>1, <1>4, <2>2
  <2> QED BY <1>2, <2>2, <2>3
<1>7. IsMerged(d, a, b)
  BY <1>2, <1>4, <1>5, <1>6 DEF IsMerged
<1> QED BY <1>7, MergedEither

LEMMA MergeCorrect ==
  ASSUME NEW a \in Seq(Node), NEW b \in Seq(Node)
  PROVE  IsMerged(Merge[<<a, b>>], a, b)
<1> DEFINE T == {k \in Nat : \E p \in Pairs :
                   Both(p) = k /\ ~IsMerged(Merge[p], p[1], p[2])}
<1>1. T = {}
  <2> SUFFICES ASSUME T # {}  PROVE FALSE
    OBVIOUS
  <2>1. PICK k \in T : \A y \in T : k <= y
    <3>1. T \in SUBSET Nat
      OBVIOUS
    <3> HIDE DEF T
    <3> QED BY <3>1, LeastNatural
  <2>2. PICK p \in Pairs : Both(p) = k /\ ~IsMerged(Merge[p], p[1], p[2])
    BY <2>1
  <2> PICK x \in Seq(Node), y \in Seq(Node) : p = <<x, y>>
    BY PairFacts
  <2>3. p[1] = x /\ p[2] = y /\ k = Len(x) + Len(y) /\ Len(x) \in Nat /\ Len(y) \in Nat
    BY <2>2, PairOf, EmptyFacts
  <2>4. ASSUME NEW u \in Seq(Node), NEW v \in Seq(Node), Len(u) + Len(v) < k
        PROVE  IsMerged(Merge[<<u, v>>], u, v)
    <3> PICK q : q = <<u, v>>
      OBVIOUS
    <3>1. q \in Pairs /\ Both(q) = Len(u) + Len(v) /\ q[1] = u /\ q[2] = v
      BY PairOf, Zenon
    <3>2. Both(q) \in Nat /\ Both(q) < k /\ k \in Nat
      BY <2>1, <2>4, <3>1, PairFacts
    <3>3. Both(q) \notin T
      <4> HIDE DEF T
      <4> QED BY <2>1, <3>2
    <3> QED BY <3>1, <3>2, <3>3
  <2> HIDE DEF T
  <2>5. Merge[p] = MergeStep(Merge, x, y)
    BY <2>3, MergeDefined
  <2>6. CASE x = << >> \/ y = << >>
    <3>1. Merge[p] = x \o y
      BY <2>5, <2>6 DEF MergeStep
    <3>2. CASE x = << >>
      <4>1. x \o y = y /\ Len(x) = 0 /\ Nodes(x) = {}
        BY <3>2, EmptyFacts
      <4> QED BY <2>2, <2>3, <3>1, <4>1 DEF IsMerged
    <3>3. CASE y = << >>
      <4>1. x \o y = x /\ Len(y) = 0 /\ Nodes(y) = {}
        BY <3>3, EmptyFacts
      <4> QED BY <2>2, <2>3, <3>1, <4>1 DEF IsMerged
    <3> QED BY <2>6, <3>2, <3>3
  <2>7. CASE x # << >> /\ y # << >>
    <3> PICK h, t : h = Head(x) /\ t = Tail(x)
      OBVIOUS
    <3>1. h \in Node /\ t \in Seq(Node) /\ Len(t) = Len(x) - 1 /\ x = <<h>> \o t
      BY <2>7, HeadTailFacts, Zenon
    <3> PICK g, s : g = Head(y) /\ s = Tail(y)
      OBVIOUS
    <3>2. g \in Node /\ s \in Seq(Node) /\ Len(s) = Len(y) - 1 /\ y = <<g>> \o s
      BY <2>7, HeadTailFacts, Zenon
    <3>3. Len(t) + Len(y) < k /\ Len(x) + Len(s) < k
      BY <2>3, <3>1, <3>2
    <3>4. /\ h \in Nodes(x) /\ g \in Nodes(y)
          /\ InOrder(x) => \A n \in Nodes(x) : n = h \/ Key(h) <= Key(n)
          /\ InOrder(y) => \A n \in Nodes(y) : n = g \/ Key(g) <= Key(n)
      <4>1. Nodes(x) = {h} \cup Nodes(t) /\ (InOrder(x) => \A n \in Nodes(t) : Key(h) <= Key(n))
        BY <3>1, ConsOf
      <4>2. Nodes(y) = {g} \cup Nodes(s) /\ (InOrder(y) => \A n \in Nodes(s) : Key(g) <= Key(n))
        BY <3>2, ConsOf
      <4> QED BY <4>1, <4>2
    <3>5. CASE Key(h) < Key(g)
      <4>1. Merge[p] = <<h>> \o Merge[<<t, y>>]
        BY <2>5, <2>7, <3>5, Zenon DEF MergeStep
      <4>2. IsMerged(Merge[<<t, y>>], t, y)
        BY <2>4, <3>1, <3>3
      <4>3. ASSUME NEW n \in Nodes(y), Keyed(Nodes(x) \cup Nodes(y)), InOrder(y)
            PROVE  Key(h) <= Key(n)
        <5>1. Key(h) \in Int /\ Key(g) \in Int /\ Key(n) \in Int
          BY <3>4, <4>3 DEF Keyed
        <5>2. n = g \/ Key(g) <= Key(n)
          BY <3>4, <4>3
        <5>3. CASE n = g
          BY <3>5, <5>1, <5>3
        <5>4. CASE Key(g) <= Key(n)
          BY <3>5, <5>1, <5>4
        <5> QED BY <5>2, <5>3, <5>4
      <4>4. Merge[<<t, y>>] \in Seq(Node)
        BY <4>2 DEF IsMerged
      <4>5. IsMerged(<<h>> \o Merge[<<t, y>>], x, y)
        BY <3>1, <4>2, <4>3, <4>4, MergedFront
      <4> QED BY <2>2, <2>3, <4>1, <4>5
    <3>6. CASE ~(Key(h) < Key(g))
      <4>1. Merge[p] = <<g>> \o Merge[<<x, s>>]
        BY <2>5, <2>7, <3>6, Zenon DEF MergeStep
      <4>2. IsMerged(Merge[<<x, s>>], x, s)
        BY <2>4, <3>2, <3>3
      <4>3. ASSUME NEW n \in Nodes(x), Keyed(Nodes(y) \cup Nodes(x)), InOrder(x)
            PROVE  Key(g) <= Key(n)
        <5>1. Key(h) \in Int /\ Key(g) \in Int /\ Key(n) \in Int
          BY <3>4, <4>3 DEF Keyed
        <5>2. n = h \/ Key(h) <= Key(n)
          BY <3>4, <4>3
        <5>3. CASE n = h
          BY <3>6, <5>1, <5>3
        <5>4. CASE Key(h) <= Key(n)
          BY <3>6, <5>1, <5>4
        <5> QED BY <5>2, <5>3, <5>4
      <4>4. Merge[<<x, s>>] \in Seq(Node)
        BY <4>2 DEF IsMerged
      <4>5. IsMerged(Merge[<<x, s>>], s, x)
        BY <3>2, <4>2, MergedEither
      <4>6. IsMerged(<<g>> \o Merge[<<x, s>>], x, y)
        BY <3>2, <4>3, <4>4, <4>5, MergedFront
      <4> QED BY <2>2, <2>3, <4>1, <4>6
    <3> QED BY <3>5, <3>6
  <2> QED BY <2>6, <2>7
<1> PICK p : p = <<a, b>>
  OBVIOUS
<1>2. p \in Pairs /\ p[1] = a /\ p[2] = b /\ Both(p) \in Nat
  BY PairOf, PairFacts
<1>3. IsMerged(Merge[p], p[1], p[2])
  BY <1>1, <1>2
<1> QED BY <1>2, <1>3

---------------------------------------------------------------------------
(* cll_mergesort *)

Half(s) == Len(s) \div 2
First(s) == SubSeq(s, 1, Half(s))
Second(s) == SubSeq(s, Half(s) + 1, Len(s))

\* One step of MergeSort, the rest of it done by another function.
SortStep(f, s) ==
  IF Len(s) <= 1 THEN s ELSE Merge[<<f[First(s)], f[Second(s)]>>]

\* f sorts the sequences of a set.
IsSorter(f, P) == f = [s \in P |-> SortStep(f, s)]

SeqsUpTo(n) == {s \in Seq(Node) : Len(s) <= n}

LEMMA Halves ==
  ASSUME NEW s \in Seq(Node), ~(Len(s) <= 1)
  PROVE  /\ First(s) \in Seq(Node) /\ Len(First(s)) < Len(s)
         /\ Second(s) \in Seq(Node) /\ Len(Second(s)) < Len(s)
         /\ Len(First(s)) + Len(Second(s)) = Len(s)
         /\ Nodes(s) = Nodes(First(s)) \cup Nodes(Second(s))
         /\ Distinct(s) => /\ Distinct(First(s)) /\ Distinct(Second(s))
                           /\ Nodes(First(s)) \cap Nodes(Second(s)) = {}
<1> PICK k, l : l = Len(s) /\ k = Half(s)
  OBVIOUS
<1>1. l \in Nat /\ k \in Nat /\ 0 < k /\ k < l /\ \A i \in 1..l : s[i] \in Node
  BY EmptyFacts, ElementOfSeq DEF Half
<1> PICK a, b : a = First(s) /\ b = Second(s)
  OBVIOUS
<1>2. /\ a \in Seq(Node) /\ Len(a) = k
      /\ \A i \in 1..k : a[i] = s[i] /\ i \in 1..l
  <2>1. a = SubSeq(s, 1, k)
    BY DEF First
  <2> QED BY <1>1, <2>1
<1>3. /\ b \in Seq(Node) /\ Len(b) = l - k
      /\ \A i \in 1..l - k : b[i] = s[i + k] /\ i + k \in 1..l
  <2>1. b = SubSeq(s, k + 1, l)
    BY DEF Second
  <2>2. b \in Seq(Node) /\ Len(b) = l - k
    BY <1>1, <2>1
  <2>3. ASSUME NEW i \in 1..l - k
        PROVE  b[i] = s[i + k] /\ i + k \in 1..l
    <3>1. i + k \in 1..l /\ (k + 1) + i - 1 = i + k
      BY <1>1
    <3> QED BY <1>1, <2>1, <3>1
  <2> QED BY <2>2, <2>3
<1>4. \A i \in 1..l : ~(i \in 1..k) => i - k \in 1..l - k /\ (i - k) + k = i
  BY <1>1
<1>5. Nodes(s) = Nodes(a) \cup Nodes(b)
  <2>1. Nodes(a) \cup Nodes(b) \subseteq Nodes(s)
    BY <1>2, <1>3 DEF Nodes
  <2>2. ASSUME NEW i \in 1..l
        PROVE  s[i] \in Nodes(a) \cup Nodes(b)
    <3>1. CASE i \in 1..k
      BY <1>2, <3>1 DEF Nodes
    <3>2. CASE ~(i \in 1..k)
      <4>1. i - k \in 1..Len(b) /\ b[i - k] = s[i]
        BY <1>3, <1>4, <3>2
      <4> QED BY <4>1 DEF Nodes
    <3> QED BY <3>1, <3>2
  <2> QED BY <2>1, <2>2 DEF Nodes
<1>6. ASSUME Distinct(s)
      PROVE  Distinct(a) /\ Distinct(b) /\ Nodes(a) \cap Nodes(b) = {}
  <2>1. Distinct(a)
    BY <1>2, <1>6 DEF Distinct
  <2>2. ASSUME NEW i \in 1..Len(b), NEW j \in 1..Len(b), b[i] = b[j]
        PROVE  i = j
    <3>1. i + k = j + k /\ i \in Int /\ j \in Int
      BY <1>3, <1>6, <2>2 DEF Distinct
    <3> QED BY <1>1, <3>1
  <2>3. ASSUME NEW i \in 1..Len(a), NEW j \in 1..Len(b), a[i] = b[j]
        PROVE  FALSE
    <3>1. i = j + k
      BY <1>2, <1>3, <1>6, <2>3 DEF Distinct
    <3> QED BY <1>1, <1>2, <1>3, <3>1
  <2>4. Nodes(a) \cap Nodes(b) = {}
    BY <2>3 DEF Nodes
  <2> QED BY <2>1, <2>2, <2>4 DEF Distinct
<1> QED BY <1>1, <1>2, <1>3, <1>5, <1>6

\* A step asks only for shorter sequences.
LEMMA SortStepAlike ==
  ASSUME NEW s \in Seq(Node), NEW f, NEW g,
         \A t \in Seq(Node) : Len(t) < Len(s) => f[t] = g[t]
  PROVE  SortStep(f, s) = SortStep(g, s)
<1>1. CASE Len(s) <= 1
  BY <1>1 DEF SortStep
<1>2. CASE ~(Len(s) <= 1)
  <2>1. f[First(s)] = g[First(s)] /\ f[Second(s)] = g[Second(s)]
    BY <1>2, Halves
  <2> QED BY <2>1, Zenon DEF SortStep
<1> QED BY <1>1, <1>2

LEMMA SorterUnique ==
  ASSUME NEW m \in Int, NEW n \in Int, NEW f, NEW g,
         IsSorter(f, SeqsUpTo(m)), IsSorter(g, SeqsUpTo(n)),
         NEW s \in SeqsUpTo(m), s \in SeqsUpTo(n)
  PROVE  f[s] = g[s]
<1> DEFINE T == {k \in Nat : \E t \in Seq(Node) :
                   Len(t) = k /\ k <= m /\ k <= n /\ f[t] # g[t]}
<1>1. T = {}
  <2> SUFFICES ASSUME T # {}  PROVE FALSE
    OBVIOUS
  <2>1. PICK k \in T : \A y \in T : k <= y
    <3>1. T \in SUBSET Nat
      OBVIOUS
    <3> HIDE DEF T
    <3> QED BY <3>1, LeastNatural
  <2>2. PICK t \in Seq(Node) : Len(t) = k /\ k <= m /\ k <= n /\ f[t] # g[t]
    BY <2>1
  <2>3. t \in SeqsUpTo(m) /\ t \in SeqsUpTo(n)
    BY <2>2 DEF SeqsUpTo
  <2>4. f[t] = SortStep(f, t) /\ g[t] = SortStep(g, t)
    BY <2>3 DEF IsSorter
  <2>5. \A r \in Seq(Node) : Len(r) < Len(t) => f[r] = g[r]
    <3> SUFFICES ASSUME NEW r \in Seq(Node), Len(r) < Len(t), f[r] # g[r]  PROVE FALSE
      OBVIOUS
    <3>1. Len(r) \in Nat /\ Len(r) < k
      BY <2>2, EmptyFacts
    <3>2. Len(r) \in T
      BY <2>1, <2>2, <3>1
    <3> QED BY <2>1, <3>1, <3>2
  <2>6. SortStep(f, t) = SortStep(g, t)
    BY <2>5, SortStepAlike
  <2> QED BY <2>2, <2>4, <2>6
<1>2. s \in Seq(Node) /\ Len(s) \in Nat /\ Len(s) <= m /\ Len(s) <= n
  BY EmptyFacts DEF SeqsUpTo
<1> QED BY <1>1, <1>2

LEMMA SorterUpTo ==
  \A n \in Nat : \E f : IsSorter(f, SeqsUpTo(n))
<1> DEFINE T == {k \in Nat : \A f : ~IsSorter(f, SeqsUpTo(k))}
<1> SUFFICES ASSUME T # {}  PROVE FALSE
  OBVIOUS
<1>1. PICK k \in T : \A y \in T : k <= y
  <2>1. T \in SUBSET Nat
    OBVIOUS
  <2> HIDE DEF T
  <2> QED BY <2>1, LeastNatural
<1>2. \E g : IsSorter(g, SeqsUpTo(k - 1))
  <2>1. CASE k = 0
    <3>1. SeqsUpTo(k - 1) = {}
      BY <2>1, EmptyFacts DEF SeqsUpTo
    <3>2. IsSorter([s \in {} |-> s], {})
      BY DEF IsSorter
    <3> QED BY <3>1, <3>2
  <2>2. CASE k # 0
    <3>1. k - 1 \in Nat /\ k - 1 \notin T
      BY <1>1, <2>2
    <3> QED BY <3>1
  <2> QED BY <2>1, <2>2
<1>3. PICK g : IsSorter(g, SeqsUpTo(k - 1))
  BY <1>2
<1> DEFINE f == [s \in SeqsUpTo(k) |-> SortStep(g, s)]
<1>4. \A s \in SeqsUpTo(k) : f[s] = SortStep(f, s)
  <2> SUFFICES ASSUME NEW s \in SeqsUpTo(k)
               PROVE  SortStep(g, s) = SortStep(f, s)
    OBVIOUS
  <2>1. s \in Seq(Node) /\ Len(s) <= k /\ Len(s) \in Nat /\ k \in Nat
    BY EmptyFacts DEF SeqsUpTo
  <2>2. ASSUME NEW t \in Seq(Node), Len(t) < Len(s)
        PROVE  g[t] = f[t]
    <3>1. t \in SeqsUpTo(k - 1) /\ t \in SeqsUpTo(k)
      BY <2>1, <2>2, EmptyFacts DEF SeqsUpTo
    <3>2. g[t] = SortStep(g, t)
      BY <1>3, <3>1 DEF IsSorter
    <3> QED BY <3>1, <3>2
  <2> HIDE DEF f
  <2> QED BY <2>1, <2>2, SortStepAlike
<1>5. f = [s \in SeqsUpTo(k) |-> f[s]]
  OBVIOUS
<1>6. IsSorter(f, SeqsUpTo(k))
  <2> HIDE DEF f
  <2> QED BY <1>4, <1>5 DEF IsSorter
<1> QED BY <1>1, <1>6

LEMMA MergeSortDefined ==
  \A s \in Seq(Node) : MergeSort[s] = SortStep(MergeSort, s)
<1> DEFINE At(n) == CHOOSE g : IsSorter(g, SeqsUpTo(n))
<1>1. \A n \in Nat : IsSorter(At(n), SeqsUpTo(n))
  BY SorterUpTo
<1> HIDE DEF At
<1> DEFINE f == [s \in Seq(Node) |-> At(Len(s))[s]]
<1>2. ASSUME NEW s \in Seq(Node)
      PROVE  f[s] = SortStep(f, s)
  <2>1. Len(s) \in Nat /\ s \in SeqsUpTo(Len(s))
    BY EmptyFacts DEF SeqsUpTo
  <2>2. IsSorter(At(Len(s)), SeqsUpTo(Len(s)))
    BY <1>1, <2>1
  <2>3. f[s] = SortStep(At(Len(s)), s)
    BY <2>1, <2>2 DEF IsSorter
  <2>4. ASSUME NEW t \in Seq(Node), Len(t) < Len(s)
        PROVE  At(Len(s))[t] = f[t]
    <3>1. Len(t) \in Nat /\ t \in SeqsUpTo(Len(t)) /\ t \in SeqsUpTo(Len(s))
      BY <2>1, <2>4, EmptyFacts DEF SeqsUpTo
    <3>2. IsSorter(At(Len(t)), SeqsUpTo(Len(t)))
      BY <1>1, <3>1
    <3>3. At(Len(s))[t] = At(Len(t))[t]
      BY <2>1, <2>2, <3>1, <3>2, SorterUnique
    <3> QED BY <3>3
  <2> HIDE DEF f
  <2>5. SortStep(At(Len(s)), s) = SortStep(f, s)
    BY <2>4, SortStepAlike
  <2> QED BY <2>3, <2>5
<1>3. f = [s \in Seq(Node) |-> f[s]]
  OBVIOUS
<1> HIDE DEF f
<1>4. IsSorter(f, Seq(Node))
  BY <1>2, <1>3 DEF IsSorter
<1> DEFINE sort == CHOOSE g : IsSorter(g, Seq(Node))
<1>5. IsSorter(sort, Seq(Node))
  BY <1>4, Zenon
<1>6. MergeSort = sort
  BY DEF MergeSort, IsSorter, SortStep, First, Second, Half
<1> HIDE DEF sort
<1> QED BY <1>5, <1>6 DEF IsSorter

\* c has the nodes of s, once each, in order.
IsArranged(c, s) ==
  /\ c \in Seq(Node) /\ Len(c) = Len(s) /\ Nodes(c) = Nodes(s)
  /\ Distinct(s) => Distinct(c)
  /\ Keyed(Nodes(s)) => InOrder(c)

LEMMA MergeSortCorrect ==
  ASSUME NEW s \in Seq(Node)
  PROVE  IsArranged(MergeSort[s], s)
<1> DEFINE T == {k \in Nat : \E t \in Seq(Node) :
                   Len(t) = k /\ ~IsArranged(MergeSort[t], t)}
<1>1. T = {}
  <2> SUFFICES ASSUME T # {}  PROVE FALSE
    OBVIOUS
  <2>1. PICK k \in T : \A y \in T : k <= y
    <3>1. T \in SUBSET Nat
      OBVIOUS
    <3> HIDE DEF T
    <3> QED BY <3>1, LeastNatural
  <2>2. PICK t \in Seq(Node) : Len(t) = k /\ ~IsArranged(MergeSort[t], t)
    BY <2>1
  <2>3. ASSUME NEW u \in Seq(Node), Len(u) < k
        PROVE  IsArranged(MergeSort[u], u)
    <3>1. Len(u) \in Nat /\ Len(u) < k /\ k \in Nat
      BY <2>1, <2>3, EmptyFacts
    <3>2. Len(u) \notin T
      <4> HIDE DEF T
      <4> QED BY <2>1, <3>1
    <3> QED BY <3>1, <3>2
  <2> HIDE DEF T
  <2>4. MergeSort[t] = SortStep(MergeSort, t)
    BY MergeSortDefined
  <2>5. CASE Len(t) <= 1
    <3>1. MergeSort[t] = t
      BY <2>4, <2>5 DEF SortStep
    <3>2. InOrder(t)
      <4>1. Len(t) \in Nat
        BY EmptyFacts
      <4> QED BY <2>5, <4>1 DEF InOrder
    <3> QED BY <2>2, <3>1, <3>2 DEF IsArranged
  <2>6. CASE ~(Len(t) <= 1)
    <3> PICK a, b : a = First(t) /\ b = Second(t)
      OBVIOUS
    <3>1. /\ a \in Seq(Node) /\ Len(a) < k /\ b \in Seq(Node) /\ Len(b) < k
          /\ Len(a) + Len(b) = Len(t) /\ Nodes(t) = Nodes(a) \cup Nodes(b)
          /\ Distinct(t) => Distinct(a) /\ Distinct(b) /\ Nodes(a) \cap Nodes(b) = {}
      BY <2>2, <2>6, Halves
    <3> PICK c, d : c = MergeSort[a] /\ d = MergeSort[b]
      OBVIOUS
    <3>2. IsArranged(c, a) /\ IsArranged(d, b)
      BY <2>3, <3>1
    <3>3. MergeSort[t] = Merge[<<c, d>>]
      BY <2>4, <2>6, Zenon DEF SortStep
    <3>4. IsMerged(Merge[<<c, d>>], c, d)
      BY <3>2, MergeCorrect DEF IsArranged
    <3>5. Keyed(Nodes(t)) => Keyed(Nodes(a)) /\ Keyed(Nodes(b))
      BY <3>1 DEF Keyed
    <3>6. IsArranged(Merge[<<c, d>>], t)
      BY <3>1, <3>2, <3>4, <3>5 DEF IsArranged, IsMerged
    <3> QED BY <2>2, <3>3, <3>6
  <2> QED BY <2>5, <2>6
<1>2. Len(s) \in Nat
  BY EmptyFacts
<1> QED BY <1>1, <1>2

---------------------------------------------------------------------------
(* The inductive invariant *)

\* The place in a ring after another one.
After(i) == IF i = size THEN 1 ELSE i + 1

\* The allocated nodes, each once, linked in a circle from p_head on.
IsRing(ring) ==
  /\ ring \in [1..size -> Node]
  /\ \A i, j \in 1..size : ring[i] = ring[j] => i = j
  /\ \A i \in 1..size : node[ring[i]].p_data \in Data /\ node[ring[i]].p_next = ring[After(i)]
  /\ \A n \in Node : (\A i \in 1..size : ring[i] # n) => node[n] = Free
  /\ p_head = IF size = 0 THEN NULL ELSE ring[1]

\* Only a sort leaves p_tail at another node than the last.
EndsIn(ring) ==
  /\ size = 0 => p_tail = NULL
  /\ size # 0 => (\E i \in 1..size : p_tail = ring[i]) /\ (~moved => p_tail = ring[size])

NodeType == [p_data : Data \cup {NULL}, p_next : Node \cup {NULL}]

Types == size \in Nat /\ node \in [Node -> NodeType]

IInv == Types /\ \E ring : IsRing(ring) /\ EndsIn(ring)

---------------------------------------------------------------------------
(* The way round the ring *)

\* Two functions that agree where they begin, and wherever they agreed one place
\* before, are one.
Alike(f, g, k) ==
  \A i \in 1..k : (i = 1 \/ f[i - 1] = g[i - 1]) => f[i] = g[i]

LEMMA OneChain ==
  ASSUME NEW k \in Int, NEW f, NEW g, Alike(f, g, k)
  PROVE  \A i \in 1..k : f[i] = g[i]
<1> DEFINE T == {i \in Nat : i \in 1..k /\ f[i] # g[i]}
<1>1. T = {}
  <2> SUFFICES ASSUME T # {}  PROVE FALSE
    OBVIOUS
  <2>1. PICK i \in T : \A y \in T : i <= y
    <3>1. T \in SUBSET Nat
      OBVIOUS
    <3> HIDE DEF T
    <3> QED BY <3>1, LeastNatural
  <2>2. i \in 1..k /\ f[i] # g[i] /\ i \in Nat
    OBVIOUS
  <2>3. i # 1 => i - 1 \in 1..k /\ i - 1 \in Nat /\ i - 1 \notin T
    BY <2>1, <2>2
  <2>4. i # 1 => f[i - 1] = g[i - 1]
    BY <2>3
  <2> HIDE DEF T
  <2> QED BY <2>2, <2>4 DEF Alike
<1> SUFFICES ASSUME NEW i \in 1..k, f[i] # g[i]  PROVE FALSE
  OBVIOUS
<1>2. i \in T
  OBVIOUS
<1> QED BY <1>1, <1>2

\* Along p_next from p_head, k times.
IsForth(f, k) == f = [i \in 1..k |-> IF i = 1 THEN p_head ELSE node[f[i - 1]].p_next]

LEMMA WalkOf ==
  ASSUME Types, NEW ring, IsRing(ring), NEW k \in 0..size
  PROVE  Walk(k) = [i \in 1..k |-> ring[i]]
<1> DEFINE w == [i \in 1..k |-> ring[i]]
<1>1. \A i \in 1..k : w[i] = IF i = 1 THEN p_head ELSE node[w[i - 1]].p_next
  <2> TAKE i \in 1..k
  <2>1. CASE i = 1
    BY <2>1 DEF Types, IsRing
  <2>2. CASE i # 1
    <3>1. /\ i - 1 \in 1..k /\ i - 1 \in 1..size /\ After(i - 1) = i
          /\ w[i] = ring[i] /\ w[i - 1] = ring[i - 1]
      BY <2>2 DEF Types, After
    <3>2. node[ring[i - 1]].p_next = ring[After(i - 1)]
      BY <3>1 DEF IsRing
    <3> HIDE DEF w
    <3> QED BY <2>2, <3>1, <3>2
  <2> QED BY <2>1, <2>2
<1>2. w = [i \in 1..k |-> w[i]]
  OBVIOUS
<1> HIDE DEF w
<1>3. IsForth(w, k)
  BY <1>1, <1>2 DEF IsForth
<1>4. ASSUME NEW f, IsForth(f, k)
      PROVE  f = w
  <2>1. f = [i \in 1..k |-> f[i]]
    BY <1>4 DEF IsForth
  <2>2. \A i \in 1..k : f[i] = IF i = 1 THEN p_head ELSE node[f[i - 1]].p_next
    BY <1>4 DEF IsForth
  <2>3. Alike(f, w, k) /\ k \in Int
    BY <1>1, <2>2 DEF Alike, Types
  <2>4. \A i \in 1..k : f[i] = w[i]
    BY <2>3, OneChain
  <2> QED BY <1>2, <2>1, <2>4
<1> DEFINE at == CHOOSE f : IsForth(f, k)
<1>5. at = w
  <2>1. IsForth(at, k)
    BY <1>3, Zenon
  <2> HIDE DEF at
  <2> QED BY <1>4, <2>1
<1>6. Walk(k) = [i \in 1..k |-> at[i]]
  BY DEF Walk, IsForth
<1> HIDE DEF at
<1>7. Walk(k) = w
  BY <1>2, <1>5, <1>6
<1> QED BY <1>7 DEF w

LEMMA NodeAtOf ==
  ASSUME Types, NEW ring, IsRing(ring), NEW k \in 1..size
  PROVE  NodeAt(k - 1) = ring[k]
<1>1. Walk(k) = [i \in 1..k |-> ring[i]] /\ k \in 1..k /\ (k - 1) + 1 = k
  BY WalkOf DEF Types
<1>2. Walk((k - 1) + 1)[(k - 1) + 1] = ring[k]
  BY <1>1
<1> QED BY <1>2 DEF NodeAt

LEMMA ContentsOf ==
  ASSUME Types, NEW ring, IsRing(ring)
  PROVE  Contents = [i \in 1..size |-> node[ring[i]].p_data]
<1>1. Walk(size) = [i \in 1..size |-> ring[i]]
  BY WalkOf DEF Types
<1>2. Contents = [i \in 1..size |-> node[Walk(size)[i]].p_data]
  BY DEF Contents
<1> QED BY <1>1, <1>2

LEMMA ContentsNext ==
  ASSUME NEW CONSTANT ring
  PROVE  /\ Types /\ IsRing(ring) => Contents = [i \in 1..size |-> node[ring[i]].p_data]
         /\ (Types /\ IsRing(ring))'
              => (Contents = [i \in 1..size |-> node[ring[i]].p_data])'
<1>1. Types /\ IsRing(ring) => Contents = [i \in 1..size |-> node[ring[i]].p_data]
  BY ContentsOf
<1> QED BY <1>1, PTL

\* What the list holds, as a sequence.
LEMMA ContentsFacts ==
  ASSUME Types, NEW ring, IsRing(ring)
  PROVE  /\ Contents \in Seq(Data) /\ Len(Contents) = size /\ DOMAIN Contents = 1..size
         /\ \A i \in 1..size : Contents[i] = node[ring[i]].p_data
<1>1. Contents = [i \in 1..size |-> node[ring[i]].p_data]
  BY ContentsOf
<1>2. size \in Nat /\ \A i \in 1..size : node[ring[i]].p_data \in Data
  BY DEF Types, IsRing
<1> QED BY <1>1, <1>2

LEMMA ContentsFactsNext ==
  ASSUME NEW CONSTANT ring, (Types /\ IsRing(ring))'
  PROVE  /\ Contents' \in Seq(Data) /\ Len(Contents') = size' /\ DOMAIN Contents' = 1..size'
         /\ \A i \in 1..size' : Contents'[i] = node'[ring[i]].p_data
<1>1. Contents' = [i \in 1..size' |-> node'[ring[i]].p_data]
  BY ContentsNext
<1>2. size' \in Nat /\ \A i \in 1..size' : node'[ring[i]].p_data \in Data
  BY DEF Types, IsRing
<1> QED BY <1>1, <1>2

\* The nodes of the ring are those allocated, and there are size of them.
LEMMA AllocatedOf ==
  ASSUME Types, NEW ring, IsRing(ring)
  PROVE  /\ Allocated = {ring[i] : i \in 1..size}
         /\ IsFiniteSet(Allocated) /\ Cardinality(Allocated) = size
<1>1. \A i \in 1..size : ring[i] \in Node /\ node[ring[i]] # Free
  BY MemoryOK DEF IsRing, Free
<1>2. Allocated = {ring[i] : i \in 1..size}
  BY <1>1 DEF IsRing, Allocated
<1>3. IsFiniteSet(1..size) /\ Cardinality(1..size) = size
  BY FS_Interval DEF Types
<1>4. ring \in [1..size -> Allocated] /\ \A i, j \in 1..size : ring[i] = ring[j] => i = j
  BY <1>2 DEF IsRing
<1>5. ring \in Bijection(1..size, Allocated)
  BY <1>2, <1>4 DEF Bijection, Injection, Surjection, IsInjective
<1>6. ExistsBijection(1..size, Allocated)
  BY <1>5 DEF ExistsBijection
<1> QED BY <1>2, <1>3, <1>6, FS_Bijection

LEMMA SizeBound ==
  ASSUME Types, NEW ring, IsRing(ring)
  PROVE  size <= Cardinality(Node) /\ Cardinality(Node) \in Nat
<1>1. Allocated \in SUBSET Node
  BY DEF Allocated
<1> QED BY <1>1, AllocatedOf, MemoryOK, FS_Subset, FS_CardinalityType

---------------------------------------------------------------------------
(* Insertions *)

LEMMA Around ==
  ASSUME NEW a \in Seq(Data), NEW d \in Data, NEW b \in Seq(Data)
  PROVE  /\ a \o <<d>> \o b \in Seq(Data) /\ Len(a \o <<d>> \o b) = Len(a) + 1 + Len(b)
         /\ \A i \in 1..Len(a) + 1 + Len(b) :
              (a \o <<d>> \o b)[i] = IF i <= Len(a) THEN a[i]
                                    ELSE IF i = Len(a) + 1 THEN d ELSE b[i - (Len(a) + 1)]
<1> DEFINE v == a \o <<d>>
<1>1. /\ v \in Seq(Data) /\ Len(v) = Len(a) + 1 /\ Len(a) \in Nat /\ Len(b) \in Nat
      /\ \A i \in 1..Len(a) + 1 : v[i] = IF i <= Len(a) THEN a[i] ELSE d
  OBVIOUS
<1> HIDE DEF v
<1>2. /\ v \o b \in Seq(Data) /\ Len(v \o b) = Len(v) + Len(b)
      /\ \A i \in 1..Len(v) + Len(b) : (v \o b)[i] = IF i <= Len(v) THEN v[i] ELSE b[i - Len(v)]
  BY <1>1, ConcatProperties
<1>3. ASSUME NEW i \in 1..Len(a) + 1 + Len(b)
      PROVE  (v \o b)[i] = IF i <= Len(a) THEN a[i]
                           ELSE IF i = Len(a) + 1 THEN d ELSE b[i - (Len(a) + 1)]
  <2>1. CASE i <= Len(a) + 1
    <3>1. i \in 1..Len(a) + 1 /\ (~(i <= Len(a)) => i = Len(a) + 1)
      BY <1>1, <2>1
    <3>2. (v \o b)[i] = v[i]
      BY <1>1, <1>2, <2>1
    <3> QED BY <1>1, <3>1, <3>2
  <2>2. CASE ~(i <= Len(a) + 1)
    <3>1. ~(i <= Len(a)) /\ i # Len(a) + 1
      BY <1>1, <2>2
    <3> QED BY <1>1, <1>2, <2>2, <3>1
  <2> QED BY <2>1, <2>2
<1> QED BY <1>1, <1>2, <1>3 DEF v

\* The sequence that has one more element, after the first q.
LEMMA InsertedSeq ==
  ASSUME NEW s \in Seq(Data), NEW t \in Seq(Data), NEW q \in 0..Len(s), NEW d \in Data,
         Len(t) = Len(s) + 1, \A i \in 1..q : t[i] = s[i], t[q + 1] = d,
         \A i \in 1..Len(s) : i > q => t[i + 1] = s[i]
  PROVE  t = InsertAt(s, q + 1, d)
<1> DEFINE l == Len(s)
           a == SubSeq(s, 1, q)
           b == SubSeq(s, q + 1, l)
           u == a \o <<d>> \o b
<1>1. l \in Nat /\ q \in 0..l
  OBVIOUS
<1>2. a \in Seq(Data) /\ Len(a) = q /\ \A i \in 1..q : a[i] = s[i]
  OBVIOUS
<1>3. b \in Seq(Data) /\ Len(b) = l - q /\ \A i \in 1..l - q : b[i] = s[q + i]
  <2>1. b \in Seq(Data) /\ Len(b) = l - q
    OBVIOUS
  <2>2. ASSUME NEW i \in 1..l - q
        PROVE  b[i] = s[q + i]
    <3>1. q + 1 + i - 1 = q + i
      BY <1>1
    <3> QED BY <1>1, <3>1
  <2> QED BY <2>1, <2>2
<1> HIDE DEF a, b
<1>4. /\ u \in Seq(Data) /\ Len(u) = q + 1 + (l - q)
      /\ \A i \in 1..q + 1 + (l - q) :
           u[i] = IF i <= q THEN a[i] ELSE IF i = q + 1 THEN d ELSE b[i - (q + 1)]
  BY <1>2, <1>3, Around
<1>5. q + 1 + (l - q) = l + 1
  BY <1>1
<1> HIDE DEF u
<1>6. ASSUME NEW i \in 1..l + 1
      PROVE  u[i] = t[i]
  <2>1. CASE i <= q
    <3>1. i \in 1..q
      BY <1>1, <2>1
    <3> QED BY <1>2, <1>4, <1>5, <2>1, <3>1
  <2>2. CASE i = q + 1
    <3>1. ~(i <= q)
      BY <1>1, <2>2
    <3> QED BY <1>4, <1>5, <2>2, <3>1
  <2>3. CASE i > q + 1
    <3>1. /\ i - (q + 1) \in 1..l - q /\ q + (i - (q + 1)) = i - 1
          /\ i - 1 \in 1..l /\ i - 1 > q /\ (i - 1) + 1 = i /\ ~(i <= q) /\ i # q + 1
      BY <1>1, <2>3
    <3>2. b[i - (q + 1)] = s[i - 1]
      BY <1>3, <3>1
    <3>3. t[i] = s[i - 1]
      BY <3>1
    <3> QED BY <1>4, <1>5, <3>1, <3>2, <3>3
  <2>4. i <= q \/ i = q + 1 \/ i > q + 1
    BY <1>1
  <2> QED BY <2>1, <2>2, <2>3, <2>4
<1>7. u = t
  BY <1>1, <1>4, <1>5, <1>6, SeqEqual
<1>8. (q + 1) - 1 = q
  BY <1>1
<1> QED BY <1>7, <1>8, Zenon DEF InsertAt, u, a, b

\* A new node after the first q nodes of a ring of at least one.
LEMMA InsertStep ==
  ASSUME Types, NEW ring, IsRing(ring), size # 0, NEW q \in 0..size, NEW d \in Data,
         NEW before, before = (IF q = 0 THEN ring[size] ELSE ring[q]),
         NEW next, next = (IF q = 0 \/ q = size THEN ring[1] ELSE ring[q + 1]),
         NEW n, PutAfter(before, n, d, next),
         size' = size + 1, p_head' = IF q = 0 THEN n ELSE p_head
  PROVE  /\ Types' /\ Contents' = InsertAt(Contents, q + 1, d)
         /\ \E r : IsRing(r)' /\ r[size'] = IF q = size THEN n ELSE ring[size]
<1>1. size \in Nat /\ size \in 1..size /\ 1 \in 1..size /\ size' = size + 1 /\ q \in Nat
      /\ node \in [Node -> NodeType]
  BY DEF Types
<1>2. /\ n \in Node /\ node[n] = Free
      /\ node' = [node EXCEPT ![n] = [p_data |-> d, p_next |-> next], ![before].p_next = n]
  BY DEF PutAfter, Allocated
<1>3. \A i \in 1..size : ring[i] \in Node /\ ring[i] # n /\ node[ring[i]].p_data \in Data
  BY <1>2, MemoryOK DEF IsRing, Free
<1>4. before \in Node /\ before # n /\ next \in Node
  <2>1. q # 0 => q \in 1..size
    BY <1>1
  <2>2. q # size => q + 1 \in 1..size
    BY <1>1
  <2> QED BY <1>1, <1>3, <2>1, <2>2
<1>5. /\ node' \in [Node -> NodeType]
      /\ node'[n].p_data = d /\ node'[n].p_next = next
      /\ node'[before].p_data = node[before].p_data /\ node'[before].p_next = n
      /\ \A m \in Node : m # n /\ m # before => node'[m] = node[m]
  <2>1. node' = [m \in Node |-> IF m = before THEN [node[m] EXCEPT !.p_next = n]
                                ELSE IF m = n THEN [p_data |-> d, p_next |-> next]
                                ELSE node[m]]
    BY <1>1, <1>2, <1>4
  <2>2. /\ [p_data |-> d, p_next |-> next] \in NodeType
        /\ [node[before] EXCEPT !.p_next = n] \in NodeType
        /\ [node[before] EXCEPT !.p_next = n].p_data = node[before].p_data
        /\ [node[before] EXCEPT !.p_next = n].p_next = n
    BY <1>1, <1>2, <1>4 DEF NodeType
  <2> QED BY <1>1, <1>2, <1>4, <2>1, <2>2
<1>6. Types'
  BY <1>1, <1>5 DEF Types
<1> PICK r : r = [i \in 1..size + 1 |-> IF i <= q THEN ring[i]
                                        ELSE IF i = q + 1 THEN n ELSE ring[i - 1]]
  OBVIOUS
<1>7. /\ \A i \in 1..size' : i <= q => i \in 1..size /\ r[i] = ring[i]
      /\ q + 1 \in 1..size' /\ r[q + 1] = n
      /\ \A i \in 1..size' : i > q + 1 => i - 1 \in 1..size /\ i - 1 > q /\ r[i] = ring[i - 1]
      /\ \A i \in 1..size : i > q => i + 1 \in 1..size' /\ r[i + 1] = ring[i]
      /\ \A i \in 1..size : i <= q => i \in 1..size' /\ r[i] = ring[i]
  <2>1. ASSUME NEW i \in 1..size', i <= q
        PROVE  i \in 1..size /\ r[i] = ring[i]
    BY <1>1, <2>1
  <2>2. q + 1 \in 1..size' /\ r[q + 1] = n
    BY <1>1
  <2>3. ASSUME NEW i \in 1..size', i > q + 1
        PROVE  i - 1 \in 1..size /\ i - 1 > q /\ r[i] = ring[i - 1]
    BY <1>1, <2>3
  <2>4. ASSUME NEW i \in 1..size, i > q
        PROVE  i + 1 \in 1..size' /\ r[i + 1] = ring[i]
    <3>1. i + 1 \in 1..size + 1 /\ ~(i + 1 <= q) /\ i + 1 # q + 1 /\ (i + 1) - 1 = i
      BY <1>1, <2>4
    <3> QED BY <1>1, <3>1
  <2>5. ASSUME NEW i \in 1..size, i <= q
        PROVE  i \in 1..size' /\ r[i] = ring[i]
    BY <1>1, <2>5
  <2> QED BY <2>1, <2>2, <2>3, <2>4, <2>5
<1>8. r \in [1..size' -> Node]
  <2>1. r = [i \in 1..size' |-> r[i]]
    BY <1>1
  <2>2. \A i \in 1..size' : i <= q \/ i = q + 1 \/ i > q + 1
    BY <1>1
  <2> QED BY <1>2, <1>3, <1>7, <2>1, <2>2
<1>9. \A i, j \in 1..size' : r[i] = r[j] => i = j
  <2> SUFFICES ASSUME NEW i \in 1..size', NEW j \in 1..size', r[i] = r[j]  PROVE i = j
    OBVIOUS
  <2>1. (i <= q \/ i = q + 1 \/ i > q + 1) /\ (j <= q \/ j = q + 1 \/ j > q + 1)
    BY <1>1
  <2>2. i = q + 1 <=> j = q + 1
    BY <1>1, <1>3, <1>7, <2>1
  <2>3. CASE i <= q /\ j <= q
    BY <1>7, <2>3 DEF IsRing
  <2>4. CASE i > q + 1 /\ j > q + 1
    <3>1. i - 1 = j - 1
      BY <1>7, <2>4 DEF IsRing
    <3> QED BY <1>1, <3>1
  <2>5. CASE i <= q /\ j > q + 1
    <3>1. i = j - 1
      BY <1>7, <2>5 DEF IsRing
    <3> QED BY <1>1, <1>7, <2>5, <3>1
  <2>6. CASE i > q + 1 /\ j <= q
    <3>1. i - 1 = j
      BY <1>7, <2>6 DEF IsRing
    <3> QED BY <1>1, <1>7, <2>6, <3>1
  <2> QED BY <2>1, <2>2, <2>3, <2>4, <2>5, <2>6
\* What becomes of the nodes that were in the ring.
<1>10. ASSUME NEW i \in 1..size
       PROVE  /\ node'[ring[i]].p_data = node[ring[i]].p_data
              /\ node'[ring[i]].p_next =
                   IF (q = 0 /\ i = size) \/ i = q THEN n ELSE ring[After(i)]
  <2>1. ring[i] = before <=> (q = 0 /\ i = size) \/ i = q
    <3>1. CASE q = 0
      BY <1>1, <3>1 DEF IsRing
    <3>2. CASE q # 0
      <4>1. q \in 1..size
        BY <1>1, <3>2
      <4> QED BY <3>2, <4>1 DEF IsRing
    <3> QED BY <3>1, <3>2
  <2>2. node[ring[i]].p_next = ring[After(i)]
    BY DEF IsRing
  <2>3. CASE ring[i] = before
    BY <1>5, <2>1, <2>3
  <2>4. CASE ring[i] # before
    <3>1. node'[ring[i]] = node[ring[i]]
      BY <1>3, <1>5, <2>4
    <3> QED BY <2>1, <2>2, <2>4, <3>1
  <2> QED BY <2>3, <2>4
<1>11. ASSUME NEW i \in 1..size'
       PROVE  node'[r[i]].p_data \in Data /\ node'[r[i]].p_next = r[After(i)']
  <2>1. After(i)' = IF i = size + 1 THEN 1 ELSE i + 1
    BY <1>1 DEF After
  <2>2. CASE i < q
    <3>1. i \in 1..size /\ r[i] = ring[i] /\ i # size /\ i # q /\ q # 0
          /\ i + 1 \in 1..size' /\ r[i + 1] = ring[i + 1]
      BY <1>1, <1>7, <2>2
    <3>2. After(i) = i + 1 /\ After(i)' = i + 1
      BY <1>1, <2>1, <3>1 DEF After
    <3> QED BY <1>3, <1>10, <3>1, <3>2
  <2>3. CASE i = q
    <3>1. i \in 1..size /\ r[i] = ring[i] /\ After(i)' = q + 1
      BY <1>1, <1>7, <2>1, <2>3
    <3> QED BY <1>3, <1>7, <1>10, <2>3, <3>1
  <2>4. CASE i = q + 1
    <3>1. r[i] = n
      BY <1>7, <2>4
    <3>2. r[After(i)'] = next
      <4>1. CASE q = size
        <5>1. 1 <= q /\ After(i)' = 1
          BY <1>1, <2>1, <2>4, <4>1
        <5>2. r[1] = ring[1]
          BY <1>1, <1>7, <5>1
        <5> QED BY <4>1, <5>1, <5>2
      <4>2. CASE q # size
        <5>1. q + 1 \in 1..size /\ q + 1 > q /\ After(i)' = (q + 1) + 1
          BY <1>1, <2>1, <2>4, <4>2
        <5>2. r[(q + 1) + 1] = ring[q + 1]
          BY <1>7, <5>1
        <5>3. q = 0 => q + 1 = 1
          OBVIOUS
        <5> QED BY <4>2, <5>1, <5>2, <5>3
      <4> QED BY <4>1, <4>2
    <3> QED BY <1>5, <3>1, <3>2
  <2>5. CASE i > q + 1
    <3> PICK j : j = i - 1
      OBVIOUS
    <3>1. j \in 1..size /\ j > q /\ r[i] = ring[j] /\ j + 1 = i /\ i \in Int
      BY <1>1, <1>7, <2>5
    <3>2. CASE j # size
      <4>1. /\ After(j) = i /\ After(i)' = i + 1 /\ i \in 1..size /\ i > q
            /\ ~((q = 0 /\ j = size) \/ j = q)
        BY <1>1, <2>1, <3>1, <3>2 DEF After
      <4>2. r[i + 1] = ring[i]
        BY <1>7, <4>1
      <4> QED BY <1>3, <1>10, <3>1, <4>1, <4>2
    <3>3. CASE j = size
      <4>1. After(j) = 1 /\ After(i)' = 1
        BY <1>1, <2>1, <3>1, <3>3 DEF After
      <4>2. CASE q = 0
        <5>1. r[1] = n
          BY <1>7, <4>2
        <5> QED BY <1>3, <1>10, <3>1, <3>3, <4>1, <4>2, <5>1
      <4>3. CASE q # 0
        <5>1. 1 <= q /\ ~((q = 0 /\ j = size) \/ j = q)
          BY <1>1, <3>1, <4>3
        <5>2. r[1] = ring[1]
          BY <1>1, <1>7, <5>1
        <5> QED BY <1>3, <1>10, <3>1, <4>1, <5>1, <5>2
      <4> QED BY <4>2, <4>3
    <3> QED BY <3>2, <3>3
  <2> QED BY <1>1, <2>2, <2>3, <2>4, <2>5
<1>12. ASSUME NEW m \in Node, \A i \in 1..size' : r[i] # m
       PROVE  node'[m] = Free
  <2>1. m # n
    BY <1>7, <1>12
  <2>2. ASSUME NEW i \in 1..size
        PROVE  ring[i] # m
    <3>1. i > q \/ i <= q
      BY <1>1
    <3> QED BY <1>7, <1>12, <3>1
  <2>3. node[m] = Free
    BY <2>2 DEF IsRing
  <2>4. m # before
    <3>1. q # 0 => q \in 1..size
      BY <1>1
    <3> QED BY <1>1, <2>2, <3>1
  <2> QED BY <1>5, <2>1, <2>3, <2>4
<1>13. p_head' = r[1] /\ size' # 0
  <2>1. CASE q = 0
    BY <1>1, <1>7, <2>1
  <2>2. CASE q # 0
    <3>1. 1 <= q
      BY <1>1, <2>2
    <3> QED BY <1>1, <1>7, <2>2, <3>1 DEF IsRing
  <2> QED BY <2>1, <2>2
<1>14. IsRing(r)'
  BY <1>8, <1>9, <1>11, <1>12, <1>13 DEF IsRing
<1>15. r[size'] = IF q = size THEN n ELSE ring[size]
  <2>1. CASE q = size
    BY <1>1, <1>7, <2>1
  <2>2. CASE q # size
    <3>1. size > q
      BY <1>1, <2>2
    <3> QED BY <1>1, <1>7, <2>2, <3>1
  <2> QED BY <2>1, <2>2
<1>16. Contents' = InsertAt(Contents, q + 1, d)
  <2>1. /\ Contents \in Seq(Data) /\ Len(Contents) = size
        /\ \A i \in 1..size : Contents[i] = node[ring[i]].p_data
    BY ContentsFacts
  <2>2. /\ Contents' \in Seq(Data) /\ Len(Contents') = size'
        /\ \A i \in 1..size' : Contents'[i] = node'[r[i]].p_data
    BY <1>6, <1>14, ContentsFactsNext
  <2> PICK s, t : s = Contents /\ t = Contents'
    OBVIOUS
  <2>3. s \in Seq(Data) /\ t \in Seq(Data) /\ q \in 0..Len(s) /\ Len(t) = Len(s) + 1
    BY <1>1, <2>1, <2>2
  <2>4. ASSUME NEW i \in 1..q
        PROVE  t[i] = s[i]
    <3>1. i \in 1..size /\ i <= q
      BY <1>1
    <3> QED BY <1>7, <1>10, <2>1, <2>2, <3>1
  <2>5. t[q + 1] = d
    BY <1>5, <1>7, <2>2
  <2>6. ASSUME NEW i \in 1..Len(s), i > q
        PROVE  t[i + 1] = s[i]
    <3>1. i \in 1..size /\ i + 1 \in 1..size' /\ r[i + 1] = ring[i]
      BY <1>7, <2>1, <2>6
    <3>2. t[i + 1] = node'[r[i + 1]].p_data
      BY <2>2, <3>1
    <3> QED BY <1>10, <2>1, <3>1, <3>2
  <2>7. t = InsertAt(s, q + 1, d)
    BY <2>3, <2>4, <2>5, <2>6, InsertedSeq
  <2> QED BY <2>7
<1> QED BY <1>6, <1>14, <1>15, <1>16

---------------------------------------------------------------------------
(* Removals *)

LEMMA Joined ==
  ASSUME NEW a \in Seq(Data), NEW b \in Seq(Data), NEW k, NEW l, k = Len(a), l = Len(b)
  PROVE  /\ a \o b \in Seq(Data) /\ Len(a \o b) = k + l
         /\ \A i \in 1..k + l : (a \o b)[i] = IF i <= k THEN a[i] ELSE b[i - k]
BY ConcatProperties

\* The sequence that has lost the element after the first q.
LEMMA RemovedSeq ==
  ASSUME NEW s \in Seq(Data), NEW t \in Seq(Data), NEW q \in 0..Len(s) - 1,
         Len(t) = Len(s) - 1, \A i \in 1..q : t[i] = s[i],
         \A i \in 1..Len(t) : i > q => t[i] = s[i + 1]
  PROVE  t = RemoveAt(s, q + 1)
<1> DEFINE l == Len(s)
           a == SubSeq(s, 1, q)
           b == SubSeq(s, q + 2, l)
           u == a \o b
<1>1. l \in Nat /\ q \in 0..l - 1 /\ l # 0
  OBVIOUS
<1>2. a \in Seq(Data) /\ Len(a) = q /\ \A i \in 1..q : a[i] = s[i]
  OBVIOUS
<1>3. b \in Seq(Data) /\ Len(b) = l - 1 - q /\ \A i \in 1..l - 1 - q : b[i] = s[q + i + 1]
  <2>1. b \in Seq(Data) /\ Len(b) = l - 1 - q
    OBVIOUS
  <2>2. ASSUME NEW i \in 1..l - 1 - q
        PROVE  b[i] = s[q + i + 1]
    <3>1. (q + 2) + i - 1 = q + i + 1
      BY <1>1
    <3> QED BY <1>1, <3>1
  <2> QED BY <2>1, <2>2
<1> HIDE DEF a, b
<1>4. /\ u \in Seq(Data) /\ Len(u) = q + (l - 1 - q)
      /\ \A i \in 1..q + (l - 1 - q) : u[i] = IF i <= q THEN a[i] ELSE b[i - q]
  <2> DEFINE m == l - 1 - q
  <2>1. /\ a \in Seq(Data) /\ b \in Seq(Data) /\ q = Len(a) /\ m = Len(b)
    BY <1>2, <1>3
  <2> HIDE DEF m
  <2>2. /\ a \o b \in Seq(Data) /\ Len(a \o b) = q + m
        /\ \A i \in 1..q + m : (a \o b)[i] = IF i <= q THEN a[i] ELSE b[i - q]
    BY <2>1, Joined
  <2> QED BY <2>2 DEF m
<1>5. q + (l - 1 - q) = l - 1
  BY <1>1
<1> HIDE DEF u
<1>6. ASSUME NEW i \in 1..l - 1
      PROVE  u[i] = t[i]
  <2>1. CASE i <= q
    <3>1. i \in 1..q
      BY <1>1, <2>1
    <3> QED BY <1>2, <1>4, <1>5, <2>1, <3>1
  <2>2. CASE i > q
    <3>1. /\ i - q \in 1..l - 1 - q /\ q + (i - q) + 1 = i + 1 /\ ~(i <= q)
          /\ i \in 1..Len(t)
      BY <1>1, <2>2
    <3>2. b[i - q] = s[i + 1]
      BY <1>3, <3>1
    <3> QED BY <1>4, <1>5, <2>2, <3>1, <3>2
  <2>3. i <= q \/ i > q
    BY <1>1
  <2> QED BY <2>1, <2>2, <2>3
<1>7. u = t
  BY <1>1, <1>4, <1>5, <1>6, SeqEqual
<1>8. (q + 1) - 1 = q /\ (q + 1) + 1 = q + 2
  BY <1>1
<1> QED BY <1>7, <1>8, Zenon DEF RemoveAt, u, a, b

\* The node after the first q nodes of a ring of at least two is removed.
LEMMA RemoveStep ==
  ASSUME Types, NEW ring, IsRing(ring), size > 1, NEW q \in 0..size - 1,
         NEW before, before = (IF q = 0 THEN ring[size] ELSE ring[q]),
         RemoveAfter(before), p_head' = IF q = 0 THEN node[p_head].p_next ELSE p_head
  PROVE  /\ Types' /\ Contents' = RemoveAt(Contents, q + 1)
         /\ \E r : IsRing(r)' /\ r[size'] = IF q = size - 1 THEN ring[q] ELSE ring[size]
<1>1. /\ size \in Nat /\ size \in 1..size /\ 1 \in 1..size /\ size' = size - 1 /\ q \in Nat
      /\ q + 1 \in 1..size /\ size # 0 /\ size' # 0
      /\ node \in [Node -> NodeType]
  BY DEF Types, RemoveAfter
<1>2. \A i \in 1..size : ring[i] \in Node /\ node[ring[i]].p_data \in Data
  BY DEF IsRing
<1> PICK gone : gone = ring[q + 1]
  OBVIOUS
<1>3. /\ before \in Node /\ gone \in Node /\ before # gone /\ node[before].p_next = gone
      /\ \A i \in 1..size : ring[i] = before <=> (q = 0 /\ i = size) \/ i = q
      /\ \A i \in 1..size : ring[i] = gone <=> i = q + 1
  <2>1. CASE q = 0
    <3>1. before = ring[size] /\ gone = ring[1] /\ size # 1 /\ After(size) = 1
      BY <1>1, <2>1 DEF After
    <3> QED BY <1>1, <1>2, <2>1, <3>1 DEF IsRing
  <2>2. CASE q # 0
    <3>1. q \in 1..size /\ before = ring[q] /\ q # q + 1 /\ q # size /\ After(q) = q + 1
      BY <1>1, <2>2 DEF After
    <3> QED BY <1>1, <1>2, <2>2, <3>1 DEF IsRing
  <2> QED BY <2>1, <2>2
<1> PICK next : next = ring[After(q + 1)]
  OBVIOUS
<1>4. next \in Node /\ node[gone].p_next = next
  <2>1. After(q + 1) \in 1..size
    BY <1>1 DEF After
  <2> QED BY <1>1, <1>2, <2>1 DEF IsRing
<1>5. /\ node' \in [Node -> NodeType] /\ node'[gone] = Free
      /\ node'[before].p_data = node[before].p_data /\ node'[before].p_next = next
      /\ \A m \in Node : m # gone /\ m # before => node'[m] = node[m]
  <2>1. node' = [node EXCEPT ![before].p_next = next, ![gone] = Free]
    BY <1>3, <1>4 DEF RemoveAfter
  <2>2. node' = [m \in Node |-> IF m = gone THEN Free
                                ELSE IF m = before THEN [node[m] EXCEPT !.p_next = next]
                                ELSE node[m]]
    BY <1>1, <1>3, <2>1
  <2>3. /\ Free \in NodeType
        /\ [node[before] EXCEPT !.p_next = next] \in NodeType
        /\ [node[before] EXCEPT !.p_next = next].p_data = node[before].p_data
        /\ [node[before] EXCEPT !.p_next = next].p_next = next
    BY <1>1, <1>3, <1>4 DEF NodeType, Free
  <2> QED BY <1>1, <1>3, <2>2, <2>3
<1>6. Types'
  BY <1>1, <1>5 DEF Types
<1> PICK r : r = [i \in 1..size - 1 |-> IF i <= q THEN ring[i] ELSE ring[i + 1]]
  OBVIOUS
<1>7. /\ \A i \in 1..size' : i <= q => i \in 1..size /\ i # size /\ r[i] = ring[i]
      /\ \A i \in 1..size' : i > q => i + 1 \in 1..size /\ r[i] = ring[i + 1]
      /\ \A i \in 1..size : i <= q => i \in 1..size' /\ r[i] = ring[i]
      /\ \A i \in 1..size : i > q + 1 => i - 1 \in 1..size' /\ r[i - 1] = ring[i]
  <2>1. ASSUME NEW i \in 1..size', i <= q
        PROVE  i \in 1..size /\ i # size /\ r[i] = ring[i]
    BY <1>1, <2>1
  <2>2. ASSUME NEW i \in 1..size', i > q
        PROVE  i + 1 \in 1..size /\ r[i] = ring[i + 1]
    BY <1>1, <2>2
  <2>3. ASSUME NEW i \in 1..size, i <= q
        PROVE  i \in 1..size' /\ r[i] = ring[i]
    BY <1>1, <2>3
  <2>4. ASSUME NEW i \in 1..size, i > q + 1
        PROVE  i - 1 \in 1..size' /\ r[i - 1] = ring[i]
    <3>1. i - 1 \in 1..size - 1 /\ ~(i - 1 <= q) /\ (i - 1) + 1 = i
      BY <1>1, <2>4
    <3> QED BY <1>1, <3>1
  <2> QED BY <2>1, <2>2, <2>3, <2>4
<1>8. \A i \in 1..size' : (i <= q \/ i > q) /\ i \in Int
  BY <1>1
<1>9. r \in [1..size' -> Node]
  <2>1. r = [i \in 1..size' |-> r[i]]
    BY <1>1
  <2> QED BY <1>2, <1>7, <1>8, <2>1
<1>10. \A i, j \in 1..size' : r[i] = r[j] => i = j
  <2> SUFFICES ASSUME NEW i \in 1..size', NEW j \in 1..size', r[i] = r[j]  PROVE i = j
    OBVIOUS
  <2>1. CASE i <= q /\ j <= q
    <3>1. i \in 1..size /\ j \in 1..size /\ ring[i] = ring[j]
      BY <1>7, <2>1
    <3> QED BY <3>1 DEF IsRing
  <2>2. CASE i > q /\ j > q
    <3>1. i + 1 \in 1..size /\ j + 1 \in 1..size /\ ring[i + 1] = ring[j + 1]
      BY <1>7, <2>2
    <3>2. i + 1 = j + 1
      BY <3>1 DEF IsRing
    <3> QED BY <1>8, <3>2
  <2>3. CASE i <= q /\ j > q
    <3>1. i \in 1..size /\ j + 1 \in 1..size /\ ring[i] = ring[j + 1]
      BY <1>7, <2>3
    <3>2. i = j + 1
      BY <3>1 DEF IsRing
    <3> QED BY <1>1, <1>8, <2>3, <3>2
  <2>4. CASE i > q /\ j <= q
    <3>1. i + 1 \in 1..size /\ j \in 1..size /\ ring[i + 1] = ring[j]
      BY <1>7, <2>4
    <3>2. i + 1 = j
      BY <3>1 DEF IsRing
    <3> QED BY <1>1, <1>8, <2>4, <3>2
  <2> QED BY <1>8, <2>1, <2>2, <2>3, <2>4
\* What becomes of the nodes that stay in the ring.
<1>11. ASSUME NEW i \in 1..size, i # q + 1
       PROVE  /\ node'[ring[i]].p_data = node[ring[i]].p_data
              /\ node'[ring[i]].p_next =
                   IF (q = 0 /\ i = size) \/ i = q THEN next ELSE ring[After(i)]
  <2>1. node[ring[i]].p_next = ring[After(i)] /\ ring[i] # gone /\ ring[i] \in Node
    BY <1>2, <1>3, <1>11 DEF IsRing
  <2>2. CASE ring[i] = before
    BY <1>3, <1>5, <2>2
  <2>3. CASE ring[i] # before
    <3>1. node'[ring[i]] = node[ring[i]]
      BY <1>5, <2>1, <2>3
    <3> QED BY <1>3, <2>1, <2>3, <3>1
  <2> QED BY <2>2, <2>3
<1>12. ASSUME NEW i \in 1..size'
       PROVE  node'[r[i]].p_data \in Data /\ node'[r[i]].p_next = r[After(i)']
  <2>1. After(i)' = IF i = size - 1 THEN 1 ELSE i + 1
    BY <1>1 DEF After
  <2>2. CASE i < q
    <3>1. /\ i \in 1..size /\ r[i] = ring[i] /\ i # q + 1 /\ i # q /\ q # 0
          /\ i + 1 \in 1..size /\ i + 1 <= q
      BY <1>1, <1>7, <2>2
    <3>2. After(i) = i + 1 /\ After(i)' = i + 1
      BY <1>1, <2>1, <2>2, <3>1 DEF After
    <3>3. r[i + 1] = ring[i + 1]
      BY <1>7, <3>1
    <3> QED BY <1>2, <1>11, <3>1, <3>2, <3>3
  <2>3. CASE i = q
    <3>1. i \in 1..size /\ r[i] = ring[i] /\ i # q + 1
      BY <1>1, <1>7, <2>3
    <3>2. node'[r[i]].p_next = next /\ node'[r[i]].p_data \in Data
      BY <1>2, <1>11, <2>3, <3>1
    <3>3. r[After(i)'] = next
      <4>1. CASE q = size - 1
        <5>1. After(i)' = 1 /\ After(q + 1) = 1 /\ 1 <= q
          BY <1>1, <2>1, <2>3, <4>1 DEF After
        <5>2. r[1] = ring[1]
          BY <1>1, <1>7, <5>1
        <5> QED BY <5>1, <5>2
      <4>2. CASE q # size - 1
        <5>1. /\ After(i)' = q + 1 /\ After(q + 1) = (q + 1) + 1
              /\ q + 1 \in 1..size' /\ q + 1 > q
          BY <1>1, <2>1, <2>3, <4>2 DEF After
        <5>2. r[q + 1] = ring[(q + 1) + 1]
          BY <1>7, <5>1
        <5> QED BY <5>1, <5>2
      <4> QED BY <4>1, <4>2
    <3> QED BY <3>2, <3>3
  <2>4. CASE i > q
    <3> PICK j : j = i + 1
      OBVIOUS
    <3>1. /\ j \in 1..size /\ r[i] = ring[j] /\ j # q + 1 /\ j # q
      BY <1>1, <1>7, <1>8, <2>4
    <3>2. CASE j # size
      <4>1. /\ i + 1 \in 1..size' /\ i + 1 > q /\ After(i)' = j /\ After(j) = j + 1
        BY <1>1, <1>8, <2>1, <2>4, <3>1, <3>2 DEF After
      <4>2. r[j] = ring[j + 1]
        BY <1>7, <4>1
      <4> QED BY <1>2, <1>11, <3>1, <3>2, <4>1, <4>2
    <3>3. CASE j = size
      <4>1. After(j) = 1 /\ After(i)' = 1 /\ 1 \in 1..size'
        BY <1>1, <1>8, <2>1, <3>3 DEF After
      <4>2. CASE q = 0
        <5>1. After(q + 1) = 1 + 1 /\ 1 > q
          BY <1>1, <4>2 DEF After
        <5>2. r[1] = ring[1 + 1]
          BY <1>7, <4>1, <5>1
        <5> QED BY <1>2, <1>11, <3>1, <3>3, <4>1, <4>2, <5>1, <5>2
      <4>3. CASE q # 0
        <5>1. 1 <= q
          BY <1>1, <4>3
        <5>2. r[1] = ring[1]
          BY <1>7, <4>1, <5>1
        <5> QED BY <1>2, <1>11, <3>1, <4>1, <4>3, <5>2
      <4> QED BY <4>2, <4>3
    <3> QED BY <3>2, <3>3
  <2> QED BY <1>1, <1>8, <2>2, <2>3, <2>4
<1>13. ASSUME NEW m \in Node, \A i \in 1..size' : r[i] # m
       PROVE  node'[m] = Free
  <2>1. CASE m = gone
    BY <1>5, <2>1
  <2>2. CASE m # gone
    <3>1. ASSUME NEW i \in 1..size
          PROVE  ring[i] # m
      <4>1. i <= q \/ i > q + 1 \/ i = q + 1
        BY <1>1
      <4>2. ASSUME i <= q  PROVE ring[i] # m
        BY <1>7, <1>13, <4>2
      <4>3. ASSUME i > q + 1  PROVE ring[i] # m
        BY <1>7, <1>13, <4>3
      <4>4. ASSUME i = q + 1  PROVE ring[i] # m
        BY <2>2, <4>4
      <4> QED BY <4>1, <4>2, <4>3, <4>4
    <3>2. node[m] = Free
      BY <3>1 DEF IsRing
    <3>3. m # before
      <4>1. q # 0 => q \in 1..size
        BY <1>1
      <4> QED BY <1>1, <3>1, <4>1
    <3> QED BY <1>5, <2>2, <3>2, <3>3
  <2> QED BY <2>1, <2>2
<1>14. p_head' = r[1]
  <2>1. p_head = ring[1] /\ 1 \in 1..size'
    BY <1>1 DEF IsRing
  <2>2. CASE q = 0
    <3>1. After(1) = 1 + 1 /\ 1 > q
      BY <1>1, <2>2 DEF After
    <3>2. node[ring[1]].p_next = ring[1 + 1]
      BY <1>1, <3>1 DEF IsRing
    <3> QED BY <1>7, <2>1, <2>2, <3>1, <3>2
  <2>3. CASE q # 0
    <3>1. 1 <= q
      BY <1>1, <2>3
    <3> QED BY <1>7, <2>1, <2>3, <3>1
  <2> QED BY <2>2, <2>3
<1>15. IsRing(r)'
  BY <1>1, <1>9, <1>10, <1>12, <1>13, <1>14 DEF IsRing
<1>16. r[size'] = IF q = size - 1 THEN ring[q] ELSE ring[size]
  <2>1. size' \in 1..size' /\ size' + 1 = size
    BY <1>1
  <2>2. CASE q = size - 1
    <3>1. size' = q /\ size' <= q
      BY <1>1, <2>2
    <3> QED BY <1>7, <2>1, <2>2, <3>1
  <2>3. CASE q # size - 1
    <3>1. size' > q
      BY <1>1, <2>3
    <3> QED BY <1>7, <2>1, <2>3, <3>1
  <2> QED BY <2>2, <2>3
<1>17. Contents' = RemoveAt(Contents, q + 1)
  <2>1. /\ Contents \in Seq(Data) /\ Len(Contents) = size
        /\ \A i \in 1..size : Contents[i] = node[ring[i]].p_data
    BY ContentsFacts
  <2>2. /\ Contents' \in Seq(Data) /\ Len(Contents') = size'
        /\ \A i \in 1..size' : Contents'[i] = node'[r[i]].p_data
    BY <1>6, <1>15, ContentsFactsNext
  <2> PICK s, t : s = Contents /\ t = Contents'
    OBVIOUS
  <2>3. s \in Seq(Data) /\ t \in Seq(Data) /\ q \in 0..Len(s) - 1 /\ Len(t) = Len(s) - 1
    BY <1>1, <2>1, <2>2
  <2>4. ASSUME NEW i \in 1..q
        PROVE  t[i] = s[i]
    <3>1. i \in 1..size /\ i <= q /\ i # q + 1
      BY <1>1
    <3>2. i \in 1..size' /\ r[i] = ring[i]
      BY <1>7, <3>1
    <3>3. t[i] = node'[r[i]].p_data
      BY <2>2, <3>2
    <3> QED BY <1>11, <2>1, <3>1, <3>2, <3>3
  <2>5. ASSUME NEW i \in 1..Len(t), i > q
        PROVE  t[i] = s[i + 1]
    <3>1. i \in 1..size' /\ i + 1 \in 1..size /\ r[i] = ring[i + 1] /\ i + 1 # q + 1
      BY <1>1, <1>7, <2>2, <2>5
    <3>2. t[i] = node'[r[i]].p_data
      BY <2>2, <3>1
    <3> QED BY <1>11, <2>1, <3>1, <3>2
  <2>6. t = RemoveAt(s, q + 1)
    BY <2>3, <2>4, <2>5, RemovedSeq
  <2> QED BY <2>6
<1> QED BY <1>6, <1>15, <1>16, <1>17

---------------------------------------------------------------------------
(* Each call *)

\* p_tail is the last node, or NULL.
EndsAt(ring) == p_tail = IF size = 0 THEN NULL ELSE ring[size]

\* The list is a closed ring after the step, and holds s.
Becomes(s) ==
  /\ Types' /\ Contents' = s
  /\ \E r : IsRing(r)' /\ EndsAt(r)'

IsBare == p_head = NULL /\ p_tail = NULL /\ size = 0 /\ node = [n \in Node |-> Free]

LEMMA BareRing ==
  ASSUME NEW CONSTANT r, r = << >>
  PROVE  /\ IsBare => Types /\ Contents = << >> /\ IsRing(r) /\ EndsAt(r)
         /\ IsBare' => (Types /\ Contents = << >> /\ IsRing(r) /\ EndsAt(r))'
<1>1. IsBare => Types /\ Contents = << >> /\ IsRing(r) /\ EndsAt(r)
  <2> SUFFICES ASSUME IsBare  PROVE Types /\ Contents = << >> /\ IsRing(r) /\ EndsAt(r)
    OBVIOUS
  <2>1. size = 0 /\ p_head = NULL /\ p_tail = NULL /\ \A n \in Node : node[n] = Free
    BY DEF IsBare
  <2>2. Types
    BY DEF IsBare, Types, NodeType, Free
  <2>3. r \in [1..0 -> Node] /\ \A i \in 1..0 : FALSE
    OBVIOUS
  <2>4. IsRing(r) /\ EndsAt(r)
    BY <2>1, <2>3 DEF IsRing, EndsAt
  <2>5. Contents = [i \in 1..0 |-> node[r[i]].p_data]
    BY <2>1, <2>2, <2>4, ContentsOf
  <2>6. Contents = << >>
    BY <2>5
  <2> QED BY <2>2, <2>4, <2>6
<1> QED BY <1>1, PTL

LEMMA BareBecomes ==
  ASSUME IsBare'
  PROVE  Becomes(<< >>)
<1> PICK r : r = << >>
  OBVIOUS
<1> QED BY BareRing DEF Becomes

LEMMA HeadOf ==
  ASSUME Types, NEW ring, IsRing(ring)
  PROVE  /\ p_head = NULL <=> size = 0
         /\ Contents = << >> <=> size = 0
<1>1. size # 0 => 1 \in 1..size
  BY DEF Types
<1>2. p_head = NULL <=> size = 0
  BY <1>1, MemoryOK DEF IsRing
<1>3. Len(Contents) = size /\ Contents \in Seq(Data)
  BY ContentsFacts
<1> QED BY <1>2, <1>3, EmptySeq

LEMMA AddedToEmpty ==
  ASSUME Types, NEW ring, IsRing(ring), NEW d \in Data, EmptyListAdd(d)
  PROVE  size = 0 /\ returned' = "SUCCESS" /\ Becomes(InsertAt(Contents, 1, d))
<1>1. size = 0 /\ Contents = << >>
  BY HeadOf DEF EmptyListAdd
<1>2. PICK n : Put(n, d, n) /\ p_head' = n /\ p_tail' = n
  BY DEF EmptyListAdd
<1>3. /\ n \in Node /\ size' = 1 /\ \A m \in Node : node[m] = Free
      /\ node \in [Node -> NodeType]
      /\ node' = [node EXCEPT ![n] = [p_data |-> d, p_next |-> n]]
  BY <1>1, <1>2 DEF Put, EmptyListAdd, IsRing, Types
<1>4. Types' /\ node'[n].p_data = d /\ node'[n].p_next = n
  BY <1>3 DEF Types, NodeType
<1> PICK r : r = <<n>>
  OBVIOUS
<1>5. r \in [1..1 -> Node] /\ r[1] = n
  BY <1>3
<1>6. After(1)' = 1
  BY <1>3 DEF After
<1>7. \A i \in 1..1 : i = 1
  OBVIOUS
<1>8. \A m \in Node : m # n => node'[m] = Free
  BY <1>3
<1>9. IsRing(r)' /\ EndsAt(r)'
  BY <1>2, <1>3, <1>4, <1>5, <1>6, <1>7, <1>8 DEF IsRing, EndsAt
<1>10. Contents' = InsertAt(<< >>, 1, d)
  <2>1. /\ Contents' \in Seq(Data) /\ Len(Contents') = 1 /\ Contents'[1] = node'[r[1]].p_data
    BY <1>3, <1>4, <1>7, <1>9, ContentsFactsNext
  <2> PICK s, t : s = << >> /\ t = Contents'
    OBVIOUS
  <2>2. s \in Seq(Data) /\ t \in Seq(Data) /\ 0 \in 0..Len(s) /\ Len(t) = Len(s) + 1
    BY <2>1
  <2>3. (\A i \in 1..0 : t[i] = s[i]) /\ t[0 + 1] = d
        /\ \A i \in 1..Len(s) : i > 0 => t[i + 1] = s[i]
    BY <1>4, <1>5, <2>1
  <2>4. t = InsertAt(s, 0 + 1, d)
    BY <2>2, <2>3, InsertedSeq
  <2> QED BY <2>4
<1> QED BY <1>1, <1>4, <1>9, <1>10 DEF Becomes, EmptyListAdd

LEMMA InsertedBegin ==
  ASSUME IInv, NEW d \in Data, InsertElementBegin(d)
  PROVE  returned' = "SUCCESS" /\ Becomes(InsertAt(Contents, 1, d))
<1> PICK ring : IsRing(ring) /\ EndsIn(ring) /\ Types
  BY DEF IInv
<1>1. CASE EmptyListAdd(d)
  BY <1>1, AddedToEmpty
<1>2. CASE ~EmptyListAdd(d)
  <2>1. PICK n : PutAfter(p_tail, n, d, p_head) /\ p_head' = n
    BY <1>2 DEF InsertElementBegin
  <2>2. /\ size # 0 /\ Finished /\ size' = size + 1 /\ p_tail' = p_tail
        /\ returned' = "SUCCESS"
    BY <1>2, HeadOf DEF InsertElementBegin
  <2>3. p_tail = ring[size] /\ p_head = ring[1]
    BY <2>2 DEF EndsIn, Finished, IsRing
  <2>4. 0 \in 0..size /\ 0 + 1 = 1 /\ size' # 0
    BY <2>2 DEF Types
  <2>5. /\ Types' /\ Contents' = InsertAt(Contents, 0 + 1, d)
        /\ \E r : IsRing(r)' /\ r[size'] = IF 0 = size THEN n ELSE ring[size]
    BY <2>1, <2>2, <2>3, <2>4, InsertStep
  <2>6. \E r : IsRing(r)' /\ EndsAt(r)'
    BY <2>2, <2>3, <2>4, <2>5 DEF EndsAt
  <2> QED BY <2>2, <2>4, <2>5, <2>6 DEF Becomes
<1> QED BY <1>1, <1>2

LEMMA InsertedEnd ==
  ASSUME IInv, NEW d \in Data, InsertElementEnd(d)
  PROVE  returned' = "SUCCESS" /\ Becomes(InsertAt(Contents, size + 1, d))
<1> PICK ring : IsRing(ring) /\ EndsIn(ring) /\ Types
  BY DEF IInv
<1>1. CASE EmptyListAdd(d)
  <2>1. size = 0 /\ returned' = "SUCCESS" /\ Becomes(InsertAt(Contents, 1, d))
    BY <1>1, AddedToEmpty
  <2>2. size + 1 = 1
    BY <2>1
  <2> QED BY <2>1, <2>2
<1>2. CASE ~EmptyListAdd(d)
  <2>1. PICK n : PutAfter(p_tail, n, d, p_head) /\ p_tail' = n
    BY <1>2 DEF InsertElementEnd
  <2>2. /\ size # 0 /\ Finished /\ size' = size + 1 /\ p_head' = p_head
        /\ returned' = "SUCCESS"
    BY <1>2, HeadOf DEF InsertElementEnd
  <2>3. p_tail = ring[size] /\ p_head = ring[1]
    BY <2>2 DEF EndsIn, Finished, IsRing
  <2>4. size \in 0..size /\ size' # 0
    BY <2>2 DEF Types
  <2>5. /\ Types' /\ Contents' = InsertAt(Contents, size + 1, d)
        /\ \E r : IsRing(r)' /\ r[size'] = IF size = size THEN n ELSE ring[size]
    BY <2>1, <2>2, <2>3, <2>4, InsertStep
  <2>6. \E r : IsRing(r)' /\ EndsAt(r)'
    BY <2>1, <2>2, <2>4, <2>5 DEF EndsAt
  <2> QED BY <2>2, <2>5, <2>6 DEF Becomes
<1> QED BY <1>1, <1>2

LEMMA InsertedBetween ==
  ASSUME IInv, NEW d \in Data, NEW position \in 1..size - 1, Finished, NEW before,
         before = NodeAt(position - 1), NEW n, PutAfter(before, n, d, node[before].p_next),
         size' = size + 1, p_head' = p_head, p_tail' = p_tail
  PROVE  Becomes(InsertAt(Contents, position + 1, d))
<1> PICK ring : IsRing(ring) /\ EndsIn(ring) /\ Types
  BY DEF IInv
<1>1. /\ size \in Nat /\ size # 0 /\ position # 0 /\ position # size /\ position \in 1..size
      /\ position \in 0..size /\ size' # 0 /\ After(position) = position + 1
  BY DEF Types, After
<1>2. before = ring[position] /\ node[before].p_next = ring[position + 1]
  <2>1. NodeAt(position - 1) = ring[position]
    BY <1>1, NodeAtOf
  <2>2. node[ring[position]].p_next = ring[After(position)]
    BY <1>1 DEF IsRing
  <2> QED BY <1>1, <2>1, <2>2
<1>3. /\ Types' /\ Contents' = InsertAt(Contents, position + 1, d)
      /\ \E r : IsRing(r)' /\ r[size'] = IF position = size THEN n ELSE ring[size]
  BY <1>1, <1>2, InsertStep
<1>4. p_tail = ring[size]
  BY <1>1 DEF EndsIn, Finished
<1>5. \E r : IsRing(r)' /\ EndsAt(r)'
  BY <1>1, <1>3, <1>4 DEF EndsAt
<1> QED BY <1>3, <1>5 DEF Becomes

LEMMA RemovedOnly ==
  ASSUME Types, NEW ring, IsRing(ring), RemoveOnly
  PROVE  Becomes(RemoveAt(Contents, 1)) /\ Contents' = << >> /\ Len(Contents) = 1
<1>1. size = 1 /\ p_head = ring[1] /\ ring[1] \in Node /\ node \in [Node -> NodeType]
  BY DEF RemoveOnly, IsRing, Types
<1>2. \A m \in Node : m # p_head => node[m] = Free
  <2>1. \A i \in 1..size : i = 1
    BY <1>1
  <2> QED BY <1>1, <2>1 DEF IsRing
<1>3. node' = [m \in Node |-> Free]
  BY <1>1, <1>2 DEF RemoveOnly
<1>4. IsBare'
  BY <1>3 DEF IsBare, RemoveOnly
<1>5. Becomes(<< >>)
  BY <1>4, BareBecomes
<1>6. RemoveAt(Contents, 1) = << >>
  <2>1. Contents \in Seq(Data) /\ Len(Contents) = 1
    BY <1>1, ContentsFacts
  <2> PICK s, t : s = Contents /\ t = << >>
    OBVIOUS
  <2>2. s \in Seq(Data) /\ t \in Seq(Data) /\ Len(t) = Len(s) - 1 /\ 0 \in 0..Len(s) - 1
        /\ (\A i \in 1..0 : t[i] = s[i]) /\ \A i \in 1..Len(t) : i > 0 => t[i] = s[i + 1]
    BY <2>1
  <2>3. t = RemoveAt(s, 0 + 1)
    BY <2>2, RemovedSeq
  <2> QED BY <2>3
<1>7. Len(Contents) = 1
  BY <1>1, ContentsFacts
<1> QED BY <1>5, <1>6, <1>7 DEF Becomes

LEMMA RemovedBegin ==
  ASSUME IInv, RemoveElementBegin
  PROVE  \/ size = 0 /\ Refuse("FAILURE")
         \/ size # 0 /\ returned' = "SUCCESS" /\ Becomes(RemoveAt(Contents, 1))
<1> PICK ring : IsRing(ring) /\ EndsIn(ring) /\ Types
  BY DEF IInv
<1>1. CASE p_head = NULL /\ Refuse("FAILURE")
  BY <1>1, HeadOf
<1>2. CASE RemoveOnly /\ returned' = "SUCCESS"
  BY <1>2, RemovedOnly DEF RemoveOnly
<1>3. CASE /\ size > 1 /\ Finished /\ RemoveAfter(p_tail) /\ p_head' = node[p_head].p_next
           /\ returned' = "SUCCESS" /\ p_tail' = p_tail
  <2>1. /\ 0 \in 0..size - 1 /\ size # 0 /\ 0 + 1 = 1 /\ size' # 0 /\ 0 # size - 1
    BY <1>3 DEF Types, RemoveAfter
  <2>2. p_tail = ring[size]
    BY <1>3, <2>1 DEF EndsIn, Finished
  <2>3. /\ Types' /\ Contents' = RemoveAt(Contents, 0 + 1)
        /\ \E r : IsRing(r)' /\ r[size'] = IF 0 = size - 1 THEN ring[0] ELSE ring[size]
    BY <1>3, <2>1, <2>2, RemoveStep
  <2>4. \E r : IsRing(r)' /\ EndsAt(r)'
    BY <1>3, <2>1, <2>2, <2>3 DEF EndsAt
  <2> QED BY <1>3, <2>1, <2>3, <2>4 DEF Becomes
<1> QED BY <1>1, <1>2, <1>3 DEF RemoveElementBegin

LEMMA RemovedAfter ==
  ASSUME Types, NEW ring, IsRing(ring), size > 1, NEW q \in 1..size - 1,
         NEW before, before = ring[q], RemoveAfter(before), p_head' = p_head,
         p_tail' = IF q = size - 1 THEN before ELSE ring[size]
  PROVE  Becomes(RemoveAt(Contents, q + 1))
<1>1. q \in 0..size - 1 /\ q # 0 /\ size' # 0
  BY DEF Types, RemoveAfter
<1>2. /\ Types' /\ Contents' = RemoveAt(Contents, q + 1)
      /\ \E r : IsRing(r)' /\ r[size'] = IF q = size - 1 THEN ring[q] ELSE ring[size]
  BY <1>1, RemoveStep
<1>3. \E r : IsRing(r)' /\ EndsAt(r)'
  BY <1>1, <1>2 DEF EndsAt
<1> QED BY <1>2, <1>3 DEF Becomes

LEMMA RemovedAt ==
  ASSUME IInv, NEW position \in Int, RemoveElement(position)
  PROVE  \/ position \notin 0..size - 1 /\ Refuse("FAILURE")
         \/ position \in 0..size - 1 /\ returned' = "SUCCESS"
            /\ Becomes(RemoveAt(Contents, position + 1))
<1> PICK ring : IsRing(ring) /\ EndsIn(ring) /\ Types
  BY DEF IInv
<1>1. CASE size = 0 /\ Refuse("FAILURE")
  BY <1>1
<1>2. CASE size # 0 /\ position \notin 0..size /\ Refuse("FAILURE")
  BY <1>2 DEF Types
<1>3. CASE size # 0 /\ position = 0 /\ RemoveElementBegin
  <2>1. position \in 0..size - 1 /\ position + 1 = 1
    BY <1>3 DEF Types
  <2> QED BY <1>3, <2>1, RemovedBegin
<1>4. CASE /\ position \in 1..size - 1 /\ Finished
           /\ RemoveAfter(NodeAt(position - 1))
           /\ p_tail' = TailAfterRemoval(position, NodeAt(position - 1))
           /\ returned' = "SUCCESS" /\ p_head' = p_head
  <2>1. position \in 0..size - 1 /\ position \in 1..size /\ size > 1 /\ size # 0
    BY <1>4 DEF Types
  <2>2. NodeAt(position - 1) = ring[position] /\ p_tail = ring[size]
    BY <1>4, <2>1, NodeAtOf DEF EndsIn, Finished
  <2>3. Becomes(RemoveAt(Contents, position + 1))
    BY <1>4, <2>1, <2>2, RemovedAfter DEF TailAfterRemoval
  <2> QED BY <1>4, <2>1, <2>3
<1> QED BY <1>1, <1>2, <1>3, <1>4 DEF RemoveElement

LEMMA Popped ==
  ASSUME IInv, ReturnElementEnd
  PROVE  \/ size = 0 /\ Refuse(NULL)
         \/ size # 0 /\ returned' = Last(Contents) /\ Becomes(Front(Contents))
<1> PICK ring : IsRing(ring) /\ EndsIn(ring) /\ Types
  BY DEF IInv
<1>1. /\ Len(Contents) = size /\ size \in Nat
      /\ \A i \in 1..size : Contents[i] = node[ring[i]].p_data
  BY ContentsFacts DEF Types
<1>2. CASE p_head = NULL /\ Refuse(NULL)
  BY <1>2, HeadOf
<1>3. CASE RemoveOnly /\ returned' = node[p_head].p_data
  <2>1. /\ Becomes(RemoveAt(Contents, 1)) /\ Contents' = << >> /\ size = 1
        /\ p_head = ring[1]
    BY <1>3, RemovedOnly DEF RemoveOnly, IsRing
  <2>2. Front(Contents) = << >>
    BY <1>1, <2>1, ContentsFacts DEF Front
  <2>3. Last(Contents) = node[p_head].p_data
    BY <1>1, <2>1 DEF Last
  <2> QED BY <1>3, <2>1, <2>2, <2>3 DEF Becomes
<1>4. CASE /\ size > 1 /\ Finished
           /\ \E before \in Allocated :
                node[before].p_next = p_tail /\ RemoveAfter(before) /\ p_tail' = before
           /\ returned' = node[p_tail].p_data /\ p_head' = p_head
  <2>1. PICK before \in Allocated :
          node[before].p_next = p_tail /\ RemoveAfter(before) /\ p_tail' = before
    BY <1>4
  <2>2. PICK q \in 1..size : before = ring[q]
    BY AllocatedOf
  <2>3. p_tail = ring[size] /\ size \in 1..size /\ node[ring[q]].p_next = ring[After(q)]
    BY <1>1, <1>4 DEF EndsIn, Finished, IsRing
  <2>4. After(q) \in 1..size
    BY <1>1, <1>4 DEF After
  <2>5. After(q) = size
    BY <2>1, <2>2, <2>3, <2>4 DEF IsRing
  <2>6. q = size - 1 /\ q \in 1..size - 1 /\ q + 1 = size
    BY <1>1, <1>4, <2>5 DEF After
  <2>7. Becomes(RemoveAt(Contents, size))
    <3>1. Becomes(RemoveAt(Contents, q + 1))
      BY <1>4, <2>1, <2>2, <2>6, RemovedAfter
    <3> QED BY <2>6, <3>1
  <2>8. RemoveAt(Contents, size) = Front(Contents)
    <3> PICK s : s = Contents
      OBVIOUS
    <3>1. s \in Seq(Data) /\ Len(s) = size /\ size \in Nat
      BY <1>1, ContentsFacts
    <3>2. SubSeq(s, size + 1, size) = << >>
      BY <3>1
    <3>3. SubSeq(s, 1, size - 1) \in Seq(Data)
      BY <3>1
    <3>4. SubSeq(s, 1, size - 1) \o << >> = SubSeq(s, 1, size - 1)
      BY <3>3, ConcatEmptySeq
    <3> QED BY <3>1, <3>2, <3>4 DEF RemoveAt, Front
  <2>9. Last(Contents) = node[p_tail].p_data
    BY <1>1, <2>3 DEF Last
  <2> QED BY <1>4, <2>7, <2>8, <2>9
<1> QED BY <1>2, <1>3, <1>4 DEF ReturnElementEnd

---------------------------------------------------------------------------
(* Sorting *)

\* a lists the nodes of N, each once.
Lists(a, k, N) ==
  /\ a \in [1..k -> N]
  /\ \A i, j \in 1..k : a[i] = a[j] => i = j
  /\ \A n \in N : \E i \in 1..k : a[i] = n

\* The places where a list has nodes with the data x, those nodes, the data of
\* the nodes in the order of the list, and their bag.
PlacesOf(a, k, D, x) == {i \in 1..k : D[a[i]] = x}
Having(N, D, x) == {n \in N : D[n] = x}
DataOf(a, k, D) == [i \in 1..k |-> D[a[i]]]
BagOfNodes(N, D) == [x \in {D[n] : n \in N} |-> Cardinality(Having(N, D, x))]

\* As many places have the data x as nodes have it.
LEMMA Places ==
  ASSUME NEW k \in Nat, NEW N, NEW a, Lists(a, k, N), NEW D, NEW x
  PROVE  Cardinality(PlacesOf(a, k, D, x)) = Cardinality(Having(N, D, x))
<1> DEFINE S == PlacesOf(a, k, D, x)
           T == Having(N, D, x)
           b == [i \in S |-> a[i]]
<1>1. IsFiniteSet(S)
  BY FS_Interval, FS_Subset DEF PlacesOf
<1>2. /\ b \in [S -> T] /\ \A i, j \in S : b[i] = b[j] => i = j
      /\ \A n \in T : \E i \in S : b[i] = n
  BY DEF Lists, PlacesOf, Having
<1> HIDE DEF S, T, b
<1>3. b \in Bijection(S, T)
  BY <1>2 DEF Bijection, Injection, Surjection, IsInjective
<1>4. Cardinality(S) = Cardinality(T)
  BY <1>1, <1>3, FS_Bijection DEF ExistsBijection
<1> QED BY <1>4 DEF S, T

LEMMA SameCardinality ==
  ASSUME NEW S
  PROVE  Abstract!Cardinality(S) = Cardinality(S)
BY Zenon DEF Abstract!Cardinality, Cardinality

\* So the bag of the data does not depend on the order of the nodes.
LEMMA BagOf ==
  ASSUME NEW k \in Nat, NEW N, NEW a, Lists(a, k, N), NEW D
  PROVE  Abstract!ToBag(DataOf(a, k, D)) = BagOfNodes(N, D)
<1> DEFINE s == DataOf(a, k, D)
           C(x) == Abstract!Cardinality({i \in DOMAIN s : s[i] = x})
           B(x) == Cardinality(Having(N, D, x))
           R == Abstract!Range(s)
           Q == {D[n] : n \in N}
<1>1. DOMAIN s = 1..k /\ \A i \in 1..k : s[i] = D[a[i]]
  BY DEF DataOf
<1> HIDE DEF s
<1>2. R = Q
  <2>1. R = {s[i] : i \in 1..k}
    BY <1>1 DEF Abstract!Range
  <2>2. \A i \in 1..k : a[i] \in N
    BY DEF Lists
  <2>3. \A n \in N : \E i \in 1..k : a[i] = n
    BY DEF Lists
  <2> QED BY <1>1, <2>1, <2>2, <2>3
<1>3. ASSUME NEW x
      PROVE  C(x) = B(x)
  <2>1. {i \in DOMAIN s : s[i] = x} = PlacesOf(a, k, D, x)
    BY <1>1 DEF PlacesOf
  <2>2. Cardinality(PlacesOf(a, k, D, x)) = B(x)
    BY Places
  <2>3. C(x) = Cardinality(PlacesOf(a, k, D, x))
    BY <2>1, SameCardinality
  <2> QED BY <2>2, <2>3
<1>4. Abstract!ToBag(s) = [x \in R |-> C(x)]
  BY DEF Abstract!ToBag
<1> HIDE DEF C, B, R, Q
<1>5. Abstract!ToBag(s) = [x \in Q |-> B(x)]
  BY <1>2, <1>3, <1>4
<1> QED BY <1>5 DEF B, Q, s, BagOfNodes

LEMMA AfterIsNext ==
  ASSUME Types, NEW i \in 1..size
  PROVE  (i % size) + 1 = After(i) /\ After(i) \in 1..size
<1>1. size \in Nat /\ size > 0 /\ i \in Nat /\ i <= size
  BY DEF Types
<1>2. CASE i = size
  <2>1. size % size = 0
    BY <1>1
  <2> QED BY <1>1, <1>2, <2>1 DEF After
<1>3. CASE i # size
  <2>1. i % size = i
    BY <1>1, <1>3
  <2> QED BY <1>1, <1>3, <2>1 DEF After
<1> QED BY <1>2, <1>3

LEMMA Sorted ==
  ASSUME IInv, p_head # NULL, SortElements,
         moved' = (node'[p_tail'].p_next # p_head')
  PROVE  /\ returned' = "SUCCESS" /\ IInv'
         /\ Abstract!ToBag(Contents') = Abstract!ToBag(Contents)
         /\ \A i, j \in 1..Len(Contents') :
              i < j => Char[Contents'[i]] <= Char[Contents'[j]]
         /\ Contents' \in Seq(Data)
<1> PICK old : IsRing(old) /\ EndsIn(old) /\ Types
  BY DEF IInv
<1>1. size \in Nat /\ size # 0 /\ 1 \in 1..size /\ size \in 1..size
  BY HeadOf DEF Types
<1> PICK s, c : s = Walk(size) /\ c = MergeSort[s]
  OBVIOUS
<1>2. /\ s = [i \in 1..size |-> old[i]] /\ s \in Seq(Node) /\ Len(s) = size
      /\ s \in [1..size -> Node] /\ \A i \in 1..size : s[i] = old[i]
  <2>1. s = [i \in 1..size |-> old[i]]
    BY <1>1, WalkOf
  <2>2. \A i \in 1..size : old[i] \in Node
    BY DEF IsRing
  <2> QED BY <1>1, <2>1, <2>2
<1>3. IsArranged(c, s)
  BY <1>2, MergeSortCorrect
<1>4. Distinct(s) /\ Keyed(Nodes(s))
  <2>1. Distinct(s)
    BY <1>2 DEF Distinct, IsRing
  <2>2. \A i \in 1..size : node[old[i]].p_data \in Data
    BY DEF IsRing
  <2>3. Keyed(Nodes(s))
    <3>1. \A n \in Nodes(s) : \E i \in 1..size : n = old[i]
      BY <1>2 DEF Nodes
    <3>2. \A d \in Data : Char[d] \in Int
      BY CharOK
    <3> QED BY <2>2, <3>1, <3>2 DEF Keyed, Key
  <2> QED BY <2>1, <2>3
<1>5. /\ c \in Seq(Node) /\ Len(c) = size /\ Nodes(c) = Nodes(s) /\ Distinct(c) /\ InOrder(c)
  BY <1>2, <1>3, <1>4 DEF IsArranged
<1>6. c \in [1..size -> Node] /\ \A i, j \in 1..size : c[i] = c[j] => i = j
  BY <1>5 DEF Distinct
<1>7. /\ \A i \in 1..size : c[i] \in Nodes(s) /\ s[i] \in Nodes(s)
      /\ \A n \in Nodes(s) : (\E i \in 1..size : c[i] = n) /\ \E i \in 1..size : s[i] = n
  <2>1. /\ \A i \in 1..size : s[i] \in Nodes(s)
        /\ \A n \in Nodes(s) : \E i \in 1..size : s[i] = n
    BY <1>2 DEF Nodes
  <2>2. /\ \A i \in 1..size : c[i] \in Nodes(c)
        /\ \A n \in Nodes(c) : \E i \in 1..size : c[i] = n
    BY <1>5 DEF Nodes
  <2> QED BY <1>5, <2>1, <2>2
<1>8. \A i \in 1..size : (\E j \in 1..size : c[i] = old[j]) /\ \E j \in 1..size : old[i] = c[j]
  <2>1. ASSUME NEW i \in 1..size
        PROVE  \E j \in 1..size : c[i] = old[j]
    <3>1. PICK j \in 1..size : s[j] = c[i]
      BY <1>7
    <3> QED BY <1>2, <3>1
  <2>2. ASSUME NEW i \in 1..size
        PROVE  \E j \in 1..size : old[i] = c[j]
    <3>1. old[i] = s[i] /\ s[i] \in Nodes(s)
      BY <1>2, <1>7
    <3>2. PICK j \in 1..size : c[j] = s[i]
      BY <1>7, <3>1
    <3> QED BY <3>1, <3>2
  <2> QED BY <2>1, <2>2
<1>9. /\ p_head' = c[1] /\ p_tail' = p_tail /\ size' = size /\ returned' = "SUCCESS"
  BY DEF SortElements
<1>19. node' = [n \in Node |->
           IF \E i \in 1..size : c[i] = n
           THEN LET i == CHOOSE i \in 1..size : c[i] = n
                IN  [node[n] EXCEPT !.p_next = c[(i % size) + 1]]
           ELSE node[n]]
  BY DEF SortElements
<1>10. ASSUME NEW i \in 1..size
       PROVE  /\ node'[c[i]].p_data = node[c[i]].p_data
              /\ node'[c[i]].p_next = c[After(i)]
              /\ node'[c[i]] \in NodeType /\ node[c[i]].p_data \in Data
  <2> PICK k : k = CHOOSE j \in 1..size : c[j] = c[i]
    OBVIOUS
  <2>1. k = i
    BY <1>6
  <2>2. node'[c[i]] = [node[c[i]] EXCEPT !.p_next = c[(k % size) + 1]]
    BY <1>6, <1>19
  <2>3. (k % size) + 1 = After(i) /\ After(i) \in 1..size
    BY <2>1, AfterIsNext
  <2>4. node[c[i]] \in NodeType /\ c[After(i)] \in Node
    BY <1>6, <2>3 DEF Types
  <2>5. node[c[i]].p_data \in Data
    BY <1>8 DEF IsRing
  <2> QED BY <2>2, <2>3, <2>4, <2>5 DEF NodeType
<1>11. ASSUME NEW m \in Node, \A i \in 1..size : c[i] # m
       PROVE  node'[m] = node[m] /\ node[m] = Free
  <2>1. node'[m] = node[m]
    BY <1>11, <1>19
  <2>2. \A i \in 1..size : old[i] # m
    BY <1>8, <1>11
  <2> QED BY <2>1, <2>2 DEF IsRing
<1>12. Types'
  <2>1. \A m \in Node : node'[m] \in NodeType
    BY <1>10, <1>11 DEF NodeType, Free
  <2>2. node' = [m \in Node |-> node'[m]]
    BY <1>19
  <2> QED BY <1>1, <1>9, <2>1, <2>2 DEF Types
<1>13. IsRing(c)'
  <2>1. \A i \in 1..size : After(i)' = After(i)
    BY <1>9 DEF After
  <2>2. \A i \in 1..size :
          node'[c[i]].p_data \in Data /\ node'[c[i]].p_next = c[After(i)']
    BY <1>10, <2>1
  <2>3. \A m \in Node : (\A i \in 1..size : c[i] # m) => node'[m] = Free
    BY <1>11
  <2> QED BY <1>1, <1>6, <1>9, <2>2, <2>3 DEF IsRing
<1>14. EndsIn(c)'
  <2>1. PICK i \in 1..size : p_tail = c[i]
    BY <1>1, <1>8 DEF EndsIn
  <2>2. ASSUME ~moved'
        PROVE  i = size
    <3>1. c[After(i)] = c[1]
      <4>1. node'[p_tail'].p_next = p_head'
        BY <2>2
      <4>2. node'[c[i]].p_next = c[After(i)]
        BY <1>10
      <4> QED BY <1>9, <2>1, <4>1, <4>2
    <3>2. After(i) \in 1..size
      BY AfterIsNext
    <3>3. After(i) = 1
      BY <1>1, <1>6, <3>1, <3>2
    <3> QED BY <1>1, <3>3 DEF After
  <2> QED BY <1>1, <1>9, <2>1, <2>2 DEF EndsIn
<1>15. IInv'
  BY <1>12, <1>13, <1>14 DEF IInv
<1>16. /\ Contents' \in Seq(Data) /\ Len(Contents') = size
       /\ \A i \in 1..size : Contents'[i] = node'[c[i]].p_data
  <2>1. (Types /\ IsRing(c))'
    BY <1>12, <1>13
  <2>2. /\ Contents' \in Seq(Data) /\ Len(Contents') = size'
        /\ \A i \in 1..size' : Contents'[i] = node'[c[i]].p_data
    BY <2>1, ContentsFactsNext
  <2> QED BY <1>9, <2>2
<1>17. ASSUME NEW i \in 1..Len(Contents'), NEW j \in 1..Len(Contents'), i < j
       PROVE  Char[Contents'[i]] <= Char[Contents'[j]]
  <2>1. /\ Contents'[i] = node[c[i]].p_data /\ Contents'[j] = node[c[j]].p_data
        /\ i \in 1..Len(c) /\ j \in 1..Len(c)
    BY <1>5, <1>10, <1>16
  <2> QED BY <1>5, <1>17, <2>1 DEF InOrder, Key
<1>18. Abstract!ToBag(Contents') = Abstract!ToBag(Contents)
  <2> PICK D : D = [n \in Node |-> node[n].p_data]
    OBVIOUS
  <2>1. Contents = DataOf(s, size, D)
    <3>1. Contents = [i \in 1..size |-> node[old[i]].p_data]
      BY ContentsOf
    <3>2. \A i \in 1..size : D[s[i]] = node[old[i]].p_data
      BY <1>2
    <3> QED BY <3>1, <3>2 DEF DataOf
  <2>2. Contents' = DataOf(c, size, D)
    <3>1. Contents' = [i \in 1..size |-> Contents'[i]]
      BY <1>16
    <3>2. \A i \in 1..size : D[c[i]] = Contents'[i]
      BY <1>6, <1>10, <1>16
    <3> QED BY <3>1, <3>2 DEF DataOf
  <2>3. Lists(s, size, Nodes(s))
    <3>1. \A i, j \in 1..size : s[i] = s[j] => i = j
      BY <1>2, <1>4 DEF Distinct
    <3> QED BY <1>2, <1>7, <3>1 DEF Lists
  <2>4. Lists(c, size, Nodes(s))
    BY <1>6, <1>7 DEF Lists
  <2>5. /\ Abstract!ToBag(DataOf(s, size, D)) = BagOfNodes(Nodes(s), D)
        /\ Abstract!ToBag(DataOf(c, size, D)) = BagOfNodes(Nodes(s), D)
    BY <1>1, <2>3, <2>4, BagOf
  <2> QED BY <2>1, <2>2, <2>5
<1> QED BY <1>9, <1>15, <1>16, <1>17, <1>18

---------------------------------------------------------------------------
(* The invariant, and the refinement *)

LEMMA BecomesInv ==
  ASSUME NEW s, Becomes(s)
  PROVE  IInv' /\ Contents' = s
<1> PICK r : IsRing(r)' /\ EndsAt(r)'
  BY DEF Becomes
<1>1. Types' /\ Contents' = s
  BY DEF Becomes
<1>2. size' # 0 => size' \in 1..size'
  BY <1>1 DEF Types
<1>3. EndsIn(r)'
  BY <1>2 DEF EndsIn, EndsAt
<1> QED BY <1>1, <1>3 DEF IInv

LEMMA RefusedInv ==
  ASSUME IInv, NEW result, Refuse(result), moved' = moved
  PROVE  IInv' /\ Contents' = Contents /\ returned' = result
<1>1. /\ p_head' = p_head /\ p_tail' = p_tail /\ size' = size /\ node' = node
      /\ returned' = result
  BY DEF Refuse
<1>2. Contents' = Contents
  BY <1>1 DEF Contents, Walk
<1>3. IInv'
  BY <1>1 DEF IInv, Types, IsRing, EndsIn, After
<1> QED BY <1>1, <1>2, <1>3

LEMMA SizeFacts ==
  ASSUME IInv
  PROVE  /\ size \in Nat /\ Contents \in Seq(Data) /\ Len(Contents) = size
         /\ Position \subseteq Int /\ 0..size \subseteq Position
         /\ size \in Position /\ size - 1 \in Position /\ 0 \in Position
         /\ p_head = NULL <=> size = 0
         /\ Contents = << >> <=> size = 0
<1> PICK ring : IsRing(ring) /\ EndsIn(ring) /\ Types
  BY DEF IInv
<1>1. size \in Nat /\ size <= Cardinality(Node) /\ Cardinality(Node) \in Nat
  BY SizeBound DEF Types
<1>2. /\ Position \subseteq Int /\ 0..size \subseteq Position
      /\ size \in Position /\ size - 1 \in Position /\ 0 \in Position
  BY <1>1 DEF Position
<1> QED BY <1>1, <1>2, ContentsFacts, HeadOf

\* An insertion that succeeds is one of the sequence.
LEMMA InsertRefines ==
  ASSUME IInv, NEW d \in Data, NEW q \in 0..size, returned' = "SUCCESS",
         Becomes(InsertAt(Contents, q + 1, d)), call' = <<"insert", q, d>>
  PROVE  IInv' /\ Abstract!Next
<1>1. IInv' /\ Contents' = InsertAt(Contents, q + 1, d)
  BY BecomesInv
<1>2. q \in 0..Len(Contents) /\ q \in Position
  BY SizeFacts
<1>3. Abstract!Insert(q, d)
  BY <1>1, <1>2 DEF Abstract!Insert, Abstract!InsertAt, InsertAt
<1> QED BY <1>1, <1>2, <1>3 DEF Abstract!Next

\* So is a removal, and one that fails.
LEMMA RemoveRefines ==
  ASSUME IInv, NEW position \in Position, call' = <<"remove", position>>,
         moved' = moved,
         \/ position \notin 0..size - 1 /\ Refuse("FAILURE")
         \/ position \in 0..size - 1 /\ returned' = "SUCCESS"
            /\ Becomes(RemoveAt(Contents, position + 1))
  PROVE  IInv' /\ Abstract!Next
<1>1. Len(Contents) = size
  BY SizeFacts
<1>2. CASE position \notin 0..size - 1 /\ Refuse("FAILURE")
  <2>1. IInv' /\ Contents' = Contents /\ returned' = "FAILURE"
    BY <1>2, RefusedInv
  <2>2. Abstract!RemovePosition(position)
    BY <1>1, <1>2, <2>1 DEF Abstract!RemovePosition, Abstract!Returns
  <2> QED BY <2>1, <2>2 DEF Abstract!Next
<1>3. CASE position \in 0..size - 1 /\ returned' = "SUCCESS"
           /\ Becomes(RemoveAt(Contents, position + 1))
  <2>1. IInv' /\ Contents' = RemoveAt(Contents, position + 1)
    BY <1>3, BecomesInv
  <2>2. Abstract!RemovePosition(position)
    BY <1>1, <1>3, <2>1 DEF Abstract!RemovePosition, Abstract!RemoveAt, RemoveAt
  <2> QED BY <2>1, <2>2 DEF Abstract!Next
<1> QED BY <1>2, <1>3

\* Every call is one of the sequence, and keeps the invariant.
LEMMA CallRefines ==
  ASSUME IInv, Next
  PROVE  IInv' /\ Abstract!Next
<1>1. /\ size \in Nat /\ Contents \in Seq(Data) /\ Len(Contents) = size
      /\ Position \subseteq Int /\ 0..size \subseteq Position
      /\ size \in Position /\ size - 1 \in Position /\ 0 \in Position
      /\ p_head = NULL <=> size = 0
      /\ Contents = << >> <=> size = 0
  BY SizeFacts
<1>2. /\ call'[1] # "sort" => moved' = moved
      /\ p_head' = NULL => moved' = moved
      /\ call'[1] = "sort" /\ p_head' # NULL => moved' = (node'[p_tail'].p_next # p_head')
  BY DEF Next
<1>3. ASSUME NEW d \in Data, InsertElementBegin(d), call' = <<"insert", 0, d>>
      PROVE  IInv' /\ Abstract!Next
  <2>1. returned' = "SUCCESS" /\ Becomes(InsertAt(Contents, 0 + 1, d)) /\ 0 \in 0..size
    <3>1. 0 + 1 = 1 /\ 0 \in 0..size
      BY <1>1
    <3> QED BY <1>3, <3>1, InsertedBegin
  <2> QED BY <1>3, <2>1, InsertRefines
<1>4. ASSUME NEW d \in Data, InsertElementEnd(d), call' = <<"insert", size, d>>
      PROVE  IInv' /\ Abstract!Next
  <2>1. returned' = "SUCCESS" /\ Becomes(InsertAt(Contents, size + 1, d))
    BY <1>4, InsertedEnd
  <2>2. size \in 0..size
    BY <1>1
  <2> QED BY <1>4, <2>1, <2>2, InsertRefines
<1>5. ASSUME NEW d \in Data, NEW position \in Position, InsertElement(d, position),
             call' = <<"insert", IF size = 0 THEN 0 ELSE position, d>>
      PROVE  IInv' /\ Abstract!Next
  <2>1. CASE size # 0 /\ position \notin 0..size /\ Refuse("FAILURE")
    <3>1. call' = <<"insert", position, d>> /\ call'[1] # "sort"
      BY <1>5, <2>1
    <3>2. IInv' /\ Contents' = Contents /\ returned' = "FAILURE"
      BY <1>2, <2>1, <3>1, RefusedInv
    <3>3. Abstract!Insert(position, d)
      BY <1>1, <2>1, <3>1, <3>2 DEF Abstract!Insert, Abstract!Returns
    <3> QED BY <3>2, <3>3 DEF Abstract!Next
  <2>2. CASE size # 0 /\ position = 0 /\ InsertElementBegin(d)
    BY <1>3, <1>5, <2>2
  <2>3. CASE size # 0 /\ position = size /\ InsertElementEnd(d)
    BY <1>4, <1>5, <2>3
  <2>4. CASE size = 0 /\ EmptyListAdd(d)
    <3>1. InsertElementBegin(d) /\ call' = <<"insert", 0, d>>
      BY <1>5, <2>4 DEF InsertElementBegin
    <3> QED BY <1>3, <3>1
  <2>5. CASE /\ position \in 1..size - 1 /\ Finished
             /\ \E n \in Node : PutAfter(NodeAt(position - 1), n, d,
                                         node[NodeAt(position - 1)].p_next)
             /\ size' = size + 1 /\ returned' = "SUCCESS"
             /\ p_head' = p_head /\ p_tail' = p_tail
    <3>1. Becomes(InsertAt(Contents, position + 1, d))
      BY <2>5, InsertedBetween
    <3>2. position \in 0..size /\ size # 0
      BY <1>1, <2>5
    <3>3. call' = <<"insert", position, d>>
      BY <1>5, <3>2
    <3> QED BY <2>5, <3>1, <3>2, <3>3, InsertRefines
  <2> QED BY <1>5, <2>1, <2>2, <2>3, <2>4, <2>5 DEF InsertElement
<1>6. ASSUME NEW position \in Position, RemoveElement(position),
             call' = <<"remove", position>>
      PROVE  IInv' /\ Abstract!Next
  <2>1. moved' = moved /\ position \in Int
    BY <1>1, <1>2, <1>6
  <2> QED BY <1>6, <2>1, RemovedAt, RemoveRefines
<1>7. ASSUME NEW position \in Position, ReturnElement(position),
             call' = <<"return", position>>
      PROVE  IInv' /\ Abstract!Next
  <2> DEFINE v == IF position \in 0..size - 1 THEN node[NodeAt(position)].p_data ELSE NULL
  <2>1. moved' = moved /\ Refuse(v)
    BY <1>2, <1>7 DEF ReturnElement
  <2> HIDE DEF v
  <2>2. IInv' /\ Contents' = Contents /\ returned' = v
    BY <2>1, RefusedInv
  <2>3. v = IF position \in 0..Len(Contents) - 1 THEN Contents[position + 1] ELSE NULL
    <3>1. CASE position \in 0..size - 1
      <4> PICK ring : IsRing(ring) /\ Types
        BY DEF IInv
      <4>1. position + 1 \in 1..size /\ (position + 1) - 1 = position
        BY <1>1, <3>1
      <4>2. NodeAt(position) = ring[position + 1]
        <5>1. NodeAt((position + 1) - 1) = ring[position + 1]
          BY <4>1, NodeAtOf
        <5> QED BY <4>1, <5>1
      <4>3. Contents[position + 1] = node[ring[position + 1]].p_data
        BY <4>1, ContentsFacts
      <4> QED BY <1>1, <3>1, <4>2, <4>3 DEF v
    <3>2. CASE position \notin 0..size - 1
      BY <1>1, <3>2 DEF v
    <3> QED BY <3>1, <3>2
  <2>4. Abstract!Return(position)
    BY <1>7, <2>2, <2>3 DEF Abstract!Return, Abstract!Returns
  <2> QED BY <2>2, <2>4 DEF Abstract!Next
<1>8. CASE RemoveElementBegin /\ call' = <<"remove", 0>>
  <2>1. moved' = moved /\ (size # 0 => 0 \in 0..size - 1) /\ (size = 0 => 0 \notin 0..size - 1)
        /\ 0 + 1 = 1
    BY <1>1, <1>2, <1>8
  <2>2. \/ size = 0 /\ Refuse("FAILURE")
        \/ size # 0 /\ returned' = "SUCCESS" /\ Becomes(RemoveAt(Contents, 1))
    BY <1>8, RemovedBegin
  <2>3. \/ 0 \notin 0..size - 1 /\ Refuse("FAILURE")
        \/ 0 \in 0..size - 1 /\ returned' = "SUCCESS" /\ Becomes(RemoveAt(Contents, 0 + 1))
    BY <2>1, <2>2
  <2> QED BY <1>1, <1>8, <2>1, <2>3, RemoveRefines
<1>9. CASE RemoveElementEnd /\ call' = <<"remove", size - 1>>
  BY <1>1, <1>6, <1>9 DEF RemoveElementEnd
<1>10. CASE ReturnElementEnd /\ call' = <<"pop">>
  <2>1. moved' = moved
    BY <1>2, <1>10
  <2>2. CASE size = 0 /\ Refuse(NULL)
    <3>1. IInv' /\ Contents' = Contents /\ returned' = NULL
      BY <2>1, <2>2, RefusedInv
    <3> QED BY <1>1, <1>10, <2>2, <3>1 DEF Abstract!Next, Abstract!Pop, Abstract!Returns
  <2>3. CASE size # 0 /\ returned' = Last(Contents) /\ Becomes(Front(Contents))
    <3>1. IInv' /\ Contents' = Front(Contents)
      BY <2>3, BecomesInv
    <3>2. Abstract!Pop
      BY <1>1, <1>10, <2>3, <3>1
         DEF Abstract!Pop, Abstract!Front, Abstract!Last, Front, Last
    <3> QED BY <3>1, <3>2 DEF Abstract!Next
  <2> QED BY <1>10, <2>2, <2>3, Popped
<1>11. CASE SortElements /\ call' = <<"sort">>
  <2>1. CASE p_head = NULL /\ Refuse("FAILURE")
    <3>1. moved' = moved
      BY <1>2, <2>1 DEF Refuse
    <3>2. IInv' /\ Contents' = Contents /\ returned' = "FAILURE"
      BY <2>1, <3>1, RefusedInv
    <3> QED BY <1>1, <1>11, <2>1, <3>2 DEF Abstract!Next, Abstract!Sort, Abstract!Returns
  <2>2. CASE p_head # NULL
    <3>1. p_head' # NULL
      <4>1. p_head' = MergeSort[Walk(size)][1]
        BY <1>11, <2>2 DEF SortElements
      <4> PICK ring : IsRing(ring) /\ Types
        BY DEF IInv
      <4>2. Walk(size) = [i \in 1..size |-> ring[i]] /\ \A i \in 1..size : ring[i] \in Node
        BY <1>1, WalkOf DEF IsRing
      <4>3. Walk(size) \in Seq(Node) /\ Len(Walk(size)) = size
        BY <1>1, <4>2
      <4>4. /\ MergeSort[Walk(size)] \in Seq(Node) /\ Len(MergeSort[Walk(size)]) = size
        BY <4>3, MergeSortCorrect DEF IsArranged
      <4>5. p_head' \in Node
        BY <1>1, <2>2, <4>1, <4>4
      <4> QED BY <4>5, MemoryOK
    <3>2. moved' = (node'[p_tail'].p_next # p_head')
      BY <1>2, <1>11, <3>1
    <3>3. /\ returned' = "SUCCESS" /\ IInv'
          /\ Abstract!ToBag(Contents') = Abstract!ToBag(Contents)
          /\ \A i, j \in 1..Len(Contents') :
               i < j => Char[Contents'[i]] <= Char[Contents'[j]]
          /\ Contents' \in Seq(Data)
      BY <1>11, <2>2, <3>2, Sorted
    <3>4. Abstract!IsSorted([i \in DOMAIN Contents' |-> Char[Contents'[i]]], <=)
      BY <3>3 DEF Abstract!IsSorted
    <3>5. Abstract!Sort
      BY <1>1, <1>11, <2>2, <3>3, <3>4 DEF Abstract!Sort
    <3> QED BY <3>3, <3>5 DEF Abstract!Next
  <2> QED BY <1>11, <2>1, <2>2 DEF SortElements
<1>12. CASE Destroy /\ call' = <<"destroy">>
  <2>1. IsBare' /\ returned' = "SUCCESS"
    BY <1>12 DEF Destroy, IsBare
  <2>2. IInv' /\ Contents' = << >>
    BY <2>1, BareBecomes, BecomesInv
  <2> QED BY <1>12, <2>1, <2>2 DEF Abstract!Next, Abstract!Destroy
<1>13. Call
  BY DEF Next
<1>14. CASE \E d \in Data :
              \/ InsertElementBegin(d) /\ call' = <<"insert", 0, d>>
              \/ InsertElementEnd(d) /\ call' = <<"insert", size, d>>
              \/ \E position \in Position :
                   /\ InsertElement(d, position)
                   /\ call' = <<"insert", IF size = 0 THEN 0 ELSE position, d>>
  BY <1>3, <1>4, <1>5, <1>14
<1>15. CASE \E position \in Valid :
              \/ RemoveElement(position) /\ call' = <<"remove", position>>
              \/ ReturnElement(position) /\ call' = <<"return", position>>
  BY <1>6, <1>7, <1>15 DEF Valid
<1> QED BY <1>8, <1>9, <1>10, <1>11, <1>12, <1>13, <1>14, <1>15 DEF Call

LEMMA InitRefines ==
  ASSUME Init
  PROVE  IInv /\ Abstract!Init
<1> PICK r : r = << >>
  OBVIOUS
<1>1. Types /\ Contents = << >> /\ IsRing(r) /\ EndsAt(r)
  BY BareRing DEF Init, IsBare
<1>2. EndsIn(r)
  BY <1>1 DEF Init, EndsIn, EndsAt
<1> QED BY <1>1, <1>2 DEF IInv, Init, Abstract!Init

\* Whatever calls come one after the other, the links make one ring of all the
\* nodes that are allocated, p_head points into it, and so does p_tail, which is
\* its end as long as no sort has moved that: cll_insert_element, cll_remove_element,
\* cll_return_element_end, cll_sort and cll_destroy.
THEOREM Invariance == Spec => []IInv
<1>1. Init => IInv
  BY InitRefines
<1>2. IInv /\ [Next]_vars => IInv'
  <2> SUFFICES ASSUME IInv, [Next]_vars  PROVE IInv'
    OBVIOUS
  <2>1. CASE Next
    BY <2>1, CallRefines
  <2>2. CASE UNCHANGED vars
    BY <2>2 DEF vars, IInv, Types, IsRing, EndsIn, After
  <2> QED BY <2>1, <2>2
<1> QED BY <1>1, <1>2, PTL DEF Spec

\* No node is leaked, lost from the ring or still in it when it is freed: the ring
\* from p_head closes after size nodes, which are those that are allocated.
THEOREM RingStaysClosed == Spec => []RingClosed
<1>1. IInv => RingClosed
  <2> SUFFICES ASSUME IInv  PROVE RingClosed
    OBVIOUS
  <2> PICK ring : IsRing(ring) /\ EndsIn(ring) /\ Types
    BY DEF IInv
  <2> DEFINE w == Walk(size)
  <2>1. w = [i \in 1..size |-> ring[i]] /\ size \in Nat
    BY WalkOf DEF Types
  <2>2. Allocated = {ring[i] : i \in 1..size} /\ Cardinality(Allocated) = size
    BY AllocatedOf
  <2> HIDE DEF w
  <2>3. Allocated = {w[i] : i \in 1..size}
    BY <2>1, <2>2
  <2>4. size > 0 => node[w[size]].p_next = p_head
    <3>1. size > 0 => size \in 1..size /\ After(size) = 1 /\ size # 0
      BY <2>1 DEF After
    <3> QED BY <2>1, <3>1 DEF IsRing
  <2> QED BY <2>2, <2>3, <2>4 DEF RingClosed, w
<1> QED BY <1>1, Invariance, PTL

\* The list is a sequence: each call returns and leaves what that call of a
\* sequence would, wherever in the ring it takes place, and a sort leaves the
\* same data in the order of their first char (cll_merge, cll_merge_sort).
THEOREM IsSequence == Spec => ListIsSequence
<1>1. Init => Abstract!Init
  BY InitRefines
<1>2. IInv /\ [Next]_vars => [Abstract!Next]_(Abstract!vars)
  <2> SUFFICES ASSUME IInv, [Next]_vars  PROVE Abstract!Next \/ UNCHANGED Abstract!vars
    OBVIOUS
  <2>1. CASE Next
    BY <2>1, CallRefines
  <2>2. CASE UNCHANGED vars
    BY <2>2 DEF vars, Abstract!vars, Contents, Walk
  <2> QED BY <2>1, <2>2
<1> QED BY <1>1, <1>2, Invariance, PTL DEF Spec, ListIsSequence, Abstract!Spec
---------------------------------------------------------------------------
(* The containers side by side *)

LineProofs == INSTANCE QueueProofs WITH
  p_head <- q_head, p_tail <- q_tail, size <- q_size, node <- q_node,
  call <- queue_call, returned <- queue_returned
TableProofs == INSTANCE HTableProofs WITH
  call <- table_call, returned <- table_returned

\* What the theorems of QueueProofs are about is the queue of MCContainers ...
LEMMA LineIs ==
  /\ LineProofs!Memory
  /\ LineProofs!Init <=> Line!Init
  /\ [LineProofs!Next]_(LineProofs!vars) <=> [Line!Next]_(Line!vars)
  /\ LineProofs!Abstract!Init <=> Line!Abstract!Init
  /\ [LineProofs!Abstract!Next]_(LineProofs!Abstract!vars)
       <=> [Line!Abstract!Next]_(Line!Abstract!vars)
<1>1. LineProofs!Memory
  BY MemoryOK DEF LineProofs!Memory, LineProofs!IsFiniteSet, IsFiniteSet
<1>2. LineProofs!Init <=> Line!Init
  BY DEF LineProofs!Init, LineProofs!Free, Line!Init, Line!Free
<1>3. LineProofs!Next <=> Line!Next
  BY DEF LineProofs!Next, LineProofs!Enqueue, LineProofs!Dequeue, LineProofs!TakeLast,
         LineProofs!Peek, LineProofs!FullDestroy, LineProofs!Allocated, LineProofs!Free,
         LineProofs!BeforeLast, LineProofs!LastData,
         Line!Next, Line!Enqueue, Line!Dequeue, Line!TakeLast, Line!Peek,
         Line!FullDestroy, Line!Allocated, Line!Free, Line!BeforeLast, Line!LastData
<1>4. LineProofs!vars = Line!vars /\ LineProofs!vars' = Line!vars'
  BY DEF LineProofs!vars, Line!vars
<1>5. LineProofs!Contents = Line!Contents
  BY DEF LineProofs!Contents, Line!Contents
<1>6. LineProofs!Contents' = Line!Contents'
  BY DEF LineProofs!Contents, Line!Contents
<1>7. LineProofs!Abstract!Init <=> Line!Abstract!Init
  BY <1>5 DEF LineProofs!Abstract!Init, Line!Abstract!Init
<1>8. LineProofs!Abstract!vars = Line!Abstract!vars
      /\ LineProofs!Abstract!vars' = Line!Abstract!vars'
  BY <1>5, <1>6 DEF LineProofs!Abstract!vars, Line!Abstract!vars
<1>9. LineProofs!Cardinality(Node) = Line!Cardinality(Node)
  BY DEF LineProofs!Cardinality, Line!Cardinality
<1>10. LineProofs!Abstract!Next <=> Line!Abstract!Next
  <2>1. \A p, d : LineProofs!Abstract!Insert(p, d) <=> Line!Abstract!Insert(p, d)
    BY <1>5, <1>6 DEF LineProofs!Abstract!Insert, Line!Abstract!Insert,
       LineProofs!Abstract!Returns, Line!Abstract!Returns,
       LineProofs!Abstract!InsertAt, Line!Abstract!InsertAt
  <2>2. \A p : LineProofs!Abstract!RemovePosition(p) <=> Line!Abstract!RemovePosition(p)
    BY <1>5, <1>6 DEF LineProofs!Abstract!RemovePosition, Line!Abstract!RemovePosition,
       LineProofs!Abstract!Returns, Line!Abstract!Returns,
       LineProofs!Abstract!RemoveAt, Line!Abstract!RemoveAt
  <2>3. \A p : LineProofs!Abstract!Return(p) <=> Line!Abstract!Return(p)
    BY <1>5, <1>6 DEF LineProofs!Abstract!Return, Line!Abstract!Return,
       LineProofs!Abstract!Returns, Line!Abstract!Returns
  <2>4. LineProofs!Abstract!Pop <=> Line!Abstract!Pop
    BY <1>5, <1>6 DEF LineProofs!Abstract!Pop, Line!Abstract!Pop,
       LineProofs!Abstract!Returns, Line!Abstract!Returns,
       LineProofs!Abstract!Front, Line!Abstract!Front,
       LineProofs!Abstract!Last, Line!Abstract!Last
  <2>5. LineProofs!Abstract!Sort <=> Line!Abstract!Sort
    <3>1. \A s : LineProofs!Abstract!ToBag(s) = Line!Abstract!ToBag(s)
      BY DEF LineProofs!Abstract!ToBag, Line!Abstract!ToBag, LineProofs!Abstract!Range,
         Line!Abstract!Range, LineProofs!Abstract!Cardinality, Line!Abstract!Cardinality
    <3>2. LineProofs!Abstract!ToBag(LineProofs!Contents')
            = LineProofs!Abstract!ToBag(LineProofs!Contents)
          <=> Line!Abstract!ToBag(Line!Contents') = Line!Abstract!ToBag(Line!Contents)
      BY <1>5, <1>6, <3>1
    <3>3. LineProofs!Abstract!IsSorted(
              [i \in DOMAIN LineProofs!Contents' |-> [d \in Data |-> 0][LineProofs!Contents'[i]]],
              <=)
          <=> Line!Abstract!IsSorted(
              [i \in DOMAIN Line!Contents' |-> [d \in Data |-> 0][Line!Contents'[i]]], <=)
      BY <1>6 DEF LineProofs!Abstract!IsSorted, Line!Abstract!IsSorted
    <3> QED BY <1>5, <1>6, <3>2, <3>3 DEF LineProofs!Abstract!Sort, Line!Abstract!Sort,
       LineProofs!Abstract!Returns, Line!Abstract!Returns,
       LineProofs!Abstract!IsSorted, Line!Abstract!IsSorted
  <2>6. LineProofs!Abstract!Destroy <=> Line!Abstract!Destroy
    BY <1>5, <1>6 DEF LineProofs!Abstract!Destroy, Line!Abstract!Destroy
  <2> QED BY <1>9, <2>1, <2>2, <2>3, <2>4, <2>5, <2>6
          DEF LineProofs!Abstract!Next, Line!Abstract!Next
<1>11. [LineProofs!Next]_(LineProofs!vars) <=> [Line!Next]_(Line!vars)
  BY <1>3, <1>4, Zenon
<1>12. [LineProofs!Abstract!Next]_(LineProofs!Abstract!vars)
         <=> [Line!Abstract!Next]_(Line!Abstract!vars)
  BY <1>8, <1>10, Zenon
<1> QED BY <1>1, <1>2, <1>7, <1>11, <1>12

\* ... and what those of HTableProofs are about is its table.
LEMMA TableIs ==
  /\ TableProofs!Inputs /\ TableProofs!Growth
  /\ TableProofs!Init <=> Table!Init
  /\ [TableProofs!Next]_(TableProofs!vars) <=> [Table!Next]_(Table!vars)
  /\ TableProofs!LoadExact <=> LoadExact
  /\ TableProofs!Abstract!Init <=> Table!Abstract!Init
  /\ [TableProofs!Abstract!Next]_(TableProofs!Abstract!vars)
       <=> [Table!Abstract!Next]_(Table!Abstract!vars)
<1>1. \A c : TableProofs!P!NextPrimes(c) = Table!P!NextPrimes(c)
  BY SMT DEF TableProofs!P!NextPrimes, Table!P!NextPrimes, TableProofs!P!MayFail,
     Table!P!MayFail, TableProofs!P!MayPass, Table!P!MayPass, TableProofs!P!Strong,
     Table!P!Strong, TableProofs!P!ModularPow, Table!P!ModularPow,
     TableProofs!P!PowerOfTwo, Table!P!PowerOfTwo, TableProofs!P!OddInt, Table!P!OddInt,
     TableProofs!P!FAILURE, Table!P!FAILURE
<1>2. \A t, c : TableProofs!Resized(t, c) = Table!Resized(t, c)
  BY SMT DEF TableProofs!Resized, Table!Resized, TableProofs!Empty, Table!Empty,
     TableProofs!ListAdded, Table!ListAdded, TableProofs!ListOf, Table!ListOf,
     TableProofs!EntryAdded, Table!EntryAdded, TableProofs!Index, Table!Index
<1>3. \A t : TableProofs!ReHashed(t) = Table!ReHashed(t)
  <2> TAKE t
  <2>1. TableProofs!Overloaded(t) <=> Table!Overloaded(t)
    BY DEF TableProofs!Overloaded, Table!Overloaded
  <2>2. {TableProofs!Resized(t, c) : c \in TableProofs!P!NextPrimes(t.capacity)}
          = {Table!Resized(t, c) : c \in Table!P!NextPrimes(t.capacity)}
    BY <1>1, <1>2, Zenon
  <2> QED BY <2>1, <2>2, Zenon DEF TableProofs!ReHashed, Table!ReHashed
<1>4. \A n : TableProofs!NewEntry(n) <=> Table!NewEntry(n)
  <2>1. \A t, n : TableProofs!Refused(t, n) <=> Table!Refused(t, n)
    BY SMT DEF TableProofs!Refused, Table!Refused, TableProofs!HasKey, Table!HasKey,
       TableProofs!Index, Table!Index, TableProofs!Bucket, Table!Bucket
  <2>2. \A t, n : TableProofs!EntryAdded(t, n) = Table!EntryAdded(t, n)
    BY SMT DEF TableProofs!EntryAdded, Table!EntryAdded, TableProofs!Index, Table!Index
  <2>3. \A w, v : TableProofs!Returns(w, v) <=> Table!Returns(w, v)
    BY SMT DEF TableProofs!Returns, Table!Returns
  <2> TAKE n
  <2>4. TableProofs!ReHashed(table) = Table!ReHashed(table)
    BY <1>3
  <2>5. \A t : (IF TableProofs!Refused(t, n)
                THEN table' = t /\ TableProofs!Returns(<<"new", n>>, "FAILURE")
                ELSE table' = TableProofs!EntryAdded(t, n)
                     /\ TableProofs!Returns(<<"new", n>>, "SUCCESS"))
           <=> (IF Table!Refused(t, n)
                THEN table' = t /\ Table!Returns(<<"new", n>>, "FAILURE")
                ELSE table' = Table!EntryAdded(t, n)
                     /\ Table!Returns(<<"new", n>>, "SUCCESS"))
    <3> TAKE t
    <3>1. TableProofs!Refused(t, n) <=> Table!Refused(t, n)
      BY <2>1
    <3>2. TableProofs!EntryAdded(t, n) = Table!EntryAdded(t, n)
      BY <2>2
    <3>3. /\ TableProofs!Returns(<<"new", n>>, "FAILURE")
             <=> Table!Returns(<<"new", n>>, "FAILURE")
          /\ TableProofs!Returns(<<"new", n>>, "SUCCESS")
             <=> Table!Returns(<<"new", n>>, "SUCCESS")
      BY <2>3
    <3> QED BY <3>1, <3>2, <3>3
  <2> QED BY <2>4, <2>5, Zenon DEF TableProofs!NewEntry, Table!NewEntry
<1>5. \A k : TableProofs!ReturnEntry(k) <=> Table!ReturnEntry(k)
  BY SMT DEF TableProofs!ReturnEntry, Table!ReturnEntry, TableProofs!Found, Table!Found,
     TableProofs!Index, Table!Index, TableProofs!Bucket, Table!Bucket,
     TableProofs!Returns, Table!Returns
<1>6. \A k : TableProofs!DestroyEntry(k) <=> Table!DestroyEntry(k)
  BY SMT DEF TableProofs!DestroyEntry, Table!DestroyEntry, TableProofs!HasKey,
     Table!HasKey, TableProofs!Index, Table!Index, TableProofs!Bucket, Table!Bucket,
     TableProofs!Returns, Table!Returns, TableProofs!RemoveAt, Table!RemoveAt
<1>7. TableProofs!Destroy <=> Table!Destroy
  BY DEF TableProofs!Destroy, Table!Destroy, TableProofs!Empty, Table!Empty,
     TableProofs!Returns, Table!Returns
<1>8. TableProofs!Next <=> Table!Next
  BY <1>4, <1>5, <1>6, <1>7
     DEF TableProofs!Next, Table!Next, TableProofs!Key, Table!Key
<1>9. TableProofs!vars = Table!vars /\ TableProofs!vars' = Table!vars'
  BY DEF TableProofs!vars, Table!vars
<1>10. TableProofs!Init <=> Table!Init
  BY DEF TableProofs!Init, Table!Init, TableProofs!Empty, Table!Empty
<1>11. TableProofs!LoadExact <=> LoadExact
  BY DEF TableProofs!LoadExact, Table!LoadExact, LoadExact, TableProofs!ListOf,
     Table!ListOf
<1>12. TableProofs!Inputs
  BY Hypotheses, SMT DEF TableProofs!Inputs, Table!Inputs, TableProofs!Key, Table!Key,
     TableProofs!IsFiniteSet, Table!IsFiniteSet
<1>13. TableProofs!Growth
  <2>1. TableProofs!Cardinality(Name) = Table!Cardinality(Name)
    BY DEF TableProofs!Cardinality, Table!Cardinality
  <2> QED BY <1>1, <2>1, Hypotheses, Zenon DEF TableProofs!Growth, Table!Growth
<1>14. TableProofs!Map = Table!Map /\ TableProofs!Map' = Table!Map'
  BY DEF TableProofs!Map, Table!Map, TableProofs!Found, Table!Found, TableProofs!ListOf,
     Table!ListOf, TableProofs!Key, Table!Key
<1>15. TableProofs!Key = Table!Key
  BY DEF TableProofs!Key, Table!Key
<1>16. TableProofs!Abstract!Init <=> Table!Abstract!Init
  BY <1>14, <1>15 DEF TableProofs!Abstract!Init, Table!Abstract!Init,
     TableProofs!Abstract!Nothing, Table!Abstract!Nothing
<1>17. TableProofs!Abstract!vars = Table!Abstract!vars
       /\ TableProofs!Abstract!vars' = Table!Abstract!vars'
  BY <1>14 DEF TableProofs!Abstract!vars, Table!Abstract!vars
<1>18. TableProofs!Abstract!Next <=> Table!Abstract!Next
  BY <1>14, <1>15 DEF TableProofs!Abstract!Next, Table!Abstract!Next,
     TableProofs!Abstract!New, Table!Abstract!New,
     TableProofs!Abstract!Return, Table!Abstract!Return,
     TableProofs!Abstract!Destroy, Table!Abstract!Destroy,
     TableProofs!Abstract!DestroyAll, Table!Abstract!DestroyAll,
     TableProofs!Abstract!Nothing, Table!Abstract!Nothing
<1>19. [TableProofs!Next]_(TableProofs!vars) <=> [Table!Next]_(Table!vars)
  BY <1>8, <1>9, Zenon
<1>20. [TableProofs!Abstract!Next]_(TableProofs!Abstract!vars)
         <=> [Table!Abstract!Next]_(Table!Abstract!vars)
  BY <1>17, <1>18, Zenon
<1> QED BY <1>10, <1>11, <1>12, <1>13, <1>16, <1>19, <1>20

\* Of a behaviour of MCContainers each container sees a behaviour of its own.
LEMMA SideBySide ==
  /\ MCInit => Init /\ Line!Init /\ Table!Init
  /\ [MCNext /\ UNCHANGED subject]_<<subject, vars, queueVars, tableVars, value>>
       => [Next]_vars /\ [Line!Next]_(Line!vars) /\ [Table!Next]_(Table!vars)
BY DEF MCInit, MCNext, vars, Line!vars, Table!vars, queueVars, tableVars

\* The list of the run is the one of the theorems above.
THEOREM ListStaysSequence == MCSpec => []RingClosed /\ ListIsSequence
<1>1. MCSpec => Spec
  BY SideBySide, PTL DEF MCSpec, Spec
<1> QED BY <1>1, RingStaysClosed, IsSequence

\* The size of a table is that of its buckets and within its capacity.
THEOREM LoadStaysExact == MCSpec => []LoadExact
<1>1. TableProofs!Inputs => (TableProofs!Spec => []TableProofs!LoadExact)
  BY TableProofs!SizeExact
<1> QED BY <1>1, SideBySide, TableIs, PTL DEF MCSpec, TableProofs!Spec

\* A table is a map, ...
THEOREM TableStaysMap == MCSpec => TableIsMap
<1>1. TableProofs!Inputs /\ TableProofs!Growth
        => (TableProofs!Spec => TableProofs!TableIsMap)
  BY TableProofs!IsMap
<1> QED BY <1>1, SideBySide, TableIs, PTL
        DEF MCSpec, TableProofs!Spec, TableProofs!TableIsMap, TableIsMap,
            Table!TableIsMap, Table!Abstract!Spec, TableProofs!Abstract!Spec

\* ... and a queue a sequence.
THEOREM QueueStaysSequence == MCSpec => QueueIsSequence
<1>1. LineProofs!Memory => (LineProofs!Spec => LineProofs!QueueIsSequence)
  BY LineProofs!IsSequence
<1> QED BY <1>1, SideBySide, LineIs, PTL
        DEF MCSpec, LineProofs!Spec, LineProofs!QueueIsSequence, QueueIsSequence,
            Line!QueueIsSequence, Line!Abstract!Spec, LineProofs!Abstract!Spec
=============================================================================
