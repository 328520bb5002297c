---------------------------- MODULE HTableProofs ----------------------------
(***************************************************************************)
(* The hash table counts its entries exactly and behaves as a map, for     *)
(* every finite set of names, every hash and every capacity: module        *)
(* HTable.                                                                 *)
(***************************************************************************)
EXTENDS HTable, FiniteSetTheorems, NaturalsInduction, WellFoundedInduction,
        SequenceTheorems, TLAPS

---------------------------------------------------------------------------
(* Induction *)

\* A non-empty set of natural numbers has a least element.
LEMMA LeastNatural ==
  ASSUME NEW T \in SUBSET Nat, T # {}
  PROVE  \E x \in T : \A y \in T : x <= y
<1>1. IsWellFoundedOn(OpToRel(<, Nat), Nat)
  BY NatLessThanWellFounded
<1>2. PICK x \in T : \A y \in T : ~(<<y, x>> \in OpToRel(<, Nat))
  BY <1>1, WFMin, Zenon
<1>3. \A y \in T : ~(y < x)
  BY <1>2 DEF OpToRel
<1>4. \A y \in T : y \in Nat /\ x \in Nat
  OBVIOUS
<1> QED BY <1>3, <1>4

\* What holds of 0 and of the successor of each number it holds of, up to n.
LEMMA UpTo ==
  ASSUME NEW n \in Nat, NEW H, 0 \in H, \A i \in 1..n : i - 1 \in H => i \in H
  PROVE  \A i \in 0..n : i \in H
<1> DEFINE T == {i \in Nat : i <= n /\ i \notin H}
<1>1. T = {}
  <2> SUFFICES ASSUME T # {}  PROVE FALSE
    OBVIOUS
  <2>1. PICK k \in T : \A y \in T : k <= y
    <3>1. T \in SUBSET Nat
      OBVIOUS
    <3> HIDE DEF T
    <3> QED BY <3>1, LeastNatural
  <2>2. k \in 1..n /\ k \notin H
    OBVIOUS
  <2>3. k - 1 \in H
    <3>1. k - 1 \in Nat /\ k - 1 <= n /\ ~(k <= k - 1)
      BY <2>2
    <3>2. k - 1 \notin T
      <4> HIDE DEF T
      <4> QED BY <2>1, <3>1
    <3> QED BY <3>1, <3>2
  <2> QED BY <2>2, <2>3
<1> SUFFICES ASSUME NEW i \in 0..n, i \notin H  PROVE FALSE
  OBVIOUS
<1>2. i \in T
  OBVIOUS
<1> QED BY <1>1, <1>2

\* f goes on from start by the steps of S.
IsChain(f, n, start, S) ==
  f[0] = start /\ \A i \in 1..n : f[i] = S[<<i, f[i - 1]>>]

LEMMA ChainExists ==
  ASSUME NEW n \in Nat, NEW V, NEW start \in V, NEW S \in [(1..n) \X V -> V]
  PROVE  \E f \in [0..n -> V] : IsChain(f, n, start, S)
<1> DEFINE H == {k \in 0..n : \E f \in [0..k -> V] : IsChain(f, k, start, S)}
<1>1. 0 \in H
  <2>1. [i \in 0..0 |-> start] \in [0..0 -> V] /\ \A i \in 1..0 : FALSE
    OBVIOUS
  <2>2. IsChain([i \in 0..0 |-> start], 0, start, S)
    BY <2>1 DEF IsChain
  <2> QED BY <2>1, <2>2
<1>2. ASSUME NEW k \in 1..n, k - 1 \in H
      PROVE  k \in H
  <2> PICK g \in [0..k - 1 -> V] : IsChain(g, k - 1, start, S)
    BY <1>2
  <2> DEFINE last == S[<<k, g[k - 1]>>]
             f == [i \in 0..k |-> IF i = k THEN last ELSE g[i]]
  <2>1. last \in V
    OBVIOUS
  <2> HIDE DEF last
  <2>2. f \in [0..k -> V] /\ f[k] = last /\ \A i \in 0..k - 1 : f[i] = g[i]
    <3>1. \A i \in 0..k : i # k => i \in 0..k - 1
      OBVIOUS
    <3> QED BY <2>1, <3>1
  <2> HIDE DEF f
  <2>3. f[0] = start
    BY <2>2 DEF IsChain
  <2>4. ASSUME NEW i \in 1..k
        PROVE  f[i] = S[<<i, f[i - 1]>>]
    <3>1. CASE i = k
      <4>1. f[k - 1] = g[k - 1]
        BY <2>2
      <4> QED BY <2>2, <3>1, <4>1 DEF last
    <3>2. CASE i # k
      <4>1. i \in 1..k - 1 /\ i \in 0..k - 1 /\ i - 1 \in 0..k - 1
        BY <3>2
      <4> QED BY <2>2, <4>1 DEF IsChain
    <3> QED BY <3>1, <3>2
  <2>5. IsChain(f, k, start, S)
    BY <2>3, <2>4 DEF IsChain
  <2> QED BY <2>2, <2>5
<1> HIDE DEF H
<1>3. n \in H
  BY <1>1, <1>2, UpTo
<1> QED BY <1>3 DEF H

---------------------------------------------------------------------------
(* Sequences of names *)

Elems(s) == {s[p] : p \in 1..Len(s)}
DistinctKeys(s) == \A p, q \in 1..Len(s) : KeyOf[s[p]] = KeyOf[s[q]] => p = q

LEMMA Joined ==
  ASSUME NEW a \in Seq(Name), NEW b \in Seq(Name)
  PROVE  /\ a \o b \in Seq(Name) /\ Len(a \o b) = Len(a) + Len(b)
         /\ Len(a) \in Nat /\ Len(b) \in Nat
         /\ \A i \in 1..Len(a) + Len(b) :
              (a \o b)[i] = IF i <= Len(a) THEN a[i] ELSE b[i - Len(a)]
BY ConcatProperties, LenProperties

LEMMA JoinedElems ==
  ASSUME NEW a \in Seq(Name), NEW b \in Seq(Name)
  PROVE  /\ Elems(a \o b) = Elems(a) \cup Elems(b)
         /\ DistinctKeys(a) /\ DistinctKeys(b)
            /\ (\A x \in Elems(a), y \in Elems(b) : KeyOf[x] # KeyOf[y])
              => DistinctKeys(a \o b)
<1> DEFINE c == a \o b
           m == Len(a)
           n == Len(b)
<1>1. /\ Len(c) = m + n /\ m \in Nat /\ n \in Nat
      /\ \A i \in 1..m + n : c[i] = IF i <= m THEN a[i] ELSE b[i - m]
  BY Joined
<1>2. Elems(a) = {a[i] : i \in 1..m} /\ Elems(b) = {b[i] : i \in 1..n}
  BY DEF Elems
<1>3. DistinctKeys(a) => \A p, q \in 1..m : KeyOf[a[p]] = KeyOf[a[q]] => p = q
  BY DEF DistinctKeys
<1>4. DistinctKeys(b) => \A p, q \in 1..n : KeyOf[b[p]] = KeyOf[b[q]] => p = q
  BY DEF DistinctKeys
<1> HIDE DEF c, m, n
<1>5. \A i \in 1..m : i \in 1..m + n /\ c[i] = a[i]
  BY <1>1
<1>6. \A i \in 1..n : i + m \in 1..m + n /\ c[i + m] = b[i]
  <2> SUFFICES ASSUME NEW i \in 1..n
               PROVE  i + m \in 1..m + n /\ c[i + m] = b[i]
    OBVIOUS
  <2>1. i + m \in 1..m + n /\ ~(i + m <= m) /\ (i + m) - m = i
    BY <1>1
  <2> QED BY <1>1, <2>1
<1>7. \A i \in 1..m + n :
        \/ i \in 1..m /\ c[i] = a[i] /\ c[i] \in Elems(a)
        \/ i - m \in 1..n /\ i \notin 1..m /\ c[i] = b[i - m] /\ c[i] \in Elems(b)
  <2> SUFFICES ASSUME NEW i \in 1..m + n
               PROVE  \/ i \in 1..m /\ c[i] = a[i] /\ c[i] \in Elems(a)
                      \/ i - m \in 1..n /\ i \notin 1..m /\ c[i] = b[i - m] /\ c[i] \in Elems(b)
    OBVIOUS
  <2>1. CASE i <= m
    <3>1. i \in 1..m /\ c[i] = a[i]
      BY <1>1, <2>1
    <3> QED BY <1>2, <3>1
  <2>2. CASE ~(i <= m)
    <3>1. i - m \in 1..n /\ i \notin 1..m /\ c[i] = b[i - m]
      BY <1>1, <2>2
    <3> QED BY <1>2, <3>1
  <2> QED BY <2>1, <2>2
<1>8. Elems(c) = Elems(a) \cup Elems(b)
  <2>1. Elems(c) = {c[i] : i \in 1..m + n}
    BY <1>1 DEF Elems
  <2>2. ASSUME NEW x \in Elems(c)  PROVE x \in Elems(a) \cup Elems(b)
    BY <1>7, <2>1, <2>2
  <2>3. ASSUME NEW x \in Elems(a)  PROVE x \in Elems(c)
    BY <1>2, <1>5, <2>1, <2>3
  <2>4. ASSUME NEW x \in Elems(b)  PROVE x \in Elems(c)
    BY <1>2, <1>6, <2>1, <2>4
  <2> QED BY <2>2, <2>3, <2>4
<1>9. ASSUME DistinctKeys(a), DistinctKeys(b),
             \A x \in Elems(a), y \in Elems(b) : KeyOf[x] # KeyOf[y]
      PROVE  DistinctKeys(c)
  <2>1. ASSUME NEW p \in 1..m + n, NEW q \in 1..m + n, KeyOf[c[p]] = KeyOf[c[q]]
        PROVE  p = q
    <3>1. CASE p \in 1..m /\ q \in 1..m
      BY <1>3, <1>7, <1>9, <2>1, <3>1
    <3>2. CASE p \notin 1..m /\ q \notin 1..m
      <4>1. p - m = q - m
        BY <1>4, <1>7, <1>9, <2>1, <3>2
      <4> QED BY <1>1, <4>1
    <3>3. CASE p \in 1..m /\ q \notin 1..m
      BY <1>7, <1>9, <2>1, <3>3
    <3>4. CASE p \notin 1..m /\ q \in 1..m
      BY <1>7, <1>9, <2>1, <3>4
    <3> QED BY <3>1, <3>2, <3>3, <3>4
  <2> QED BY <1>1, <2>1 DEF DistinctKeys
<1> QED BY <1>8, <1>9 DEF c

LEMMA EmptyElems ==
  Elems(<< >>) = {} /\ DistinctKeys(<< >>) /\ << >> \in Seq(Name) /\ Len(<< >>) = 0
BY DEF Elems, DistinctKeys

LEMMA FoundIs ==
  ASSUME NEW s \in Seq(Name), NEW k
  PROVE  /\ (\A x \in Elems(s) : KeyOf[x] # k) => Found(s, k) = NULL
         /\ \A x \in Elems(s) : KeyOf[x] = k => Found(s, k) \in Elems(s) /\ KeyOf[Found(s, k)] = k
<1> DEFINE places == {i \in DOMAIN s : KeyOf[s[i]] = k}
           first == CHOOSE i \in places : \A j \in places : i <= j
<1>1. Found(s, k) = IF places = {} THEN NULL ELSE s[first]
  BY DEF Found
<1>2. DOMAIN s = 1..Len(s) /\ places \subseteq 1..Len(s) /\ places \in SUBSET Nat
  BY LenProperties
<1>3. (\A x \in Elems(s) : KeyOf[x] # k) => places = {}
  BY <1>2 DEF Elems
<1>4. ASSUME places # {}
      PROVE  s[first] \in Elems(s) /\ KeyOf[s[first]] = k
  <2>1. first \in places
    <3>1. \E i \in places : \A j \in places : i <= j
      <4> HIDE DEF places
      <4> QED BY <1>2, <1>4, LeastNatural
    <3> HIDE DEF places
    <3> QED BY <3>1
  <2> HIDE DEF first
  <2> QED BY <1>2, <2>1 DEF Elems
<1>5. ASSUME NEW x \in Elems(s), KeyOf[x] = k
      PROVE  places # {}
  BY <1>2, <1>5 DEF Elems
<1> HIDE DEF places, first
<1> QED BY <1>1, <1>3, <1>4, <1>5

LEMMA AppendedElems ==
  ASSUME NEW s \in Seq(Name), NEW n \in Name
  PROVE  /\ Append(s, n) \in Seq(Name) /\ Len(Append(s, n)) = Len(s) + 1
         /\ Elems(Append(s, n)) = Elems(s) \cup {n}
         /\ DistinctKeys(s) /\ (\A x \in Elems(s) : KeyOf[x] # KeyOf[n])
              => DistinctKeys(Append(s, n))
<1>1. Append(s, n) = s \o <<n>> /\ Len(Append(s, n)) = Len(s) + 1
  BY AppendIsConcat, AppendProperties
<1>2. <<n>> \in Seq(Name) /\ Elems(<<n>>) = {n} /\ DistinctKeys(<<n>>)
  BY DEF Elems, DistinctKeys
<1>3. \A y \in Elems(<<n>>) : y = n
  BY <1>2
<1>4. s \o <<n>> \in Seq(Name) /\ Elems(s \o <<n>>) = Elems(s) \cup Elems(<<n>>)
  BY <1>2, Joined, JoinedElems
<1>5. DistinctKeys(s) /\ (\A x \in Elems(s) : KeyOf[x] # KeyOf[n]) => DistinctKeys(s \o <<n>>)
  <2> SUFFICES ASSUME DistinctKeys(s), \A x \in Elems(s) : KeyOf[x] # KeyOf[n]
               PROVE  DistinctKeys(s \o <<n>>)
    OBVIOUS
  <2>1. \A x \in Elems(s), y \in Elems(<<n>>) : KeyOf[x] # KeyOf[y]
    BY <1>3
  <2> QED BY <1>2, <2>1, JoinedElems
<1> QED BY <1>1, <1>2, <1>4, <1>5, Zenon

LEMMA RemovedElems ==
  ASSUME NEW s \in Seq(Name), NEW i \in 1..Len(s), DistinctKeys(s)
  PROVE  /\ RemoveAt(s, i) \in Seq(Name) /\ Len(RemoveAt(s, i)) = Len(s) - 1
         /\ Elems(RemoveAt(s, i)) = Elems(s) \ {s[i]}
         /\ DistinctKeys(RemoveAt(s, i))
<1> DEFINE l == Len(s)
           a == SubSeq(s, 1, i - 1)
           b == SubSeq(s, i + 1, l)
           r == a \o b
<1>1. l \in Nat /\ i \in 1..l
  BY LenProperties
<1>2. a \in Seq(Name) /\ Len(a) = i - 1 /\ \A p \in 1..i - 1 : a[p] = s[p]
  BY <1>1, SubSeqProperties
<1>3. b \in Seq(Name) /\ Len(b) = l - i /\ \A p \in 1..l - i : b[p] = s[i + p]
  <2>1. b \in Seq(Name) /\ Len(b) = l - i
    BY <1>1, SubSeqProperties
  <2>2. ASSUME NEW p \in 1..l - i
        PROVE  b[p] = s[i + p]
    <3>1. (i + 1) + p - 1 = i + p
      BY <1>1
    <3> QED BY <1>1, <3>1, SubSeqProperties
  <2> QED BY <2>1, <2>2
<1> HIDE DEF a, b
<1>4. /\ r \in Seq(Name) /\ Len(r) = l - 1
      /\ \A p \in 1..l - 1 : r[p] = IF p <= i - 1 THEN a[p] ELSE b[p - (i - 1)]
  <2>1. /\ a \o b \in Seq(Name) /\ Len(a \o b) = Len(a) + Len(b)
        /\ \A p \in 1..Len(a) + Len(b) :
             (a \o b)[p] = IF p <= Len(a) THEN a[p] ELSE b[p - Len(a)]
    BY <1>2, <1>3, Joined
  <2>2. (i - 1) + (l - i) = l - 1
    BY <1>1
  <2> QED BY <1>2, <1>3, <2>1, <2>2
<1> HIDE DEF r
<1>5. \A p \in 1..l - 1 : /\ p < i => p \in 1..l /\ r[p] = s[p]
                          /\ p >= i => p + 1 \in 1..l /\ r[p] = s[p + 1]
                          /\ p < i \/ p >= i
  <2> SUFFICES ASSUME NEW p \in 1..l - 1
               PROVE  /\ p < i => p \in 1..l /\ r[p] = s[p]
                      /\ p >= i => p + 1 \in 1..l /\ r[p] = s[p + 1]
                      /\ p < i \/ p >= i
    OBVIOUS
  <2>1. ASSUME p < i  PROVE p \in 1..l /\ r[p] = s[p]
    <3>1. p \in 1..l /\ p \in 1..i - 1 /\ p <= i - 1
      BY <1>1, <2>1
    <3> QED BY <1>2, <1>4, <3>1
  <2>2. ASSUME p >= i  PROVE p + 1 \in 1..l /\ r[p] = s[p + 1]
    <3>1. /\ p + 1 \in 1..l /\ ~(p <= i - 1) /\ p - (i - 1) \in 1..l - i
          /\ i + (p - (i - 1)) = p + 1
      BY <1>1, <2>2
    <3> QED BY <1>3, <1>4, <3>1
  <2> QED BY <1>1, <2>1, <2>2
<1>6. \A p \in 1..l : /\ p < i => p \in 1..l - 1 /\ r[p] = s[p]
                      /\ p > i => p - 1 \in 1..l - 1 /\ r[p - 1] = s[p]
                      /\ p < i \/ p > i \/ p = i
  <2> SUFFICES ASSUME NEW p \in 1..l
               PROVE  /\ p < i => p \in 1..l - 1 /\ r[p] = s[p]
                      /\ p > i => p - 1 \in 1..l - 1 /\ r[p - 1] = s[p]
                      /\ p < i \/ p > i \/ p = i
    OBVIOUS
  <2>1. ASSUME p < i  PROVE p \in 1..l - 1 /\ r[p] = s[p]
    <3>1. p \in 1..l - 1
      BY <1>1, <2>1
    <3> QED BY <1>5, <2>1, <3>1
  <2>2. ASSUME p > i  PROVE p - 1 \in 1..l - 1 /\ r[p - 1] = s[p]
    <3>1. p - 1 \in 1..l - 1 /\ p - 1 >= i /\ (p - 1) + 1 = p
      BY <1>1, <2>2
    <3> QED BY <1>5, <3>1
  <2> QED BY <1>1, <2>1, <2>2
<1>7. \A p, q \in 1..l : KeyOf[s[p]] = KeyOf[s[q]] => p = q
  BY DEF DistinctKeys
<1>8. Elems(s) = {s[p] : p \in 1..l} /\ Elems(r) = {r[p] : p \in 1..l - 1}
  BY <1>4 DEF Elems
<1> HIDE DEF l
<1>9. ASSUME NEW x \in Elems(r)  PROVE x \in Elems(s) /\ x # s[i]
  <2> PICK p \in 1..l - 1 : x = r[p]
    BY <1>8
  <2>1. CASE p < i
    <3>1. p \in 1..l /\ x = s[p] /\ p # i
      BY <1>1, <1>5, <2>1
    <3> QED BY <1>1, <1>7, <1>8, <3>1
  <2>2. CASE p >= i
    <3>1. p + 1 \in 1..l /\ x = s[p + 1] /\ p + 1 # i
      BY <1>1, <1>5, <2>2
    <3> QED BY <1>1, <1>7, <1>8, <3>1
  <2> QED BY <1>5, <2>1, <2>2
<1>10. ASSUME NEW x \in Elems(s), x # s[i]  PROVE x \in Elems(r)
  <2> PICK p \in 1..l : x = s[p]
    BY <1>8
  <2>1. p # i
    BY <1>10
  <2>2. CASE p < i
    BY <1>6, <1>8, <2>2
  <2>3. CASE p > i
    <3>1. p - 1 \in 1..l - 1 /\ r[p - 1] = x
      BY <1>6, <2>3
    <3> QED BY <1>8, <3>1
  <2> QED BY <1>6, <2>1, <2>2, <2>3
<1>11. ASSUME NEW p \in 1..l - 1, NEW q \in 1..l - 1, KeyOf[r[p]] = KeyOf[r[q]]
       PROVE  p = q
  <2>1. CASE p < i /\ q < i
    BY <1>5, <1>7, <1>11, <2>1
  <2>2. CASE p >= i /\ q >= i
    <3>1. p + 1 = q + 1
      BY <1>5, <1>7, <1>11, <2>2
    <3> QED BY <1>1, <3>1
  <2>3. CASE p < i /\ q >= i
    <3>1. p = q + 1
      BY <1>5, <1>7, <1>11, <2>3
    <3> QED BY <1>1, <2>3, <3>1
  <2>4. CASE p >= i /\ q < i
    <3>1. p + 1 = q
      BY <1>5, <1>7, <1>11, <2>4
    <3> QED BY <1>1, <2>4, <3>1
  <2> QED BY <1>5, <2>1, <2>2, <2>3, <2>4
<1>12. DistinctKeys(r)
  BY <1>4, <1>11 DEF DistinctKeys
<1>13. r = RemoveAt(s, i)
  BY DEF RemoveAt, r, a, b, l
<1>14. Elems(r) = Elems(s) \ {s[i]}
  BY <1>9, <1>10
<1> QED BY <1>4, <1>12, <1>13, <1>14 DEF l

---------------------------------------------------------------------------
(* Tables *)

\* The tables of a capacity.
Tables(c) == [pp_array : [0..c - 1 -> Seq(Name)], capacity : {c}, size : Nat]

\* The names in a table, which are in the buckets of their hashes, where no two
\* have one key.
Entries(t) == UNION {Elems(t.pp_array[i]) : i \in 0..t.capacity - 1}
Placed(t) ==
  \A i \in 0..t.capacity - 1 : \A x \in Elems(t.pp_array[i]) : Index(t, KeyOf[x]) = i
NoRepeat(t) == \A i \in 0..t.capacity - 1 : DistinctKeys(t.pp_array[i])

LEMMA TableFacts ==
  ASSUME NEW c \in Nat \ {0}, NEW t \in Tables(c)
  PROVE  /\ t.capacity = c /\ t.size \in Nat /\ t.pp_array \in [0..c - 1 -> Seq(Name)]
         /\ \A i \in 0..c - 1 : t.pp_array[i] \in Seq(Name)
BY DEF Tables

LEMMA IndexFacts ==
  ASSUME Inputs, NEW c \in Nat \ {0}, NEW t, t.capacity = c, NEW k \in Key
  PROVE  Index(t, k) \in 0..c - 1
<1>1. Hash[k] \in Nat
  BY DEF Inputs
<1> QED BY <1>1 DEF Index

LEMMA EmptyFacts ==
  ASSUME NEW c \in Nat \ {0}
  PROVE  /\ Empty(c) \in Tables(c) /\ Empty(c).size = 0 /\ Empty(c).capacity = c
         /\ \A i \in 0..c - 1 : Empty(c).pp_array[i] = << >>
         /\ Entries(Empty(c)) = {} /\ Placed(Empty(c)) /\ NoRepeat(Empty(c))
<1>1. /\ Empty(c) \in Tables(c) /\ Empty(c).size = 0 /\ Empty(c).capacity = c
      /\ \A i \in 0..c - 1 : Empty(c).pp_array[i] = << >>
  <2>1. << >> \in Seq(Name)
    OBVIOUS
  <2> QED BY <2>1 DEF Empty, Tables
<1> QED BY <1>1, EmptyElems DEF Entries, Placed, NoRepeat

\* What h_table_new_entry_add leaves.
OneMore(u, t, c, n, j) ==
  /\ u \in Tables(c) /\ u.size = t.size + 1 /\ j \in 0..c - 1
  /\ Len(u.pp_array[j]) = Len(t.pp_array[j]) + 1
  /\ \A x : x \in Elems(u.pp_array[j]) <=> x \in Elems(t.pp_array[j]) \/ x = n
  /\ DistinctKeys(t.pp_array[j]) /\ (\A x \in Elems(t.pp_array[j]) : KeyOf[x] # KeyOf[n])
       => DistinctKeys(u.pp_array[j])
  /\ \A i \in 0..c - 1 : i # j => u.pp_array[i] = t.pp_array[i]

LEMMA AddedFacts ==
  ASSUME Inputs, NEW c \in Nat \ {0}, NEW t \in Tables(c), NEW n \in Name
  PROVE  OneMore(EntryAdded(t, n), t, c, n, Index(t, KeyOf[n]))
<1> PICK u, j : u = EntryAdded(t, n) /\ j = Index(t, KeyOf[n])
  OBVIOUS
<1>1. /\ t.capacity = c /\ t.size \in Nat /\ t.pp_array \in [0..c - 1 -> Seq(Name)]
      /\ t.pp_array[j] \in Seq(Name) /\ j \in 0..c - 1
  BY TableFacts, IndexFacts DEF Key
<1> DEFINE s == t.pp_array[j]
           a == Append(s, n)
<1>2. /\ a \in Seq(Name) /\ Len(a) = Len(s) + 1 /\ Elems(a) = Elems(s) \cup {n}
      /\ DistinctKeys(s) /\ (\A x \in Elems(s) : KeyOf[x] # KeyOf[n]) => DistinctKeys(a)
  BY <1>1, AppendedElems
<1>3. u = [t EXCEPT !.pp_array[j] = a, !.size = @ + 1]
  BY DEF EntryAdded
<1> HIDE DEF a
<1>4. u.pp_array = [t.pp_array EXCEPT ![j] = a]
      /\ u.size = t.size + 1 /\ u.capacity = c
      /\ u = [pp_array |-> u.pp_array, capacity |-> u.capacity, size |-> u.size]
  BY <1>1, <1>3 DEF Tables
<1>5. u.pp_array \in [0..c - 1 -> Seq(Name)] /\ u.pp_array[j] = a
      /\ \A i \in 0..c - 1 : i # j => u.pp_array[i] = t.pp_array[i]
  BY <1>1, <1>2, <1>4
<1>6. u \in Tables(c)
  <2>1. t.size + 1 \in Nat
    BY <1>1
  <2> QED BY <1>4, <1>5, <2>1 DEF Tables
<1>7. OneMore(u, t, c, n, j)
  BY <1>1, <1>2, <1>4, <1>5, <1>6 DEF OneMore
<1> QED BY <1>7

LEMMA AddedKeeps ==
  ASSUME Inputs, NEW c \in Nat \ {0}, NEW t \in Tables(c), NEW n \in Name,
         Placed(t), NoRepeat(t), \A x \in Entries(t) : KeyOf[x] # KeyOf[n],
         NEW u, u = EntryAdded(t, n)
  PROVE  Entries(u) = Entries(t) \cup {n} /\ Placed(u) /\ NoRepeat(u)
<1> PICK j : j = Index(t, KeyOf[n])
  OBVIOUS
<1>1. /\ u \in Tables(c) /\ u.size = t.size + 1 /\ j \in 0..c - 1
      /\ \A x : x \in Elems(u.pp_array[j]) <=> x \in Elems(t.pp_array[j]) \/ x = n
      /\ DistinctKeys(t.pp_array[j]) /\ (\A x \in Elems(t.pp_array[j]) : KeyOf[x] # KeyOf[n])
           => DistinctKeys(u.pp_array[j])
      /\ \A i \in 0..c - 1 : i # j => u.pp_array[i] = t.pp_array[i]
  <2>1. OneMore(u, t, c, n, j)
    BY AddedFacts
  <2> QED BY <2>1 DEF OneMore
<1>2. t.capacity = c /\ u.capacity = c /\ t.pp_array[j] \in Seq(Name)
  BY <1>1, TableFacts
<1>3. \A x \in Elems(t.pp_array[j]) : KeyOf[x] # KeyOf[n]
  BY <1>1, <1>2 DEF Entries
<1>4. /\ \A x : x \in Elems(u.pp_array[j]) <=> x \in Elems(t.pp_array[j]) \/ x = n
      /\ DistinctKeys(u.pp_array[j])
  <2>1. DistinctKeys(t.pp_array[j])
    BY <1>1, <1>2 DEF NoRepeat
  <2> QED BY <1>1, <1>3, <2>1
<1>5. Entries(u) = Entries(t) \cup {n}
  <2>1. ASSUME NEW x \in Entries(u)  PROVE x \in Entries(t) \cup {n}
    <3> PICK i \in 0..c - 1 : x \in Elems(u.pp_array[i])
      BY <1>2 DEF Entries
    <3>1. CASE i = j
      BY <1>1, <1>2, <1>4, <3>1 DEF Entries
    <3>2. CASE i # j
      BY <1>1, <1>2, <3>2 DEF Entries
    <3> QED BY <3>1, <3>2
  <2>2. ASSUME NEW x \in Entries(t)  PROVE x \in Entries(u)
    <3> PICK i \in 0..c - 1 : x \in Elems(t.pp_array[i])
      BY <1>2 DEF Entries
    <3>1. x \in Elems(u.pp_array[i])
      BY <1>1, <1>4
    <3> QED BY <1>2, <3>1 DEF Entries
  <2>3. n \in Entries(u)
    BY <1>1, <1>2, <1>4 DEF Entries
  <2> QED BY <2>1, <2>2, <2>3
<1>6. \A x : Index(u, KeyOf[x]) = Index(t, KeyOf[x])
  BY <1>2 DEF Index
<1>7. Placed(u)
  <2> SUFFICES ASSUME NEW i \in 0..c - 1, NEW x \in Elems(u.pp_array[i])
               PROVE  Index(t, KeyOf[x]) = i
    BY <1>2, <1>6 DEF Placed
  <2>1. CASE i = j /\ x = n
    BY <2>1
  <2>2. CASE ~(i = j /\ x = n)
    <3>1. x \in Elems(t.pp_array[i])
      BY <1>1, <1>4, <2>2
    <3> QED BY <1>2, <3>1 DEF Placed
  <2> QED BY <2>1, <2>2
<1>8. NoRepeat(u)
  <2> SUFFICES ASSUME NEW i \in 0..c - 1  PROVE DistinctKeys(u.pp_array[i])
    BY <1>2 DEF NoRepeat
  <2>1. CASE i = j
    BY <1>4, <2>1
  <2>2. CASE i # j
    BY <1>1, <1>2, <2>2 DEF NoRepeat
  <2> QED BY <2>1, <2>2
<1> QED BY <1>5, <1>7, <1>8

\* The removal of one entry.
Removed(u, t, j, i) == u = [t EXCEPT !.pp_array[j] = RemoveAt(@, i), !.size = @ - 1]

\* What it leaves.
OneLess(u, t, c, n, j) ==
  /\ u \in Tables(c) /\ u.size = t.size - 1
  /\ Len(u.pp_array[j]) = Len(t.pp_array[j]) - 1
  /\ \A m \in 0..c - 1 : m # j => u.pp_array[m] = t.pp_array[m]
  /\ Entries(u) = Entries(t) \ {n} /\ Placed(u) /\ NoRepeat(u)

LEMMA RemovedKeeps ==
  ASSUME Inputs, NEW c \in Nat \ {0}, NEW t \in Tables(c), Placed(t), NoRepeat(t),
         t.size # 0, NEW j \in 0..c - 1, NEW i \in 1..Len(t.pp_array[j]),
         NEW n, n = t.pp_array[j][i],
         NEW u, Removed(u, t, j, i)
  PROVE  OneLess(u, t, c, n, j)
<1>1. /\ t.capacity = c /\ t.size \in Nat /\ t.pp_array \in [0..c - 1 -> Seq(Name)]
      /\ t.pp_array[j] \in Seq(Name)
  BY TableFacts
<1> PICK r : r = RemoveAt(t.pp_array[j], i)
  OBVIOUS
<1>2. /\ r \in Seq(Name) /\ Len(r) = Len(t.pp_array[j]) - 1
      /\ Elems(r) = Elems(t.pp_array[j]) \ {n} /\ DistinctKeys(r)
  <2>1. DistinctKeys(t.pp_array[j])
    BY <1>1 DEF NoRepeat
  <2> QED BY <1>1, <2>1, RemovedElems
<1>3. u.pp_array = [t.pp_array EXCEPT ![j] = r]
      /\ u.size = t.size - 1 /\ u.capacity = c
      /\ u = [pp_array |-> u.pp_array, capacity |-> u.capacity, size |-> u.size]
  BY <1>1 DEF Tables, Removed
<1>4. u.pp_array \in [0..c - 1 -> Seq(Name)] /\ u.pp_array[j] = r
      /\ \A m \in 0..c - 1 : m # j => u.pp_array[m] = t.pp_array[m]
  BY <1>1, <1>2, <1>3
<1>5. u \in Tables(c) /\ t.size - 1 \in Nat
  <2>1. t.size - 1 \in Nat
    BY <1>1
  <2> QED BY <1>3, <1>4, <2>1 DEF Tables
<1>6. n \in Elems(t.pp_array[j]) /\ Index(t, KeyOf[n]) = j
  <2>1. n \in Elems(t.pp_array[j])
    BY DEF Elems
  <2> QED BY <1>1, <2>1 DEF Placed
<1>7. \A m \in 0..c - 1 : m # j => n \notin Elems(t.pp_array[m])
  BY <1>1, <1>6 DEF Placed
<1>8. \A m \in 0..c - 1 : Elems(u.pp_array[m]) = Elems(t.pp_array[m]) \ {n}
  <2> SUFFICES ASSUME NEW m \in 0..c - 1
               PROVE  Elems(u.pp_array[m]) = Elems(t.pp_array[m]) \ {n}
    OBVIOUS
  <2>1. CASE m = j
    BY <1>2, <1>4, <2>1
  <2>2. CASE m # j
    BY <1>4, <1>7, <2>2
  <2> QED BY <2>1, <2>2
<1>9. Entries(u) = Entries(t) \ {n}
  <2>1. ASSUME NEW x \in Entries(u)  PROVE x \in Entries(t) \ {n}
    <3> PICK m \in 0..c - 1 : x \in Elems(u.pp_array[m])
      BY <1>3 DEF Entries
    <3>1. x \in Elems(t.pp_array[m]) /\ x # n
      BY <1>8
    <3> QED BY <1>1, <3>1 DEF Entries
  <2>2. ASSUME NEW x \in Entries(t), x # n  PROVE x \in Entries(u)
    <3> PICK m \in 0..c - 1 : x \in Elems(t.pp_array[m])
      BY <1>1, <2>2 DEF Entries
    <3>1. x \in Elems(u.pp_array[m])
      BY <1>8, <2>2
    <3> QED BY <1>3, <3>1 DEF Entries
  <2> QED BY <2>1, <2>2
<1>10. \A x : Index(u, KeyOf[x]) = Index(t, KeyOf[x])
  BY <1>1, <1>3 DEF Index
<1>11. Placed(u)
  <2> SUFFICES ASSUME NEW m \in 0..c - 1, NEW x \in Elems(u.pp_array[m])
               PROVE  Index(t, KeyOf[x]) = m
    BY <1>3, <1>10 DEF Placed
  <2>1. x \in Elems(t.pp_array[m])
    BY <1>8
  <2> QED BY <1>1, <2>1 DEF Placed
<1>12. NoRepeat(u)
  <2> SUFFICES ASSUME NEW m \in 0..c - 1  PROVE DistinctKeys(u.pp_array[m])
    BY <1>3 DEF NoRepeat
  <2>1. CASE m = j
    BY <1>2, <1>4, <2>1
  <2>2. CASE m # j
    BY <1>1, <1>4, <2>2 DEF NoRepeat
  <2> QED BY <2>1, <2>2
<1> QED BY <1>2, <1>3, <1>4, <1>5, <1>9, <1>11, <1>12 DEF OneLess

---------------------------------------------------------------------------
(* The list of a table *)

\* f lists the buckets of t, one after the other.
Lists(f, t, c) ==
  /\ f \in [0..c -> Seq(Name)] /\ f[0] = << >>
  /\ \A i \in 1..c : f[i] = f[i - 1] \o t.pp_array[i - 1]

LEMMA IsListed ==
  ASSUME NEW c \in Nat \ {0}, NEW t \in Tables(c)
  PROVE  \E f : Lists(f, t, c) /\ ListOf(t) = f[c]
<1>1. t.capacity = c /\ \A i \in 1..c : t.pp_array[i - 1] \in Seq(Name)
  <2>1. \A i \in 1..c : i - 1 \in 0..c - 1
    OBVIOUS
  <2> QED BY <2>1, TableFacts
<1> DEFINE V == Seq(Name)
           S == [p \in (1..c) \X V |-> p[2] \o t.pp_array[p[1] - 1]]
           listed[i \in 0..t.capacity] ==
             IF i = 0 THEN << >> ELSE listed[i - 1] \o t.pp_array[i - 1]
           Def(fn) == fn = [i \in 0..c |->
             IF i = 0 THEN << >> ELSE fn[i - 1] \o t.pp_array[i - 1]]
<1>2. S \in [(1..c) \X V -> V]
  <2>1. ASSUME NEW p \in (1..c) \X V  PROVE p[2] \o t.pp_array[p[1] - 1] \in V
    <3>1. p[1] \in 1..c /\ p[2] \in Seq(Name)
      OBVIOUS
    <3> QED BY <1>1, <3>1, Joined
  <2> QED BY <2>1
<1>3. << >> \in V
  OBVIOUS
<1>4. PICK g \in [0..c -> V] : IsChain(g, c, << >>, S)
  <2> HIDE DEF S, V
  <2> QED BY <1>2, <1>3, ChainExists
<1>5. Def(g)
  <2>1. g = [i \in 0..c |-> g[i]]
    OBVIOUS
  <2>2. ASSUME NEW i \in 0..c
        PROVE  g[i] = IF i = 0 THEN << >> ELSE g[i - 1] \o t.pp_array[i - 1]
    <3>1. CASE i = 0
      BY <1>4, <3>1 DEF IsChain
    <3>2. CASE i # 0
      <4>1. i \in 1..c /\ i - 1 \in 0..c
        BY <3>2
      <4>2. <<i, g[i - 1]>> \in (1..c) \X V
        BY <1>4, <4>1
      <4>3. S[<<i, g[i - 1]>>] = g[i - 1] \o t.pp_array[i - 1]
        BY <4>2
      <4>4. g[i] = S[<<i, g[i - 1]>>]
        BY <1>4, <4>1 DEF IsChain
      <4> QED BY <3>2, <4>3, <4>4
    <3> QED BY <3>1, <3>2
  <2> QED BY <2>1, <2>2
<1>6. Def(listed) /\ ListOf(t) = listed[c]
  <2>1. listed = CHOOSE fn : Def(fn)
    BY <1>1
  <2>2. Def(CHOOSE fn : Def(fn))
    <3> HIDE DEF Def
    <3> QED BY <1>5
  <2>3. ListOf(t) = listed[c]
    BY <1>1 DEF ListOf
  <2> HIDE DEF listed
  <2> QED BY <2>1, <2>2, <2>3
<1> HIDE DEF listed
<1>7. PICK f : f = listed
  OBVIOUS
<1>8. f = [i \in 0..c |-> f[i]] /\ f[0] = << >>
      /\ \A i \in 1..c : f[i] = f[i - 1] \o t.pp_array[i - 1]
  <2>1. f = [i \in 0..c |-> IF i = 0 THEN << >> ELSE f[i - 1] \o t.pp_array[i - 1]]
    BY <1>6, <1>7
  <2>2. \A i \in 0..c : f[i] = IF i = 0 THEN << >> ELSE f[i - 1] \o t.pp_array[i - 1]
    BY <2>1
  <2>3. 0 \in 0..c /\ \A i \in 1..c : i \in 0..c /\ i # 0
    OBVIOUS
  <2>4. f = [i \in 0..c |-> f[i]]
    BY <2>1
  <2> QED BY <2>2, <2>3, <2>4
<1>9. \A i \in 0..c : f[i] \in Seq(Name)
  <2> DEFINE H == {i \in 0..c : f[i] \in Seq(Name)}
  <2>1. 0 \in H
    <3>1. 0 \in 0..c
      OBVIOUS
    <3>2. f[0] \in Seq(Name)
      BY <1>3, <1>8, Zenon
    <3> QED BY <3>1, <3>2
  <2>2. ASSUME NEW i \in 1..c, i - 1 \in H  PROVE i \in H
    <3>1. f[i - 1] \in Seq(Name) /\ t.pp_array[i - 1] \in Seq(Name)
      BY <1>1, <2>2
    <3>2. f[i - 1] \o t.pp_array[i - 1] \in Seq(Name)
      BY <3>1, Joined
    <3>3. f[i] = f[i - 1] \o t.pp_array[i - 1]
      BY <1>8
    <3>4. i \in 0..c
      OBVIOUS
    <3> QED BY <3>2, <3>3, <3>4
  <2>3. c \in Nat
    OBVIOUS
  <2>4. \A i \in 0..c : i \in H
    <3> HIDE DEF H
    <3> QED BY <2>1, <2>2, <2>3, UpTo
  <2> QED BY <2>4
<1>10. Lists(f, t, c)
  BY <1>8, <1>9 DEF Lists
<1> QED BY <1>6, <1>7, <1>10

LEMMA ListsAt ==
  ASSUME NEW c \in Nat \ {0}, NEW t \in Tables(c), NEW f, Lists(f, t, c), NEW i \in 1..c
  PROVE  /\ i \in 0..c /\ i - 1 \in 0..c /\ i - 1 \in 0..c - 1
         /\ t.capacity = c
         /\ f[i - 1] \in Seq(Name) /\ t.pp_array[i - 1] \in Seq(Name)
         /\ f[i] = f[i - 1] \o t.pp_array[i - 1]
<1>1. i \in 0..c /\ i - 1 \in 0..c /\ i - 1 \in 0..c - 1
  OBVIOUS
<1>2. t.capacity = c /\ t.pp_array[i - 1] \in Seq(Name)
  BY <1>1, TableFacts
<1>3. f[i - 1] \in Seq(Name) /\ f[i] = f[i - 1] \o t.pp_array[i - 1]
  BY <1>1 DEF Lists
<1> QED BY <1>1, <1>2, <1>3

LEMMA ListElems ==
  ASSUME NEW c \in Nat \ {0}, NEW t \in Tables(c), NEW f, Lists(f, t, c)
  PROVE  \A i \in 0..c :
           \A x : x \in Elems(f[i]) <=> \E m \in 0..i - 1 : x \in Elems(t.pp_array[m])
<1> DEFINE H == {i \in 0..c :
             \A x : x \in Elems(f[i]) <=> \E m \in 0..i - 1 : x \in Elems(t.pp_array[m])}
<1>1. 0 \in H
  BY EmptyElems DEF Lists
<1>2. ASSUME NEW i \in 1..c, i - 1 \in H  PROVE i \in H
  <2>1. /\ i - 1 \in 0..c /\ i - 1 \in 0..c - 1 /\ i \in 0..c
        /\ f[i - 1] \in Seq(Name) /\ t.pp_array[i - 1] \in Seq(Name)
        /\ f[i] = f[i - 1] \o t.pp_array[i - 1]
    BY ListsAt
  <2>2. \A x : x \in Elems(f[i]) <=> x \in Elems(f[i - 1]) \/ x \in Elems(t.pp_array[i - 1])
    <3>1. Elems(f[i - 1] \o t.pp_array[i - 1])
            = Elems(f[i - 1]) \cup Elems(t.pp_array[i - 1])
      BY <2>1, JoinedElems
    <3> QED BY <2>1, <3>1
  <2>3. \A m : m \in 0..i - 1 <=> m \in 0..(i - 1) - 1 \/ m = i - 1
    OBVIOUS
  <2>4. \A x : x \in Elems(f[i - 1])
               <=> \E m \in 0..(i - 1) - 1 : x \in Elems(t.pp_array[m])
    BY <1>2
  <2>5. \A x : x \in Elems(f[i]) <=> \E m \in 0..i - 1 : x \in Elems(t.pp_array[m])
    BY <2>2, <2>3, <2>4, Zenon
  <2> QED BY <2>1, <2>5
<1>3. c \in Nat
  OBVIOUS
<1>4. \A i \in 0..c : i \in H
  <2> HIDE DEF H
  <2> QED BY <1>1, <1>2, <1>3, UpTo
<1> QED BY <1>4

LEMMA ListDistinct ==
  ASSUME NEW c \in Nat \ {0}, NEW t \in Tables(c), NEW f, Lists(f, t, c),
         Placed(t), NoRepeat(t)
  PROVE  DistinctKeys(f[c])
<1> DEFINE H == {i \in 0..c : DistinctKeys(f[i])}
<1>1. 0 \in H
  BY EmptyElems DEF Lists
<1>2. ASSUME NEW i \in 1..c, i - 1 \in H  PROVE i \in H
  <2>1. /\ i - 1 \in 0..c /\ i - 1 \in 0..c - 1 /\ i \in 0..c /\ t.capacity = c
        /\ f[i - 1] \in Seq(Name) /\ t.pp_array[i - 1] \in Seq(Name)
        /\ f[i] = f[i - 1] \o t.pp_array[i - 1]
    BY ListsAt
  <2>2. ASSUME NEW x \in Elems(f[i - 1]), NEW y \in Elems(t.pp_array[i - 1])
        PROVE  KeyOf[x] # KeyOf[y]
    <3>4. \A z : z \in Elems(f[i - 1])
                 <=> \E m \in 0..(i - 1) - 1 : z \in Elems(t.pp_array[m])
      <4>1. \A b \in 0..c :
              \A z : z \in Elems(f[b]) <=> \E m \in 0..b - 1 : z \in Elems(t.pp_array[m])
        BY ListElems
      <4> QED BY <2>1, <4>1, Zenon
    <3>1. PICK m \in 0..(i - 1) - 1 : x \in Elems(t.pp_array[m])
      BY <3>4
    <3>2. m \in 0..c - 1 /\ m # i - 1
      OBVIOUS
    <3>3. Index(t, KeyOf[x]) = m /\ Index(t, KeyOf[y]) = i - 1
      BY <2>1, <3>1, <3>2 DEF Placed
    <3> QED BY <3>2, <3>3
  <2>3. DistinctKeys(f[i - 1]) /\ DistinctKeys(t.pp_array[i - 1])
    BY <1>2, <2>1 DEF NoRepeat
  <2>4. DistinctKeys(f[i - 1] \o t.pp_array[i - 1])
    BY <2>1, <2>2, <2>3, JoinedElems
  <2> QED BY <2>1, <2>4
<1>3. c \in Nat
  OBVIOUS
<1>4. \A i \in 0..c : i \in H
  <2> HIDE DEF H
  <2> QED BY <1>1, <1>2, <1>3, UpTo
<1> QED BY <1>4

\* The list of a well formed table holds each of its entries once.
LEMMA ListFacts ==
  ASSUME NEW c \in Nat \ {0}, NEW t \in Tables(c)
  PROVE  /\ ListOf(t) \in Seq(Name)
         /\ \A x : x \in Elems(ListOf(t)) <=> x \in Entries(t)
         /\ Placed(t) /\ NoRepeat(t) => DistinctKeys(ListOf(t))
<1>1. PICK f : Lists(f, t, c) /\ ListOf(t) = f[c]
  BY IsListed
<1>2. c \in 0..c /\ t.capacity = c
  BY TableFacts
<1>3. ListOf(t) \in Seq(Name)
  BY <1>1, <1>2 DEF Lists
<1>4. \A x : x \in Elems(f[c]) <=> \E m \in 0..c - 1 : x \in Elems(t.pp_array[m])
  BY <1>1, <1>2, ListElems
<1>5. \A x : x \in Elems(ListOf(t)) <=> x \in Entries(t)
  BY <1>1, <1>2, <1>4 DEF Entries
<1>6. Placed(t) /\ NoRepeat(t) => DistinctKeys(ListOf(t))
  BY <1>1, ListDistinct
<1> QED BY <1>3, <1>5, <1>6

LEMMA EmptyList ==
  ASSUME NEW c \in Nat \ {0}
  PROVE  Len(ListOf(Empty(c))) = 0
<1>1. Empty(c) \in Tables(c) /\ \A i \in 0..c - 1 : Empty(c).pp_array[i] = << >>
  BY EmptyFacts
<1>2. PICK t : t = Empty(c)
  OBVIOUS
<1>3. PICK f : Lists(f, t, c) /\ ListOf(t) = f[c]
  BY <1>1, <1>2, IsListed
<1>8. t \in Tables(c)
  BY <1>1, <1>2
<1> DEFINE H == {i \in 0..c : Len(f[i]) = 0}
<1>4. 0 \in H
  BY <1>3, EmptyElems DEF Lists
<1>5. ASSUME NEW i \in 1..c, i - 1 \in H  PROVE i \in H
  <2>1. /\ i \in 0..c /\ i - 1 \in 0..c /\ i - 1 \in 0..c - 1 /\ f[i - 1] \in Seq(Name)
        /\ f[i] = f[i - 1] \o t.pp_array[i - 1]
    BY <1>3, <1>8, ListsAt
  <2>2. t.pp_array[i - 1] = << >> /\ t.pp_array[i - 1] \in Seq(Name)
    BY <1>1, <1>2, <2>1, EmptyElems
  <2>3. Len(f[i - 1] \o t.pp_array[i - 1]) = Len(f[i - 1]) + Len(t.pp_array[i - 1])
    BY <2>1, <2>2, Joined
  <2>4. Len(f[i - 1]) = 0 /\ Len(t.pp_array[i - 1]) = 0
    BY <1>5, <2>2, EmptyElems
  <2>5. Len(f[i]) = 0
    BY <2>1, <2>3, <2>4
  <2> QED BY <2>1, <2>5
<1>6. c \in Nat
  OBVIOUS
<1>7. \A i \in 0..c : i \in H
  <2> HIDE DEF H
  <2> QED BY <1>4, <1>5, <1>6, UpTo
<1> QED BY <1>2, <1>3, <1>7

LEMMA Sums ==
  ASSUME NEW d \in Int
  PROVE  \A a, b \in Nat : a + (b + d) = (a + b) + d /\ (a + d) + b = (a + b) + d
OBVIOUS

\* A change of one bucket's length changes the length of the list as much.
LEMMA LengthMoves ==
  ASSUME NEW c \in Nat \ {0}, NEW t \in Tables(c), NEW u \in Tables(c), NEW d \in Int,
         NEW j \in 0..c - 1, Len(u.pp_array[j]) = Len(t.pp_array[j]) + d,
         \A i \in 0..c - 1 : i # j => u.pp_array[i] = t.pp_array[i]
  PROVE  Len(ListOf(u)) = Len(ListOf(t)) + d
<1>1. PICK f : Lists(f, t, c) /\ ListOf(t) = f[c]
  BY IsListed
<1>2. PICK g : Lists(g, u, c) /\ ListOf(u) = g[c]
  BY IsListed
<1> DEFINE Moved(i) == /\ i > j => Len(g[i]) = Len(f[i]) + d
                       /\ ~(i > j) => Len(g[i]) = Len(f[i])
           H == {i \in 0..c : Moved(i)}
<1> HIDE DEF Moved
<1>3. 0 \in H
  BY <1>1, <1>2, EmptyElems DEF Lists, Moved
<1>4. ASSUME NEW i \in 1..c, i - 1 \in H  PROVE i \in H
  <2>1. /\ i \in 0..c /\ i - 1 \in 0..c /\ i - 1 \in 0..c - 1
        /\ f[i - 1] \in Seq(Name) /\ t.pp_array[i - 1] \in Seq(Name)
        /\ f[i] = f[i - 1] \o t.pp_array[i - 1]
    BY <1>1, ListsAt
  <2>2. /\ g[i - 1] \in Seq(Name) /\ u.pp_array[i - 1] \in Seq(Name)
        /\ g[i] = g[i - 1] \o u.pp_array[i - 1]
    BY <1>2, ListsAt
  <2>3. /\ Len(f[i]) = Len(f[i - 1]) + Len(t.pp_array[i - 1])
        /\ Len(f[i - 1]) \in Nat /\ Len(t.pp_array[i - 1]) \in Nat
    BY <2>1, Joined
  <2>4. Len(g[i]) = Len(g[i - 1]) + Len(u.pp_array[i - 1])
    BY <2>2, Joined
  <2>5. /\ i - 1 > j => Len(g[i - 1]) = Len(f[i - 1]) + d
        /\ ~(i - 1 > j) => Len(g[i - 1]) = Len(f[i - 1])
    <3>1. Moved(i - 1)
      BY <1>4
    <3> QED BY <3>1, Zenon DEF Moved
  <2>6. CASE i - 1 = j
    <3>1. Len(u.pp_array[i - 1]) = Len(t.pp_array[i - 1]) + d
      BY <2>6
    <3>2. i > j /\ ~(i - 1 > j)
      BY <2>6
    <3>3. Len(g[i]) = Len(f[i - 1]) + (Len(t.pp_array[i - 1]) + d)
      BY <2>4, <2>5, <3>1, <3>2, Zenon
    <3>4. Len(g[i]) = Len(f[i]) + d
      <4>1. \A a, b \in Nat : a + (b + d) = (a + b) + d /\ (a + d) + b = (a + b) + d
        BY Sums
      <4>2. /\ Len(f[i - 1]) + (Len(t.pp_array[i - 1]) + d)
                 = (Len(f[i - 1]) + Len(t.pp_array[i - 1])) + d
            /\ (Len(f[i - 1]) + d) + Len(t.pp_array[i - 1])
                 = (Len(f[i - 1]) + Len(t.pp_array[i - 1])) + d
        BY <2>3, <4>1, Zenon
      <4> QED BY <2>3, <3>3, <4>2, Zenon
    <3> QED BY <2>1, <3>2, <3>4 DEF Moved
  <2>7. CASE i - 1 > j
    <3>1. Len(u.pp_array[i - 1]) = Len(t.pp_array[i - 1])
      BY <2>1, <2>7
    <3>2. i > j
      BY <2>7
    <3>3. Len(g[i]) = (Len(f[i - 1]) + d) + Len(t.pp_array[i - 1])
      BY <2>4, <2>5, <2>7, <3>1, Zenon
    <3>4. Len(g[i]) = Len(f[i]) + d
      <4>1. \A a, b \in Nat : a + (b + d) = (a + b) + d /\ (a + d) + b = (a + b) + d
        BY Sums
      <4>2. /\ Len(f[i - 1]) + (Len(t.pp_array[i - 1]) + d)
                 = (Len(f[i - 1]) + Len(t.pp_array[i - 1])) + d
            /\ (Len(f[i - 1]) + d) + Len(t.pp_array[i - 1])
                 = (Len(f[i - 1]) + Len(t.pp_array[i - 1])) + d
        BY <2>3, <4>1, Zenon
      <4> QED BY <2>3, <3>3, <4>2, Zenon
    <3> QED BY <2>1, <3>2, <3>4 DEF Moved
  <2>8. CASE i - 1 < j
    <3>1. Len(u.pp_array[i - 1]) = Len(t.pp_array[i - 1])
      BY <2>1, <2>8
    <3>2. ~(i > j) /\ ~(i - 1 > j)
      BY <2>8
    <3>3. Len(g[i]) = Len(f[i])
      BY <2>3, <2>4, <2>5, <3>1, <3>2, Zenon
    <3> QED BY <2>1, <3>2, <3>3 DEF Moved
  <2> QED BY <2>6, <2>7, <2>8
<1>5. c \in Nat
  OBVIOUS
<1>6. \A i \in 0..c : i \in H
  <2> HIDE DEF H
  <2> QED BY <1>3, <1>4, <1>5, UpTo
<1>7. c \in 0..c /\ c > j
  OBVIOUS
<1>8. Len(g[c]) = Len(f[c]) + d
  <2>1. Moved(c)
    BY <1>6, <1>7
  <2> QED BY <1>7, <2>1, Zenon DEF Moved
<1> QED BY <1>1, <1>2, <1>8

---------------------------------------------------------------------------
(* Well formed tables as maps *)

Well(t) ==
  t.capacity \in Nat \ {0} /\ t \in Tables(t.capacity) /\ Placed(t) /\ NoRepeat(t)

\* v is what a map that holds the names of E has at k.
IsAt(v, k, E) ==
  \/ v = NULL /\ \A x \in E : KeyOf[x] # k
  \/ v \in E /\ KeyOf[v] = k /\ \A x \in E : KeyOf[x] = k => x = v

LEMMA EntryFacts ==
  ASSUME NEW t, Well(t)
  PROVE  /\ \A x \in Entries(t) : x \in Name /\ KeyOf[x] \in Key
         /\ \A x, y \in Entries(t) : KeyOf[x] = KeyOf[y] => x = y
<1> PICK c : c = t.capacity
  OBVIOUS
<1>1. c \in Nat \ {0} /\ t \in Tables(c) /\ Placed(t) /\ NoRepeat(t)
  BY DEF Well
<1> PICK s : s = ListOf(t)
  OBVIOUS
<1>2. s \in Seq(Name) /\ (\A x : x \in Elems(s) <=> x \in Entries(t)) /\ DistinctKeys(s)
  BY <1>1, ListFacts
<1>3. \A x \in Entries(t) : \E p \in 1..Len(s) : x = s[p]
  BY <1>2 DEF Elems
<1>4. \A x \in Entries(t) : x \in Name
  BY <1>2, <1>3
<1>5. \A x \in Entries(t) : KeyOf[x] \in Key
  BY <1>4 DEF Key
<1>6. ASSUME NEW x \in Entries(t), NEW y \in Entries(t), KeyOf[x] = KeyOf[y]
      PROVE  x = y
  <2> PICK p \in 1..Len(s) : x = s[p]
    BY <1>3
  <2> PICK q \in 1..Len(s) : y = s[q]
    BY <1>3
  <2> QED BY <1>2, <1>6 DEF DistinctKeys
<1> QED BY <1>4, <1>5, <1>6

LEMMA FoundAt ==
  ASSUME NEW s \in Seq(Name), NEW E, NEW k,
         \A x : x \in Elems(s) => x \in E,
         \A x \in E : KeyOf[x] = k => x \in Elems(s),
         \A x, y \in E : KeyOf[x] = KeyOf[y] => x = y
  PROVE  IsAt(Found(s, k), k, E)
<1> PICK v : v = Found(s, k)
  OBVIOUS
<1>1. /\ (\A x \in Elems(s) : KeyOf[x] # k) => v = NULL
      /\ \A x \in Elems(s) : KeyOf[x] = k => v \in Elems(s) /\ KeyOf[v] = k
  BY FoundIs
<1>2. CASE \A x \in Elems(s) : KeyOf[x] # k
  <2>1. v = NULL /\ \A x \in E : KeyOf[x] # k
    BY <1>1, <1>2
  <2> QED BY <2>1 DEF IsAt
<1>3. CASE \E x \in Elems(s) : KeyOf[x] = k
  <2>1. v \in Elems(s) /\ KeyOf[v] = k
    BY <1>1, <1>3
  <2>2. v \in E /\ \A x \in E : KeyOf[x] = k => x = v
    BY <2>1
  <2> QED BY <2>1, <2>2 DEF IsAt
<1> QED BY <1>2, <1>3

LEMMA SameAt ==
  ASSUME Inputs, NEW E \in SUBSET Name, NEW k, NEW v, NEW w, IsAt(v, k, E), IsAt(w, k, E)
  PROVE  v = w
BY DEF IsAt

\* What a table lists, and what is in the bucket of a key.
LEMMA WellAt ==
  ASSUME Inputs, NEW t, Well(t), NEW k \in Key
  PROVE  /\ IsAt(Found(ListOf(t), k), k, Entries(t))
         /\ IsAt(Found(Bucket(t, k), k), k, Entries(t))
         /\ HasKey(t, k) <=> \E x \in Entries(t) : KeyOf[x] = k
         /\ Index(t, k) \in 0..t.capacity - 1 /\ Bucket(t, k) \in Seq(Name)
<1> PICK c : c = t.capacity
  OBVIOUS
<1>1. c \in Nat \ {0} /\ t \in Tables(c) /\ Placed(t) /\ NoRepeat(t)
  BY DEF Well
<1>2. \A x, y \in Entries(t) : KeyOf[x] = KeyOf[y] => x = y
  BY EntryFacts
<1> PICK s : s = ListOf(t)
  OBVIOUS
<1>3. s \in Seq(Name) /\ \A x : x \in Elems(s) <=> x \in Entries(t)
  BY <1>1, ListFacts
<1>4. IsAt(Found(s, k), k, Entries(t))
  BY <1>2, <1>3, FoundAt
<1> PICK i, b : i = Index(t, k) /\ b = Bucket(t, k)
  OBVIOUS
<1>5. i \in 0..c - 1 /\ b = t.pp_array[i] /\ b \in Seq(Name)
  <2>1. i \in 0..c - 1
    BY IndexFacts, <1>1
  <2> QED BY <1>1, <2>1, TableFacts DEF Bucket
<1>6. \A x : x \in Elems(b) => x \in Entries(t)
  BY <1>5 DEF Entries
<1>7. ASSUME NEW x \in Entries(t), KeyOf[x] = k  PROVE x \in Elems(b)
  <2> PICK j \in 0..c - 1 : x \in Elems(t.pp_array[j])
    BY DEF Entries
  <2>1. Index(t, KeyOf[x]) = j
    BY <1>1 DEF Placed
  <2> QED BY <1>5, <1>7, <2>1
<1>8. IsAt(Found(b, k), k, Entries(t))
  BY <1>2, <1>5, <1>6, <1>7, FoundAt
<1>9. HasKey(t, k) <=> \E x \in Elems(b) : KeyOf[x] = k
  <2>1. DOMAIN b = 1..Len(b)
    BY <1>5
  <2>2. HasKey(t, k) <=> \E p \in 1..Len(b) : KeyOf[b[p]] = k
    BY <2>1 DEF HasKey
  <2> QED BY <2>2 DEF Elems
<1>10. HasKey(t, k) <=> \E x \in Entries(t) : KeyOf[x] = k
  BY <1>6, <1>7, <1>9
<1> QED BY <1>4, <1>5, <1>8, <1>10

MapOf(t) == [k \in Key |-> Found(ListOf(t), k)]

LEMMA MapAt ==
  ASSUME Inputs, NEW t, Well(t), NEW k \in Key
  PROVE  /\ IsAt(MapOf(t)[k], k, Entries(t))
         /\ Found(Bucket(t, k), k) = MapOf(t)[k]
         /\ MapOf(t)[k] = NULL <=> ~HasKey(t, k)
<1>1. Entries(t) \in SUBSET Name
  BY EntryFacts
<1>2. MapOf(t)[k] = Found(ListOf(t), k)
  BY DEF MapOf
<1> PICK v, w : v = MapOf(t)[k] /\ w = Found(Bucket(t, k), k)
  OBVIOUS
<1>3. IsAt(v, k, Entries(t)) /\ IsAt(w, k, Entries(t))
  BY <1>2, WellAt
<1>4. v = w
  BY <1>1, <1>3, SameAt
<1>5. v = NULL <=> ~\E x \in Entries(t) : KeyOf[x] = k
  <2>1. NULL \notin Entries(t)
    BY <1>1 DEF Inputs
  <2> QED BY <1>3, <2>1 DEF IsAt
<1> QED BY <1>3, <1>4, <1>5, WellAt

\* The entries of a table determine its map.
LEMMA MapIs ==
  ASSUME Inputs, NEW t, Well(t), NEW m, m = [k \in Key |-> m[k]],
         \A k \in Key : IsAt(m[k], k, Entries(t))
  PROVE  m = MapOf(t)
<1>1. Entries(t) \in SUBSET Name
  BY EntryFacts
<1>2. ASSUME NEW k \in Key  PROVE m[k] = MapOf(t)[k]
  <2>1. IsAt(MapOf(t)[k], k, Entries(t))
    BY MapAt
  <2> PICK v, w : v = m[k] /\ w = MapOf(t)[k]
    OBVIOUS
  <2> QED BY <1>1, <2>1, SameAt
<1>3. MapOf(t) = [k \in Key |-> MapOf(t)[k]]
  BY DEF MapOf
<1> QED BY <1>2, <1>3

LEMMA MapEmpty ==
  ASSUME Inputs, NEW t, Well(t), Entries(t) = {}
  PROVE  MapOf(t) = [k \in Key |-> NULL]
<1> DEFINE m == [k \in Key |-> NULL]
<1>1. m = [k \in Key |-> m[k]] /\ \A k \in Key : IsAt(m[k], k, Entries(t))
  BY DEF IsAt
<1> HIDE DEF m
<1>2. m = MapOf(t)
  BY <1>1, MapIs
<1> QED BY <1>2 DEF m

LEMMA MapSame ==
  ASSUME Inputs, NEW t, Well(t), NEW u, Well(u), Entries(u) = Entries(t)
  PROVE  MapOf(u) = MapOf(t)
<1>1. \A k \in Key : IsAt(MapOf(u)[k], k, Entries(t))
  BY MapAt
<1>2. MapOf(u) = [k \in Key |-> MapOf(u)[k]]
  BY DEF MapOf
<1> QED BY <1>1, <1>2, MapIs

LEMMA MapAdd ==
  ASSUME Inputs, NEW t, Well(t), NEW u, Well(u), NEW n \in Name,
         Entries(u) = Entries(t) \cup {n}, \A x \in Entries(t) : KeyOf[x] # KeyOf[n]
  PROVE  MapOf(u) = [MapOf(t) EXCEPT ![KeyOf[n]] = n]
<1> DEFINE m == [MapOf(t) EXCEPT ![KeyOf[n]] = n]
<1>1. KeyOf[n] \in Key /\ DOMAIN MapOf(t) = Key
  BY DEF Key, MapOf
<1>2. \A k \in Key : IsAt(MapOf(t)[k], k, Entries(t))
  BY MapAt
<1>3. m = [k \in Key |-> m[k]]
      /\ \A k \in Key : m[k] = IF k = KeyOf[n] THEN n ELSE MapOf(t)[k]
  <2>1. MapOf(t) = [k \in Key |-> MapOf(t)[k]]
    BY DEF MapOf
  <2> QED BY <1>1, <2>1
<1> HIDE DEF m
<1>4. ASSUME NEW k \in Key  PROVE IsAt(m[k], k, Entries(u))
  <2>1. CASE k = KeyOf[n]
    <3>1. m[k] = n
      BY <1>3, <2>1
    <3> QED BY <2>1, <3>1 DEF IsAt
  <2>2. CASE k # KeyOf[n]
    <3>1. m[k] = MapOf(t)[k]
      BY <1>3, <2>2
    <3> PICK v : v = m[k]
      OBVIOUS
    <3>2. IsAt(v, k, Entries(t))
      BY <1>2, <3>1
    <3>3. IsAt(v, k, Entries(u))
      BY <2>2, <3>2 DEF IsAt
    <3> QED BY <3>3
  <2> QED BY <2>1, <2>2
<1>5. m = MapOf(u)
  BY <1>3, <1>4, MapIs
<1> QED BY <1>5 DEF m

LEMMA MapRemove ==
  ASSUME Inputs, NEW t, Well(t), NEW u, Well(u), NEW n \in Entries(t),
         Entries(u) = Entries(t) \ {n}
  PROVE  /\ MapOf(u) = [MapOf(t) EXCEPT ![KeyOf[n]] = NULL]
         /\ MapOf(t)[KeyOf[n]] = n
<1> DEFINE m == [MapOf(t) EXCEPT ![KeyOf[n]] = NULL]
<1>1. /\ KeyOf[n] \in Key /\ DOMAIN MapOf(t) = Key
      /\ \A x, y \in Entries(t) : KeyOf[x] = KeyOf[y] => x = y
      /\ Entries(t) \in SUBSET Name
  BY EntryFacts DEF MapOf
<1>2. \A k \in Key : IsAt(MapOf(t)[k], k, Entries(t))
  BY MapAt
<1>3. m = [k \in Key |-> m[k]]
      /\ \A k \in Key : m[k] = IF k = KeyOf[n] THEN NULL ELSE MapOf(t)[k]
  <2>1. MapOf(t) = [k \in Key |-> MapOf(t)[k]]
    BY DEF MapOf
  <2> QED BY <1>1, <2>1
<1> HIDE DEF m
<1>4. ASSUME NEW k \in Key  PROVE IsAt(m[k], k, Entries(u))
  <2>1. CASE k = KeyOf[n]
    <3>1. m[k] = NULL
      BY <1>3, <2>1
    <3>2. \A x \in Entries(u) : KeyOf[x] # k
      BY <1>1, <2>1
    <3> QED BY <3>1, <3>2 DEF IsAt
  <2>2. CASE k # KeyOf[n]
    <3>1. m[k] = MapOf(t)[k]
      BY <1>3, <2>2
    <3> PICK v : v = m[k]
      OBVIOUS
    <3>2. IsAt(v, k, Entries(t))
      BY <1>2, <3>1
    <3>3. IsAt(v, k, Entries(u))
      BY <2>2, <3>2 DEF IsAt
    <3> QED BY <3>3
  <2> QED BY <2>1, <2>2
<1>5. m = MapOf(u)
  BY <1>3, <1>4, MapIs
<1>6. MapOf(t)[KeyOf[n]] = n
  <2> PICK v, k : v = MapOf(t)[k] /\ k = KeyOf[n]
    OBVIOUS
  <2>1. IsAt(v, k, Entries(t))
    BY <1>1, <1>2
  <2>2. v = n
    BY <2>1 DEF IsAt
  <2> QED BY <2>2
<1> QED BY <1>5, <1>6 DEF m

---------------------------------------------------------------------------
(* Growth *)

\* One call of h_table_new_entry_add.
LEMMA AddsOne ==
  ASSUME Inputs, NEW c \in Nat \ {0}, NEW t \in Tables(c), NEW n \in Name
  PROVE  /\ EntryAdded(t, n) \in Tables(c) /\ EntryAdded(t, n).size = t.size + 1
         /\ Len(ListOf(EntryAdded(t, n))) = Len(ListOf(t)) + 1
<1> PICK u, j : u = EntryAdded(t, n) /\ j = Index(t, KeyOf[n])
  OBVIOUS
<1>1. /\ u \in Tables(c) /\ u.size = t.size + 1 /\ j \in 0..c - 1
      /\ Len(u.pp_array[j]) = Len(t.pp_array[j]) + 1
      /\ \A i \in 0..c - 1 : i # j => u.pp_array[i] = t.pp_array[i]
  <2>1. OneMore(u, t, c, n, j)
    BY AddedFacts
  <2> QED BY <2>1 DEF OneMore
<1>2. Len(ListOf(u)) = Len(ListOf(t)) + 1
  BY <1>1, LengthMoves
<1> QED BY <1>1, <1>2

\* f adds the names of s to the empty table of d buckets, one after the other.
Adds(f, s, d) ==
  /\ f \in [0..Len(s) -> Tables(d)] /\ f[0] = Empty(d)
  /\ \A i \in 1..Len(s) : f[i] = EntryAdded(f[i - 1], s[i])

LEMMA IsAdded ==
  ASSUME Inputs, NEW d \in Nat \ {0}, NEW s \in Seq(Name)
  PROVE  \E f : Adds(f, s, d) /\ ListAdded(Empty(d), s) = f[Len(s)]
<1> PICK n, e : n = Len(s) /\ e = Empty(d)
  OBVIOUS
<1>1. n \in Nat /\ (\A i \in 1..n : s[i] \in Name) /\ e \in Tables(d)
  BY LenProperties, EmptyFacts
<1> DEFINE V == Tables(d)
           S == [p \in (1..n) \X V |-> EntryAdded(p[2], s[p[1]])]
           added[i \in 0..n] == IF i = 0 THEN e ELSE EntryAdded(added[i - 1], s[i])
           Def(fn) == fn = [i \in 0..n |-> IF i = 0 THEN e ELSE EntryAdded(fn[i - 1], s[i])]
<1>2. S \in [(1..n) \X V -> V]
  <2>1. ASSUME NEW p \in (1..n) \X V  PROVE EntryAdded(p[2], s[p[1]]) \in V
    <3>1. p[1] \in 1..n /\ p[2] \in Tables(d)
      OBVIOUS
    <3>2. s[p[1]] \in Name
      BY <1>1, <3>1
    <3> QED BY <3>1, <3>2, AddsOne
  <2> QED BY <2>1
<1>3. e \in V
  BY <1>1
<1>4. PICK g \in [0..n -> V] : IsChain(g, n, e, S)
  <2> HIDE DEF S, V
  <2> QED BY <1>1, <1>2, <1>3, ChainExists
<1>5. Def(g)
  <2>1. g = [i \in 0..n |-> g[i]]
    OBVIOUS
  <2>2. ASSUME NEW i \in 0..n
        PROVE  g[i] = IF i = 0 THEN e ELSE EntryAdded(g[i - 1], s[i])
    <3>1. CASE i = 0
      BY <1>4, <3>1 DEF IsChain
    <3>2. CASE i # 0
      <4>1. i \in 1..n /\ i - 1 \in 0..n
        BY <1>1, <3>2
      <4>2. <<i, g[i - 1]>> \in (1..n) \X V
        BY <1>4, <4>1
      <4>3. S[<<i, g[i - 1]>>] = EntryAdded(g[i - 1], s[i])
        BY <4>2
      <4>4. g[i] = S[<<i, g[i - 1]>>]
        BY <1>4, <4>1 DEF IsChain
      <4> QED BY <3>2, <4>3, <4>4
    <3> QED BY <3>1, <3>2
  <2> QED BY <2>1, <2>2
<1>6. Def(added) /\ ListAdded(e, s) = added[n]
  <2>1. added = CHOOSE fn : Def(fn)
    OBVIOUS
  <2>2. Def(CHOOSE fn : Def(fn))
    <3> HIDE DEF Def
    <3> QED BY <1>5
  <2>3. ListAdded(e, s) = added[n]
    BY DEF ListAdded
  <2> HIDE DEF added
  <2> QED BY <2>1, <2>2, <2>3
<1> HIDE DEF added
<1>7. PICK f : f = added
  OBVIOUS
<1>8. f = [i \in 0..n |-> f[i]] /\ f[0] = e
      /\ \A i \in 1..n : f[i] = EntryAdded(f[i - 1], s[i])
  <2>1. f = [i \in 0..n |-> IF i = 0 THEN e ELSE EntryAdded(f[i - 1], s[i])]
    BY <1>6, <1>7
  <2>2. \A i \in 0..n : f[i] = IF i = 0 THEN e ELSE EntryAdded(f[i - 1], s[i])
    BY <2>1
  <2>3. 0 \in 0..n /\ \A i \in 1..n : i \in 0..n /\ i # 0
    BY <1>1
  <2>4. f = [i \in 0..n |-> f[i]]
    BY <2>1
  <2> QED BY <2>2, <2>3, <2>4
<1>9. \A i \in 0..n : f[i] \in Tables(d)
  <2> DEFINE H == {i \in 0..n : f[i] \in Tables(d)}
  <2>1. 0 \in H
    <3>1. 0 \in 0..n
      BY <1>1
    <3>2. f[0] \in Tables(d)
      BY <1>1, <1>8, Zenon
    <3> QED BY <3>1, <3>2
  <2>2. ASSUME NEW i \in 1..n, i - 1 \in H  PROVE i \in H
    <3>1. f[i - 1] \in Tables(d) /\ s[i] \in Name
      BY <1>1, <2>2
    <3>2. EntryAdded(f[i - 1], s[i]) \in Tables(d)
      BY <3>1, AddsOne
    <3>3. f[i] = EntryAdded(f[i - 1], s[i])
      BY <1>8
    <3>4. i \in 0..n
      BY <1>1
    <3> QED BY <3>2, <3>3, <3>4
  <2>3. \A i \in 0..n : i \in H
    <3> HIDE DEF H
    <3> QED BY <1>1, <2>1, <2>2, UpTo
  <2> QED BY <2>3
<1>10. Adds(f, s, d)
  BY <1>8, <1>9 DEF Adds
<1> QED BY <1>6, <1>7, <1>10

\* After i insertions.
HasAdded(t, s, d, i) ==
  /\ t \in Tables(d) /\ Placed(t) /\ NoRepeat(t)
  /\ t.size = i /\ Len(ListOf(t)) = i
  /\ \A x : x \in Entries(t) <=> \E p \in 1..i : x = s[p]

LEMMA AddsUpTo ==
  ASSUME Inputs, NEW d \in Nat \ {0}, NEW s \in Seq(Name), DistinctKeys(s),
         NEW f, Adds(f, s, d)
  PROVE  HasAdded(f[Len(s)], s, d, Len(s))
<1> PICK n : n = Len(s)
  OBVIOUS
<1>1. n \in Nat /\ \A i \in 1..n : s[i] \in Name
  BY LenProperties
<1> DEFINE H == {i \in 0..n : HasAdded(f[i], s, d, i)}
<1>2. 0 \in H
  <2>1. 0 \in 0..n /\ f[0] = Empty(d)
    BY <1>1 DEF Adds
  <2>2. HasAdded(Empty(d), s, d, 0)
    BY EmptyFacts, EmptyList DEF HasAdded
  <2> QED BY <2>1, <2>2
<1>3. ASSUME NEW i \in 1..n, i - 1 \in H  PROVE i \in H
  <2> PICK t, m, x : t = f[i - 1] /\ m = i - 1 /\ x = s[i]
    OBVIOUS
  <2>1. /\ m \in Nat /\ m + 1 = i /\ i \in 0..n /\ x \in Name
        /\ f[i] = EntryAdded(t, x)
    <3>1. m \in Nat /\ m + 1 = i /\ i \in 0..n
      BY <1>1
    <3> QED BY <1>1, <3>1 DEF Adds
  <2>2. HasAdded(t, s, d, m)
    BY <1>3
  <2>3. \A y \in Entries(t) : KeyOf[y] # KeyOf[x]
    <3> SUFFICES ASSUME NEW y \in Entries(t), KeyOf[y] = KeyOf[x]  PROVE FALSE
      OBVIOUS
    <3>1. PICK p \in 1..m : y = s[p]
      BY <2>2 DEF HasAdded
    <3>2. p \in 1..n /\ p # i
      BY <1>1, <2>1
    <3> QED BY <3>1, <3>2 DEF DistinctKeys
  <2> PICK u : u = f[i]
    OBVIOUS
  <2>4. Entries(u) = Entries(t) \cup {x} /\ Placed(u) /\ NoRepeat(u)
    BY <2>1, <2>2, <2>3, AddedKeeps DEF HasAdded
  <2>5. u \in Tables(d) /\ u.size = m + 1 /\ Len(ListOf(u)) = m + 1
    <3>1. t \in Tables(d) /\ t.size = m /\ Len(ListOf(t)) = m
      BY <2>2 DEF HasAdded
    <3>2. /\ EntryAdded(t, x) \in Tables(d) /\ EntryAdded(t, x).size = t.size + 1
          /\ Len(ListOf(EntryAdded(t, x))) = Len(ListOf(t)) + 1
      BY <2>1, <3>1, AddsOne
    <3>3. u = EntryAdded(t, x)
      BY <2>1
    <3> QED BY <3>1, <3>2, <3>3, Zenon
  <2>6. \A y : y \in Entries(u) <=> \E p \in 1..i : y = s[p]
    <3>1. \A p : p \in 1..i <=> p \in 1..m \/ p = i
      BY <2>1
    <3>2. \A y : y \in Entries(t) <=> \E p \in 1..m : y = s[p]
      BY <2>2 DEF HasAdded
    <3>3. \A y : y \in Entries(u) <=> y \in Entries(t) \/ y = x
      BY <2>4
    <3> QED BY <3>1, <3>2, <3>3, Zenon
  <2>7. HasAdded(u, s, d, i)
    BY <2>1, <2>4, <2>5, <2>6 DEF HasAdded
  <2> QED BY <2>1, <2>7
<1>4. \A i \in 0..n : i \in H
  <2> HIDE DEF H
  <2> QED BY <1>1, <1>2, <1>3, UpTo
<1>5. n \in 0..n
  BY <1>1
<1> QED BY <1>4, <1>5

\* size is exact and the table not overfull.
Good(t) == Well(t) /\ t.size = Len(ListOf(t)) /\ t.size <= t.capacity

LEMMA EmptyGood ==
  ASSUME NEW c \in Nat \ {0}
  PROVE  Good(Empty(c)) /\ Entries(Empty(c)) = {} /\ Empty(c).capacity = c
BY EmptyFacts, EmptyList DEF Good, Well

\* A larger table holds the entries of the smaller one.
LEMMA GrownGood ==
  ASSUME Inputs, NEW t, Good(t), NEW d \in Nat \ {0}, d > t.capacity,
         NEW u, u = Resized(t, d)
  PROVE  Good(u) /\ Entries(u) = Entries(t) /\ u.size = t.size /\ u.capacity = d
<1> PICK c, s : c = t.capacity /\ s = ListOf(t)
  OBVIOUS
<1>1. /\ c \in Nat \ {0} /\ t \in Tables(c) /\ Placed(t) /\ NoRepeat(t)
      /\ t.size = Len(s) /\ t.size <= c /\ t.size \in Nat
  BY TableFacts DEF Good, Well
<1>2. s \in Seq(Name) /\ DistinctKeys(s) /\ \A x : x \in Elems(s) <=> x \in Entries(t)
  BY <1>1, ListFacts
<1>3. u = ListAdded(Empty(d), s)
  <2>1. ~(d < t.capacity)
    BY <1>1
  <2> QED BY <2>1 DEF Resized
<1>4. PICK f : Adds(f, s, d) /\ u = f[Len(s)]
  BY <1>2, <1>3, IsAdded
<1>5. HasAdded(u, s, d, Len(s))
  BY <1>2, <1>4, AddsUpTo
<1>6. Entries(u) = Entries(t)
  BY <1>2, <1>5 DEF HasAdded, Elems
<1>7. u \in Tables(d) /\ u.capacity = d /\ Placed(u) /\ NoRepeat(u)
  BY <1>5, TableFacts DEF HasAdded
<1>8. u.size = t.size /\ u.size = Len(ListOf(u))
  BY <1>1, <1>5 DEF HasAdded
<1>9. u.size <= d
  BY <1>1, <1>8
<1> QED BY <1>6, <1>7, <1>8, <1>9 DEF Good, Well

LEMMA NextPrimesFacts ==
  ASSUME NEW c \in Nat \ {0}, NEW d \in P!NextPrimes(c)
  PROVE  d \in Nat \ {0} /\ d # c
<1> DEFINE first == IF c % 2 = 0 THEN c + 1 ELSE c + 2
           last == ((2 * first) % 2^16) - 1
<1>1. first \in Nat /\ first > c
  OBVIOUS
<1> HIDE DEF last
<1>2. CASE c <= 1
  BY <1>2 DEF P!NextPrimes
<1>3. CASE c = 2
  BY <1>3 DEF P!NextPrimes
<1>4. CASE c > 2
  <2>1. d \in first..last \/ d = 1
    BY <1>4 DEF P!NextPrimes, P!FAILURE, last
  <2> HIDE DEF first
  <2>2. CASE d \in first..last
    <3>1. d \in Int /\ d >= first
      BY <2>2
    <3> QED BY <1>1, <3>1
  <2>3. CASE d = 1
    BY <1>4, <2>3
  <2> QED BY <2>1, <2>2, <2>3
<1> QED BY <1>2, <1>3, <1>4

\* What h_table_re_hash leaves: a table that is as it was, with room; an empty
\* one, if next_prime fails; a larger one with the same entries.
LEMMA ReHashGood ==
  ASSUME Inputs, NEW t, Good(t), NEW u \in ReHashed(t)
  PROVE  /\ Good(u)
         /\ \/ u = t /\ u.size < u.capacity
            \/ u.capacity < t.capacity /\ Overloaded(t)
               /\ u.capacity \in P!NextPrimes(t.capacity)
            \/ u.capacity > t.capacity /\ Entries(u) = Entries(t) /\ u.size < u.capacity
<1> PICK c : c = t.capacity
  OBVIOUS
<1>1. c \in Nat \ {0} /\ t.size \in Nat /\ t.size <= c /\ t \in Tables(c)
  BY TableFacts DEF Good, Well
<1>2. CASE ~Overloaded(t)
  <2>1. u = t
    BY <1>2 DEF ReHashed
  <2>2. t.size < c
    BY <1>1, <1>2 DEF Overloaded
  <2> QED BY <2>1, <2>2
<1>3. CASE Overloaded(t)
  <2>1. PICK d \in P!NextPrimes(c) : u = Resized(t, d)
    BY <1>1, <1>3 DEF ReHashed
  <2>2. d \in Nat \ {0} /\ d # c
    BY <1>1, NextPrimesFacts
  <2>3. CASE d < c
    <3>1. u = Empty(d)
      BY <2>1, <2>3 DEF Resized
    <3>2. Good(u) /\ u.capacity = d
      BY <2>2, <3>1, EmptyGood
    <3> QED BY <1>3, <2>3, <3>2
  <2>4. CASE d > c
    <3>1. Good(u) /\ Entries(u) = Entries(t) /\ u.size = t.size /\ u.capacity = d
      BY <2>1, <2>2, <2>4, GrownGood
    <3>2. u.size < u.capacity
      BY <1>1, <2>2, <2>4, <3>1
    <3> QED BY <2>4, <3>1, <3>2
  <2> QED BY <1>1, <2>2, <2>3, <2>4
<1> QED BY <1>2, <1>3

LEMMA AddGood ==
  ASSUME Inputs, NEW t, Good(t), t.size < t.capacity, NEW n \in Name,
         ~HasKey(t, KeyOf[n]), NEW u, u = EntryAdded(t, n)
  PROVE  /\ Good(u) /\ Entries(u) = Entries(t) \cup {n}
         /\ \A x \in Entries(t) : KeyOf[x] # KeyOf[n]
<1> PICK c : c = t.capacity
  OBVIOUS
<1>1. /\ c \in Nat \ {0} /\ t \in Tables(c) /\ Placed(t) /\ NoRepeat(t)
      /\ t.size = Len(ListOf(t)) /\ t.size < c /\ t.size \in Nat
  BY TableFacts DEF Good, Well
<1>2. \A x \in Entries(t) : KeyOf[x] # KeyOf[n]
  BY WellAt DEF Good, Key
<1>3. Entries(u) = Entries(t) \cup {n} /\ Placed(u) /\ NoRepeat(u)
  BY <1>1, <1>2, AddedKeeps
<1>4. u \in Tables(c) /\ u.size = t.size + 1 /\ Len(ListOf(u)) = Len(ListOf(t)) + 1
  BY <1>1, AddsOne
<1>5. u.capacity = c
  BY <1>1, <1>4, TableFacts
<1>6. u.size = Len(ListOf(u)) /\ u.size <= c
  BY <1>1, <1>4
<1> QED BY <1>1, <1>2, <1>3, <1>4, <1>5, <1>6 DEF Good, Well

LEMMA RemoveGood ==
  ASSUME Inputs, NEW t, Good(t), NEW k \in Key, NEW i \in DOMAIN Bucket(t, k),
         NEW n, n = Bucket(t, k)[i], KeyOf[n] = k,
         NEW u, Removed(u, t, Index(t, k), i)
  PROVE  Good(u) /\ n \in Entries(t) /\ Entries(u) = Entries(t) \ {n}
<1> PICK c, j : c = t.capacity /\ j = Index(t, k)
  OBVIOUS
<1>1. /\ c \in Nat \ {0} /\ t \in Tables(c) /\ Placed(t) /\ NoRepeat(t)
      /\ t.size = Len(ListOf(t)) /\ t.size <= c /\ t.size \in Nat
  BY TableFacts DEF Good, Well
<1>2. j \in 0..c - 1 /\ Bucket(t, k) = t.pp_array[j] /\ Bucket(t, k) \in Seq(Name)
  BY WellAt DEF Good, Bucket
<1>3. i \in 1..Len(t.pp_array[j]) /\ n = t.pp_array[j][i]
  BY <1>2
<1>4. n \in Elems(t.pp_array[j]) /\ n \in Entries(t)
  BY <1>2, <1>3 DEF Elems, Entries
<1>5. t.size # 0
  <2> PICK s : s = ListOf(t)
    OBVIOUS
  <2>1. s \in Seq(Name) /\ n \in Elems(s)
    BY <1>1, <1>4, ListFacts
  <2>2. Len(s) # 0
    BY <2>1 DEF Elems
  <2> QED BY <1>1, <2>2
<1>6. Removed(u, t, j, i)
  OBVIOUS
<1>7. /\ u \in Tables(c) /\ u.size = t.size - 1
      /\ Len(u.pp_array[j]) = Len(t.pp_array[j]) - 1
      /\ \A m \in 0..c - 1 : m # j => u.pp_array[m] = t.pp_array[m]
      /\ Entries(u) = Entries(t) \ {n} /\ Placed(u) /\ NoRepeat(u)
  <2>1. OneLess(u, t, c, n, j)
    BY <1>1, <1>2, <1>3, <1>5, <1>6, RemovedKeeps
  <2> QED BY <2>1 DEF OneLess
<1>8. Len(ListOf(u)) = Len(ListOf(t)) - 1
  <2>1. Len(t.pp_array[j]) \in Nat /\ Len(ListOf(t)) \in Nat
    BY <1>1, <1>2
  <2> PICK d : d = -1
    OBVIOUS
  <2>2. d \in Int /\ Len(u.pp_array[j]) = Len(t.pp_array[j]) + d
    BY <1>7, <2>1
  <2>3. u \in Tables(c) /\ \A m \in 0..c - 1 : m # j => u.pp_array[m] = t.pp_array[m]
    BY <1>7
  <2>4. Len(ListOf(u)) = Len(ListOf(t)) + d
    BY <1>1, <1>2, <2>2, <2>3, LengthMoves
  <2> QED BY <2>1, <2>4
<1>9. u.capacity = c
  BY <1>1, <1>7, TableFacts
<1>10. u.size = Len(ListOf(u)) /\ u.size <= c
  BY <1>1, <1>7, <1>8
<1> QED BY <1>1, <1>4, <1>7, <1>9, <1>10 DEF Good, Well

---------------------------------------------------------------------------
(* The size of a table *)

\* What an insertion leaves, and what it answers.
LEMMA NewEntryLeaves ==
  ASSUME Inputs, NEW t, Good(t), NEW n \in Name, NEW u \in ReHashed(t)
  PROVE  /\ Good(u)
         /\ ~(t.size > t.capacity \/ u.capacity < t.capacity \/ HasKey(u, KeyOf[n]))
              => Good(EntryAdded(u, n))
<1>1. /\ Good(u)
      /\ \/ u = t /\ u.size < u.capacity
         \/ u.capacity < t.capacity /\ Overloaded(t)
            /\ u.capacity \in P!NextPrimes(t.capacity)
         \/ u.capacity > t.capacity /\ Entries(u) = Entries(t) /\ u.size < u.capacity
  BY ReHashGood
<1>2. ASSUME ~(t.size > t.capacity \/ u.capacity < t.capacity \/ HasKey(u, KeyOf[n]))
      PROVE  Good(EntryAdded(u, n))
  <2>1. u.size < u.capacity /\ ~HasKey(u, KeyOf[n])
    BY <1>1, <1>2
  <2> QED BY <1>1, <2>1, AddGood
<1> QED BY <1>1, <1>2

LEMMA NextGood ==
  ASSUME Inputs, Good(table), [Next]_vars
  PROVE  Good(table')
<1>1. ASSUME NEW n \in Name, NewEntry(n)  PROVE Good(table')
  <2> PICK u \in ReHashed(table) :
        \/ Refused(u, n) /\ table' = u
        \/ ~Refused(u, n) /\ table' = EntryAdded(u, n)
    BY <1>1 DEF NewEntry
  <2>1. Good(u) /\ (~Refused(u, n) => Good(EntryAdded(u, n)))
    BY NewEntryLeaves DEF Refused
  <2> QED BY <2>1
<1>2. ASSUME NEW k \in Key, ReturnEntry(k)  PROVE Good(table')
  BY <1>2 DEF ReturnEntry
<1>3. ASSUME NEW k \in Key, DestroyEntry(k)  PROVE Good(table')
  <2>1. CASE UNCHANGED table
    BY <2>1
  <2>2. CASE \E i \in DOMAIN Bucket(table, k) :
               /\ KeyOf[Bucket(table, k)[i]] = k
               /\ Removed(table', table, Index(table, k), i)
    BY <2>2, RemoveGood
  <2> QED BY <1>3, <2>1, <2>2 DEF DestroyEntry, Removed
<1>4. ASSUME Destroy  PROVE Good(table')
  BY <1>4, EmptyGood DEF Destroy, Inputs
<1>5. CASE UNCHANGED vars
  BY <1>5 DEF vars
<1> QED BY <1>1, <1>2, <1>3, <1>4, <1>5 DEF Next

\* In every state of a table its size is the number of its entries, and there
\* are no more of them than buckets (h_table_new_entry, h_table_destroy_entry,
\* h_table_re_hash), whatever next_prime returns, FAILURE among it.
THEOREM SizeExact == ASSUME Inputs PROVE Spec => []LoadExact
<1>1. Init => Good(table)
  BY EmptyGood DEF Init, Inputs
<1>2. Good(table) /\ [Next]_vars => Good(table)'
  BY NextGood
<1>3. Good(table) => LoadExact
  BY DEF Good, LoadExact
<1> QED BY <1>1, <1>2, <1>3, PTL DEF Spec

---------------------------------------------------------------------------
(* A table is a map *)

LEMMA FewEntries ==
  ASSUME Inputs, NEW t, Good(t)
  PROVE  t.size \in Nat /\ Cardinality(Name) \in Nat /\ t.size <= Cardinality(Name)
<1> PICK s, n : s = ListOf(t) /\ n = t.size
  OBVIOUS
<1>1. s \in Seq(Name) /\ DistinctKeys(s) /\ n = Len(s) /\ n \in Nat
  BY ListFacts, TableFacts DEF Good, Well
<1>2. s \in Injection(1..n, Name)
  <2>1. s \in [1..n -> Name]
    BY <1>1
  <2>2. \A p, q \in 1..n : s[p] = s[q] => p = q
    BY <1>1 DEF DistinctKeys
  <2> QED BY <2>1, <2>2 DEF Injection, IsInjective
<1>3. Cardinality(1..n) <= Cardinality(Name)
  BY <1>2, FS_Injection DEF Inputs
<1>4. Cardinality(1..n) = n
  <2>1. 1 \in Int /\ n \in Int
    BY <1>1
  <2>2. Cardinality(1..n) = IF 1 > n THEN 0 ELSE n - 1 + 1
    BY <2>1, FS_Interval, Zenon
  <2> QED BY <1>1, <2>2
<1>5. Cardinality(Name) \in Nat
  BY FS_CardinalityType DEF Inputs
<1> QED BY <1>1, <1>3, <1>4, <1>5

\* No table shrinks.
LEMMA Grows ==
  ASSUME Inputs, Growth, NEW t, Good(t), Overloaded(t), NEW d \in P!NextPrimes(t.capacity)
  PROVE  d > t.capacity
<1> PICK c, n, m : c = t.capacity /\ n = t.size /\ m = Cardinality(Name)
  OBVIOUS
<1>1. c \in Nat \ {0} /\ n \in Nat /\ m \in Nat /\ n <= m /\ 4 * n >= 3 * c
  BY FewEntries DEF Good, Well, Overloaded
<1>2. c \in 0..(4 * m) \div 3
  <2>1. 4 * m >= 3 * c
    BY <1>1
  <2> QED BY <1>1, <2>1
<1> QED BY <1>2 DEF Growth

LEMMA NewEntryMaps ==
  ASSUME Inputs, Growth, NEW t, Good(t), NEW n \in Name, NEW u \in ReHashed(t)
  PROVE  /\ t.size > t.capacity \/ u.capacity < t.capacity \/ HasKey(u, KeyOf[n])
              => MapOf(u) = MapOf(t) /\ MapOf(t)[KeyOf[n]] # NULL
         /\ ~(t.size > t.capacity \/ u.capacity < t.capacity \/ HasKey(u, KeyOf[n]))
              => /\ MapOf(EntryAdded(u, n)) = [MapOf(t) EXCEPT ![KeyOf[n]] = n]
                 /\ MapOf(t)[KeyOf[n]] = NULL
<1>1. /\ Good(u)
      /\ \/ u = t /\ u.size < u.capacity
         \/ u.capacity < t.capacity /\ Overloaded(t)
            /\ u.capacity \in P!NextPrimes(t.capacity)
         \/ u.capacity > t.capacity /\ Entries(u) = Entries(t) /\ u.size < u.capacity
  BY ReHashGood
<1>2. t.capacity \in Nat /\ u.capacity \in Nat /\ t.size \in Nat /\ t.size <= t.capacity
      /\ Well(t) /\ Well(u) /\ KeyOf[n] \in Key
  BY <1>1, FewEntries DEF Good, Well, Key
<1>3. ~(t.size > t.capacity \/ u.capacity < t.capacity)
      /\ Entries(u) = Entries(t) /\ u.size < u.capacity
  <2>1. CASE u.capacity < t.capacity /\ Overloaded(t)
             /\ u.capacity \in P!NextPrimes(t.capacity)
    <3>1. u.capacity > t.capacity
      BY <2>1, Grows
    <3> QED BY <1>2, <2>1, <3>1
  <2>2. CASE u = t /\ u.size < u.capacity
    BY <1>2, <2>2
  <2>3. CASE u.capacity > t.capacity /\ Entries(u) = Entries(t) /\ u.size < u.capacity
    BY <1>2, <2>3
  <2> QED BY <1>1, <2>1, <2>2, <2>3
<1>4. MapOf(u) = MapOf(t)
  BY <1>2, <1>3, MapSame
<1>5. MapOf(u)[KeyOf[n]] = NULL <=> ~HasKey(u, KeyOf[n])
  BY <1>2, MapAt
<1>6. ASSUME ~HasKey(u, KeyOf[n])
      PROVE  MapOf(EntryAdded(u, n)) = [MapOf(u) EXCEPT ![KeyOf[n]] = n]
  <2> PICK v : v = EntryAdded(u, n)
    OBVIOUS
  <2>1. /\ Good(v) /\ Entries(v) = Entries(u) \cup {n}
        /\ \A x \in Entries(u) : KeyOf[x] # KeyOf[n]
    BY <1>1, <1>3, <1>6, AddGood
  <2>2. Well(v)
    BY <2>1 DEF Good
  <2>3. MapOf(v) = [MapOf(u) EXCEPT ![KeyOf[n]] = n]
    BY <1>2, <2>1, <2>2, MapAdd
  <2> QED BY <2>3
<1>7. CASE HasKey(u, KeyOf[n])
  BY <1>4, <1>5, <1>7, Zenon
<1>8. CASE ~HasKey(u, KeyOf[n])
  BY <1>3, <1>4, <1>5, <1>6, <1>8, Zenon
<1> QED BY <1>7, <1>8

LEMMA NextMaps ==
  ASSUME Inputs, Growth, Good(table), [Next]_vars
  PROVE  [Abstract!Next]_(Abstract!vars)
<1>1. Map = MapOf(table) /\ Map' = MapOf(table')
  BY DEF Map, MapOf
<1>2. Well(table)
  BY DEF Good
<1>3. ASSUME NEW n \in Name, NewEntry(n)  PROVE Abstract!New(n)
  <2>1. PICK u \in ReHashed(table) :
          \/ Refused(u, n) /\ table' = u /\ Returns(<<"new", n>>, "FAILURE")
          \/ /\ ~Refused(u, n) /\ table' = EntryAdded(u, n)
             /\ Returns(<<"new", n>>, "SUCCESS")
    BY <1>3 DEF NewEntry
  <2>2. /\ Refused(u, n) => MapOf(u) = MapOf(table) /\ MapOf(table)[KeyOf[n]] # NULL
        /\ ~Refused(u, n)
             => /\ MapOf(EntryAdded(u, n)) = [MapOf(table) EXCEPT ![KeyOf[n]] = n]
                /\ MapOf(table)[KeyOf[n]] = NULL
    BY NewEntryMaps DEF Refused
  <2>3. CASE Refused(u, n)
    <3>1. Map' = Map /\ Map[KeyOf[n]] # NULL
      BY <1>1, <2>1, <2>2, <2>3
    <3>2. call' = <<"new", n>> /\ returned' = "FAILURE"
      BY <2>1, <2>3 DEF Returns
    <3> QED BY <3>1, <3>2, Zenon DEF Abstract!New
  <2>4. CASE ~Refused(u, n)
    <3>1. Map' = [Map EXCEPT ![KeyOf[n]] = n] /\ Map[KeyOf[n]] = NULL
      BY <1>1, <2>1, <2>2, <2>4
    <3>2. call' = <<"new", n>> /\ returned' = "SUCCESS"
      BY <2>1, <2>4 DEF Returns
    <3> QED BY <3>1, <3>2, Zenon DEF Abstract!New
  <2> QED BY <2>3, <2>4
<1>4. ASSUME NEW k \in Key, ReturnEntry(k)  PROVE Abstract!Return(k)
  <2>1. Found(Bucket(table, k), k) = MapOf(table)[k]
    BY <1>2, MapAt
  <2> QED BY <1>1, <1>4, <2>1 DEF ReturnEntry, Returns, Abstract!Return
<1>5. ASSUME NEW k \in Key, DestroyEntry(k)  PROVE Abstract!Destroy(k)
  <2>1. CASE \E i \in DOMAIN Bucket(table, k) :
               /\ KeyOf[Bucket(table, k)[i]] = k
               /\ Removed(table', table, Index(table, k), i)
               /\ Returns(<<"destroy", k>>, Bucket(table, k)[i])
    <3> PICK i \in DOMAIN Bucket(table, k) :
               /\ KeyOf[Bucket(table, k)[i]] = k
               /\ Removed(table', table, Index(table, k), i)
               /\ Returns(<<"destroy", k>>, Bucket(table, k)[i])
      BY <2>1
    <3> PICK n : n = Bucket(table, k)[i]
      OBVIOUS
    <3>1. Good(table') /\ n \in Entries(table) /\ Entries(table') = Entries(table) \ {n}
      BY RemoveGood
    <3>2. Well(table')
      BY <3>1 DEF Good
    <3>3. MapOf(table') = [MapOf(table) EXCEPT ![k] = NULL] /\ MapOf(table)[k] = n
      <4>1. /\ MapOf(table') = [MapOf(table) EXCEPT ![KeyOf[n]] = NULL]
            /\ MapOf(table)[KeyOf[n]] = n
        BY <1>2, <3>1, <3>2, MapRemove
      <4> QED BY <4>1
    <3> QED BY <1>1, <3>3 DEF Returns, Abstract!Destroy
  <2>2. CASE ~HasKey(table, k) /\ UNCHANGED table /\ Returns(<<"destroy", k>>, NULL)
    <3>1. MapOf(table)[k] = NULL
      BY <1>2, <2>2, MapAt
    <3>2. Map' = Map /\ Map[k] = NULL
      BY <1>1, <2>2, <3>1
    <3>3. Map = [Map EXCEPT ![k] = NULL]
      BY <3>2 DEF Map
    <3> QED BY <2>2, <3>2, <3>3, Zenon DEF Returns, Abstract!Destroy
  <2> QED BY <1>5, <2>1, <2>2 DEF DestroyEntry, Removed
<1>6. ASSUME Destroy  PROVE Abstract!DestroyAll
  <2>1. Good(table') /\ Entries(table') = {}
    BY <1>6, EmptyGood DEF Destroy, Inputs
  <2>2. MapOf(table') = [k \in Key |-> NULL]
    BY <2>1, MapEmpty DEF Good
  <2> QED BY <1>1, <1>6, <2>2 DEF Destroy, Returns, Abstract!DestroyAll, Abstract!Nothing
<1>7. CASE UNCHANGED vars
  BY <1>1, <1>7 DEF vars, Abstract!vars
<1> QED BY <1>3, <1>4, <1>5, <1>6, <1>7 DEF Next, Abstract!Next

\* A table behaves as a map from keys to names: what has been entered is found
\* and destroyed, through every growth, and a second entry with one key is
\* refused (h_table_new_entry, h_table_return_entry, h_table_destroy_entry,
\* h_table_destroy).
THEOREM IsMap == ASSUME Inputs, Growth PROVE Spec => TableIsMap
<1>1. Init => Good(table) /\ Abstract!Init
  <2> SUFFICES ASSUME Init  PROVE Good(table) /\ Abstract!Init
    OBVIOUS
  <2>1. Good(table) /\ Entries(table) = {}
    BY EmptyGood DEF Init, Inputs
  <2>2. MapOf(table) = [k \in Key |-> NULL]
    BY <2>1, MapEmpty DEF Good
  <2>3. Map = MapOf(table)
    BY DEF Map, MapOf
  <2> QED BY <2>1, <2>2, <2>3 DEF Init, Abstract!Init, Abstract!Nothing
<1>2. Good(table) /\ [Next]_vars => Good(table)'
  BY NextGood
<1>3. Good(table) /\ [Next]_vars => [Abstract!Next]_(Abstract!vars)
  BY NextMaps
<1> QED BY <1>1, <1>2, <1>3, PTL DEF Spec, TableIsMap, Abstract!Spec
=============================================================================
