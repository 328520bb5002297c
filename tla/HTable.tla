------------------------------- MODULE HTable -------------------------------
(***************************************************************************)
(* The hash table: h_table_lib/h_table.c.  The calls of one thread at a    *)
(* time (its users hold a mutex).  A bucket is a list of cll_lib, here the *)
(* sequence it implements (module Cll).                                    *)
(*                                                                         *)
(* Entries are the names of accounts or rooms; the key of a name is its    *)
(* first KEY_LENGTH characters.                                            *)
(***************************************************************************)
EXTENDS Integers, Sequences, FiniteSets, SequencesExt

CONSTANTS
  Name,
  KeyOf,      \* the first ten characters of a name
  Hash,       \* h_table_hash_function of a key
  Capacity,   \* the capacities a table is made with
  NULL

VARIABLES
  table,           \* h_table_t: pp_array, capacity, size
  call, returned   \* the last call (not in the code), and its result

vars == <<table, call, returned>>

P == INSTANCE Primes WITH value <- table.capacity, MaxValue <- 0

Key == {KeyOf[n] : n \in Name}

\* There is room in memory, no name is NULL, a hash is an unsigned 32 bit number in
\* an int64_t, and no table is made without buckets.
Inputs ==
  /\ IsFiniteSet(Name) /\ NULL \notin Name
  /\ Hash \in [Key -> Nat]
  /\ Capacity \subseteq Nat \ {0}

\* next_prime finds a larger number for the tables that these names can fill to
\* three quarters.
Growth ==
  \A c \in 0..(4 * Cardinality(Name)) \div 3 : \A d \in P!NextPrimes(c) : d > c

\* A bucket without a list is an empty one.
Empty(capacity) == [pp_array |-> [i \in 0..capacity - 1 |-> << >>],
                    capacity |-> capacity, size |-> 0]

Index(t, k) == Hash[k] % t.capacity
Bucket(t, k) == t.pp_array[Index(t, k)]

\* The first of some names that has a key.
Found(names, k) ==
  LET places == {i \in DOMAIN names : KeyOf[names[i]] = k}
  IN  IF places = {} THEN NULL
      ELSE names[CHOOSE i \in places : \A j \in places : i <= j]
HasKey(t, k) == \E i \in DOMAIN Bucket(t, k) : KeyOf[Bucket(t, k)[i]] = k

\* h_table_new_entry_add, of an entry that is no duplicate.
EntryAdded(t, n) ==
  [t EXCEPT !.pp_array[Index(t, KeyOf[n])] = Append(@, n), !.size = @ + 1]

\* h_table_list: the entries, bucket after bucket.
ListOf(t) ==
  LET listed[i \in 0..t.capacity] ==
        IF i = 0 THEN << >> ELSE listed[i - 1] \o t.pp_array[i - 1]
  IN  listed[t.capacity]

\* h_table_list_to_table.  No two entries of a list have one key.
ListAdded(t, names) ==
  LET added[i \in 0..Len(names)] ==
        IF i = 0 THEN t ELSE EntryAdded(added[i - 1], names[i])
  IN  added[Len(names)]

\* Faulty: the entries go back to the buckets of the smaller table; the size is
\* not reset.
ResizedUnhashed(t, capacity) ==
  [Empty(capacity) EXCEPT !.size = t.size,
     !.pp_array = [i \in DOMAIN @ |-> IF i < t.capacity THEN t.pp_array[i] ELSE @[i]]]
ResizedTwice(t, capacity) ==
  ListAdded([Empty(capacity) EXCEPT !.size = t.size], ListOf(t))

Resized(t, capacity) ==
  IF capacity < t.capacity THEN Empty(capacity)
                           ELSE ListAdded(Empty(capacity), ListOf(t))

Overloaded(t) == 4 * t.size >= 3 * t.capacity

\* What h_table_re_hash can leave.
ReHashed(t) ==
  IF Overloaded(t) /\ t.size <= t.capacity
  THEN {Resized(t, capacity) : capacity \in P!NextPrimes(t.capacity)}
  ELSE {t}

\* A load factor out of 0..1, no larger capacity, or a duplicate.
Refused(t, n) ==
  \/ table.size > table.capacity \/ t.capacity < table.capacity
  \/ HasKey(t, KeyOf[n])
---------------------------------------------------------------------------
Returns(what, value) == call' = what /\ returned' = value

\* Even for a duplicate the table grows first.
NewEntry(n) ==
  \E t \in ReHashed(table) :
    IF Refused(t, n)
    THEN table' = t /\ Returns(<<"new", n>>, "FAILURE")
    ELSE table' = EntryAdded(t, n) /\ Returns(<<"new", n>>, "SUCCESS")

ReturnEntry(k) ==
  /\ Returns(<<"return", k>>, Found(Bucket(table, k), k))
  /\ UNCHANGED table

DestroyEntry(k) ==
  \/ /\ HasKey(table, k)
     /\ \E i \in DOMAIN Bucket(table, k) :
          LET n == Bucket(table, k)[i]
          IN  /\ KeyOf[n] = k
              /\ table' = [table EXCEPT
                   !.pp_array[Index(table, k)] = RemoveAt(@, i), !.size = @ - 1]
              /\ Returns(<<"destroy", k>>, n)
  \/ /\ ~HasKey(table, k)
     /\ Returns(<<"destroy", k>>, NULL)
     /\ UNCHANGED table

\* h_table_destroy, and h_table_init of another one.
Destroy ==
  /\ \E c \in Capacity : table' = Empty(c)
  /\ Returns(<<"destroy">>, "SUCCESS")

Init ==
  /\ \E c \in Capacity : table = Empty(c)
  /\ call = <<"init">> /\ returned = NULL

Next ==
  \/ \E n \in Name : NewEntry(n)
  \/ \E k \in Key : ReturnEntry(k) \/ DestroyEntry(k)
  \/ Destroy

Spec == Init /\ [][Next]_vars
---------------------------------------------------------------------------
(* Properties *)

\* size is the number of entries through insertions, removals and growth, and
\* there are no more of them than buckets, so that h_table_load_factor stays in
\* 0..1 and no insertion is refused for the load.
LoadExact ==
  /\ table.size = Len(ListOf(table))
  /\ table.size <= table.capacity

\* However its entries are spread, a table is a map from keys to names: what
\* has been entered is found, and destroyed, until it is destroyed, in spite of
\* growth, and a second entry with one key is refused.
Map == [k \in Key |-> Found(ListOf(table), k)]

Abstract == INSTANCE MapSpec WITH map <- Map

TableIsMap == Abstract!Spec
=============================================================================
