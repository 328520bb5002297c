---------------------------- MODULE MCContainers ----------------------------
(***************************************************************************)
(* Cll, and instances of Queue, HTable and Primes, for TLC.  They share    *)
(* nothing: a behaviour is one of a list, or of a queue, or of a table, or *)
(* of the sizes of tables.                                                 *)
(*                                                                         *)
(* Two names begin with the same ten characters; the hashes of keys        *)
(* collide in some capacities and not in others.                           *)
(***************************************************************************)
EXTENDS Cll, TLC

CONSTANTS Odd, Name, Capacity, MaxValue

VARIABLES
  subject,
  q_head, q_tail, q_size, q_node, queue_call, queue_returned,
  table, table_call, table_returned,
  value

queueVars == <<q_head, q_tail, q_size, q_node, queue_call, queue_returned>>
tableVars == <<table, table_call, table_returned>>

MCChar == [d \in Data |-> IF d = Odd THEN 2 ELSE 1]
KeyOf == [n \in Name |-> IF n = "long2" THEN "long1" ELSE n]
Hash  == [k \in {KeyOf[n] : n \in Name} |->
            CASE k = "long1" -> 7 [] k = "b" -> 10 [] k = "c" -> 22
              [] k = "d" -> 30 [] k = "e" -> 37]

Line == INSTANCE Queue WITH
  p_head <- q_head, p_tail <- q_tail, size <- q_size, node <- q_node,
  call <- queue_call, returned <- queue_returned
Table == INSTANCE HTable WITH
  call <- table_call, returned <- table_returned
Sizes == INSTANCE Primes

\* What the proofs about HTable take from its users.
ASSUME Hypotheses == Table!Inputs /\ Table!Growth

MCInit ==
  /\ subject \in {"list", "queue", "table", "sizes"}
  /\ Init
  /\ Line!Init
  /\ Table!Init /\ (subject # "table" => table.capacity = 2)
  /\ Sizes!Init /\ (subject # "sizes" => value = 0)

MCNext ==
  \/ subject = "list" /\ Next /\ UNCHANGED <<queueVars, tableVars, value>>
  \/ subject = "queue" /\ Line!Next /\ UNCHANGED <<vars, tableVars, value>>
  \/ subject = "table" /\ Table!Next /\ UNCHANGED <<vars, queueVars, value>>
  \/ subject = "sizes" /\ Sizes!Next /\ UNCHANGED <<vars, queueVars, tableVars>>

MCSpec ==
  MCInit /\ [][MCNext /\ UNCHANGED subject]_<<subject, vars, queueVars, tableVars, value>>

Symmetry == Permutations(Node)
---------------------------------------------------------------------------
\* RingClosed and ListIsSequence are those of Cll.  Every queue behaves as a
\* sequence too, at whose end its pointers back arrive (Queue); ...
QueueIsSequence == Line!QueueIsSequence

\* ... the size of a table is that of its buckets and within its capacity
\* (HTable), ...
LoadExact == Table!LoadExact

\* ... which behave as a map, through every growth (HTable); ...
TableIsMap == Table!TableIsMap

\* ... and a table grows to the next prime or less (Primes).
NoPrimeSkipped == Sizes!NoPrimeSkipped
=============================================================================
