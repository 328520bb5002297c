------------------------------- MODULE Queue -------------------------------
(***************************************************************************)
(* The queue of the thread pool: queue_lib/queue.c.  A doubly linked list, *)
(* filled at p_head and emptied at p_tail.  The calls of one thread at a   *)
(* time (the pool holds queue_access_mutex).                               *)
(***************************************************************************)
EXTENDS Integers, Sequences, FiniteSets

CONSTANTS Node, Data, NULL

VARIABLES
  p_head, p_tail, size,  \* queue_t
  node,                  \* queue_node_t
  call, returned         \* the last call (not in the code), and its result

vars == <<p_head, p_tail, size, node, call, returned>>

Free == [p_data |-> NULL, p_next |-> NULL, p_prev |-> NULL]
Allocated == {n \in Node : node[n] # Free}

Init ==
  /\ p_head = NULL /\ p_tail = NULL /\ size = 0
  /\ node = [n \in Node |-> Free]
  /\ call = <<"init">> /\ returned = NULL

Enqueue(d) ==
  /\ \E n \in Node \ Allocated :
       /\ p_head' = n
       /\ p_tail' = IF size = 0 THEN n ELSE p_tail
       /\ LET first == [p_data |-> d, p_prev |-> NULL, p_next |-> p_head]
          IN  node' = [m \in Node |-> IF m = n THEN first
                                      ELSE IF m = p_head THEN [node[m] EXCEPT !.p_prev = n]
                                      ELSE node[m]]
  /\ size' = size + 1
  /\ returned' = "SUCCESS"

\* Faulty: the queue is read at its head.
FirstData == node[p_head].p_data

LastData == node[p_tail].p_data

BeforeLast == node[p_tail].p_prev

TakeLast ==
  \/ /\ size = 1
     /\ p_head' = NULL /\ p_tail' = NULL /\ size' = 0
     /\ node' = [node EXCEPT ![p_tail] = Free]
  \/ /\ size > 1
     /\ p_tail' = BeforeLast
     /\ node' = [node EXCEPT ![p_tail] = Free, ![BeforeLast].p_next = NULL]
     /\ size' = size - 1
     /\ UNCHANGED p_head

\* With no free function, as the pool calls it; with one NULL is returned.
Dequeue ==
  \/ size = 0 /\ returned' = NULL /\ UNCHANGED <<p_head, p_tail, size, node>>
  \/ size # 0 /\ TakeLast /\ returned' = LastData

Peek ==
  /\ returned' = IF size = 0 THEN NULL ELSE LastData
  /\ UNCHANGED <<p_head, p_tail, size, node>>

\* queue_full_destroy frees from p_tail on, size times; then queue_init.
FullDestroy ==
  LET back[i \in 0..size - 1] == IF i = 0 THEN p_tail ELSE node[back[i - 1]].p_prev
  IN  /\ node' = [n \in Node |-> IF \E i \in 0..size - 1 : back[i] = n THEN Free
                                 ELSE node[n]]
      /\ p_head' = NULL /\ p_tail' = NULL /\ size' = 0
      /\ returned' = "SUCCESS"

Next ==
  \/ \E d \in Data : Enqueue(d) /\ call' = <<"insert", 0, d>>
  \/ Dequeue /\ call' = <<"pop">>
  \/ Peek /\ call' = <<"return", size - 1>>
  \/ FullDestroy /\ call' = <<"destroy">>

Spec == Init /\ [][Next]_vars
---------------------------------------------------------------------------
(* Property *)

\* Read from p_head along p_next, as queue_print does, the queue is a sequence
\* that is filled in front; what is taken along p_prev is its last element: the
\* two chains of pointers stay mirror images.
Contents ==
  LET at[i \in 1..size] == IF i = 1 THEN p_head ELSE node[at[i - 1]].p_next
  IN  [i \in 1..size |-> node[at[i]].p_data]

Abstract == INSTANCE SequenceSpec WITH
  Position <- -1..Cardinality(Node) - 1, Char <- [d \in Data |-> 0], seq <- Contents

QueueIsSequence == Abstract!Spec
=============================================================================
