-------------------------------- MODULE Cll --------------------------------
(***************************************************************************)
(* The circular linked list: cll_lib/cll.c.  One list, its nodes, and the  *)
(* calls of one thread at a time (its users hold a mutex).                 *)
(*                                                                         *)
(* The server uses init, insert_element_end, remove_element,               *)
(* return_element, size and destroy; the rest is used by cr_tester.c.      *)
(***************************************************************************)
EXTENDS Integers, Sequences, FiniteSets, SequencesExt

CONSTANTS
  Node,           \* what calloc can return
  Data,           \* what p_data points to
  Char,           \* the first char of it, by which cll_sort sorts
  NULL

\* NULL is no node and no data, memory is finite, and chars are compared as numbers.
ASSUME MemoryOK == NULL \notin Node /\ NULL \notin Data /\ IsFiniteSet(Node)
ASSUME CharOK == Char \in [Data -> Int]

VARIABLES
  p_head, p_tail, size,  \* cll_t
  node,                  \* node_t
  call, returned,        \* the last call (not in the code), and its result
  moved                  \* history: whether a sort has left p_tail behind

vars == <<p_head, p_tail, size, node, call, returned, moved>>

Free == [p_data |-> NULL, p_next |-> NULL]
Allocated == {n \in Node : node[n] # Free}

\* The nodes met on the way from p_head, k of them.
Walk(k) ==
  LET at[i \in 1..k] == IF i = 1 THEN p_head ELSE node[at[i - 1]].p_next
  IN  [i \in 1..k |-> at[i]]
NodeAt(position) == Walk(position + 1)[position + 1]

\* cll_sort does not set p_tail.  Whoever goes on with a list whose end it has
\* moved follows p_tail to the wrong node, or to one that has been freed: such a
\* list is only read, and sorted.  The server sorts none.
Finished == ~moved

\* cll_remove_element and cll_return_element let a position of size or size + 1
\* pass, and go round the ring.  No caller gives one.
Position == -1..Cardinality(Node) + 2
Valid == Position \ {size, size + 1}

Refuse(result) == returned' = result /\ UNCHANGED <<p_head, p_tail, size, node>>
---------------------------------------------------------------------------
(* Insertions *)

\* calloc, and the links of the new node.
Put(n, d, next) ==
  /\ n \in Node \ Allocated
  /\ node' = [node EXCEPT ![n] = [p_data |-> d, p_next |-> next]]

\* The same, and node before points to the new one.
PutAfter(before, n, d, next) ==
  /\ n \in Node \ Allocated
  /\ node' = [node EXCEPT ![n] = [p_data |-> d, p_next |-> next],
                          ![before].p_next = n]

EmptyListAdd(d) ==
  /\ p_head = NULL
  /\ \E n \in Node : Put(n, d, n) /\ p_head' = n /\ p_tail' = n
  /\ size' = 1
  /\ returned' = "SUCCESS"

InsertElementBegin(d) ==
  \/ EmptyListAdd(d)
  \/ /\ p_head # NULL /\ Finished
     /\ \E n \in Node : PutAfter(p_tail, n, d, p_head) /\ p_head' = n
     /\ size' = size + 1
     /\ returned' = "SUCCESS"
     /\ UNCHANGED p_tail

\* Faulty: p_tail stays.
InsertElementEndBefore(d) ==
  \/ EmptyListAdd(d)
  \/ /\ p_head # NULL /\ Finished
     /\ \E n \in Node : PutAfter(p_tail, n, d, p_head)
     /\ size' = size + 1
     /\ returned' = "SUCCESS"
     /\ UNCHANGED <<p_head, p_tail>>

InsertElementEnd(d) ==
  \/ EmptyListAdd(d)
  \/ /\ p_head # NULL /\ Finished
     /\ \E n \in Node : PutAfter(p_tail, n, d, p_head) /\ p_tail' = n
     /\ size' = size + 1
     /\ returned' = "SUCCESS"
     /\ UNCHANGED p_head

\* An empty list takes any position.
InsertElement(d, position) ==
  \/ size # 0 /\ position \notin 0..size /\ Refuse("FAILURE")
  \/ size # 0 /\ position = 0 /\ InsertElementBegin(d)
  \/ size # 0 /\ position = size /\ InsertElementEnd(d)
  \/ size = 0 /\ EmptyListAdd(d)
  \/ /\ position \in 1..size - 1 /\ Finished
     /\ LET before == NodeAt(position - 1)
        IN  \E n \in Node : PutAfter(before, n, d, node[before].p_next)
     /\ size' = size + 1
     /\ returned' = "SUCCESS"
     /\ UNCHANGED <<p_head, p_tail>>
---------------------------------------------------------------------------
(* Removals *)

RemoveOnly ==
  /\ size = 1
  /\ node' = [node EXCEPT ![p_head] = Free]
  /\ p_head' = NULL /\ p_tail' = NULL /\ size' = 0

\* Takes out the node after another one.
RemoveAfter(before) ==
  LET gone == node[before].p_next
  IN  /\ node' = [node EXCEPT ![before].p_next = node[gone].p_next, ![gone] = Free]
      /\ size' = size - 1

RemoveElementBegin ==
  \/ p_head = NULL /\ Refuse("FAILURE")
  \/ RemoveOnly /\ returned' = "SUCCESS"
  \/ /\ size > 1 /\ Finished
     /\ RemoveAfter(p_tail)
     /\ p_head' = node[p_head].p_next
     /\ returned' = "SUCCESS"
     /\ UNCHANGED p_tail

\* Faulty: the end of the list is forgotten.
TailAfterRemovalKept(position, before) == p_tail

TailAfterRemoval(position, before) == IF position = size - 1 THEN before ELSE p_tail

RemoveElement(position) ==
  \/ size = 0 /\ Refuse("FAILURE")
  \/ size # 0 /\ position \notin 0..size /\ Refuse("FAILURE")
  \/ size # 0 /\ position = 0 /\ RemoveElementBegin
  \/ /\ position \in 1..size - 1 /\ Finished
     /\ LET before == NodeAt(position - 1)
        IN RemoveAfter(before) /\ p_tail' = TailAfterRemoval(position, before)
     /\ returned' = "SUCCESS"
     /\ UNCHANGED p_head

RemoveElementEnd == RemoveElement(size - 1)

ReturnElementEnd ==
  \/ p_head = NULL /\ Refuse(NULL)
  \/ RemoveOnly /\ returned' = node[p_head].p_data
  \/ /\ size > 1 /\ Finished
     /\ \E before \in Allocated :
          /\ node[before].p_next = p_tail
          /\ RemoveAfter(before)
          /\ p_tail' = before
     /\ returned' = node[p_tail].p_data
     /\ UNCHANGED p_head

\* cll_destroy removes the first node until none is left; then cll_init.
Destroy ==
  /\ Finished
  /\ p_head' = NULL /\ p_tail' = NULL /\ size' = 0
  /\ node' = [n \in Node |-> Free]
  /\ returned' = "SUCCESS"
---------------------------------------------------------------------------
(* The rest *)

ReturnElement(position) ==
  Refuse(IF position \in 0..size - 1 THEN node[NodeAt(position)].p_data ELSE NULL)

\* cll_merge: of two equal ones the second goes first.
Merge[lists \in Seq(Node) \X Seq(Node)] ==
  LET a == lists[1]
      b == lists[2]
  IN  IF a = << >> \/ b = << >> THEN a \o b
      ELSE IF Char[node[Head(a)].p_data] < Char[node[Head(b)].p_data]
           THEN <<Head(a)>> \o Merge[<<Tail(a), b>>]
           ELSE <<Head(b)>> \o Merge[<<a, Tail(b)>>]

MergeSort[nodes \in Seq(Node)] ==
  LET half == Len(nodes) \div 2
  IN  IF Len(nodes) <= 1 THEN nodes
      ELSE Merge[<<MergeSort[SubSeq(nodes, 1, half)],
                   MergeSort[SubSeq(nodes, half + 1, Len(nodes))]>>]

\* The links and p_head change; p_tail does not.
SortElements ==
  \/ p_head = NULL /\ Refuse("FAILURE")
  \/ /\ p_head # NULL
     /\ LET ring == MergeSort[Walk(size)]
        IN  /\ p_head' = ring[1]
            /\ node' = [n \in Node |->
                 IF \E i \in 1..size : ring[i] = n
                 THEN LET i == CHOOSE i \in 1..size : ring[i] = n
                      IN  [node[n] EXCEPT !.p_next = ring[(i % size) + 1]]
                 ELSE node[n]]
     /\ returned' = "SUCCESS"
     /\ UNCHANGED <<p_tail, size>>
---------------------------------------------------------------------------
Init ==
  /\ p_head = NULL /\ p_tail = NULL /\ size = 0
  /\ node = [n \in Node |-> Free]
  /\ call = <<"init">> /\ returned = NULL
  /\ moved = FALSE

Call ==
  \/ \E d \in Data :
       \/ InsertElementBegin(d) /\ call' = <<"insert", 0, d>>
       \/ InsertElementEnd(d) /\ call' = <<"insert", size, d>>
       \/ \E position \in Position :
            /\ InsertElement(d, position)
            /\ call' = <<"insert", IF size = 0 THEN 0 ELSE position, d>>
  \/ \E position \in Valid :
       \/ RemoveElement(position) /\ call' = <<"remove", position>>
       \/ ReturnElement(position) /\ call' = <<"return", position>>
  \/ RemoveElementBegin /\ call' = <<"remove", 0>>
  \/ RemoveElementEnd /\ call' = <<"remove", size - 1>>
  \/ ReturnElementEnd /\ call' = <<"pop">>
  \/ SortElements /\ call' = <<"sort">>
  \/ Destroy /\ call' = <<"destroy">>

Next ==
  /\ Call
  /\ moved' = IF call'[1] = "sort" /\ p_head' # NULL
              THEN node'[p_tail'].p_next # p_head'
              ELSE moved

Spec == Init /\ [][Next]_vars
---------------------------------------------------------------------------
(* Properties *)

\* The nodes that have been allocated are those of the ring, which closes after
\* size of them: none is leaked, lost, or used after it was freed.
RingClosed ==
  LET ring == Walk(size)
  IN  /\ Allocated = {ring[i] : i \in 1..size}
      /\ Cardinality(Allocated) = size
      /\ size > 0 => node[ring[size]].p_next = p_head

\* Behind its links the list is a sequence: every call returns and changes what
\* the same call of a sequence would, wherever in the ring it takes place.
Contents ==
  LET ring == Walk(size)
  IN  [i \in 1..size |-> node[ring[i]].p_data]

Abstract == INSTANCE SequenceSpec WITH seq <- Contents

ListIsSequence == Abstract!Spec
=============================================================================
