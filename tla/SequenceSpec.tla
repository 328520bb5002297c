---------------------------- MODULE SequenceSpec ----------------------------
(***************************************************************************)
(* What a list of cll_lib is to its callers: a finite sequence, positions  *)
(* counted from 0, the last call and its result.                           *)
(***************************************************************************)
EXTENDS Integers, Sequences, SequencesExt

CONSTANTS Position, Data, Char, NULL

VARIABLES seq, call, returned

vars == <<seq, call, returned>>

Init == seq = << >> /\ call = <<"init">> /\ returned = NULL

Returns(value) == returned' = value /\ UNCHANGED seq

Insert(position, d) ==
  /\ call' = <<"insert", position, d>>
  /\ IF position \in 0..Len(seq)
     THEN seq' = InsertAt(seq, position + 1, d) /\ returned' = "SUCCESS"
     ELSE Returns("FAILURE")

RemovePosition(position) ==
  /\ call' = <<"remove", position>>
  /\ IF position \in 0..Len(seq) - 1
     THEN seq' = RemoveAt(seq, position + 1) /\ returned' = "SUCCESS"
     ELSE Returns("FAILURE")

Return(position) ==
  /\ call' = <<"return", position>>
  /\ Returns(IF position \in 0..Len(seq) - 1 THEN seq[position + 1] ELSE NULL)

Pop ==
  /\ call' = <<"pop">>
  /\ IF seq # << >> THEN seq' = Front(seq) /\ returned' = Last(seq)
                    ELSE Returns(NULL)

Sort ==
  /\ call' = <<"sort">>
  /\ IF seq # << >>
     THEN /\ ToBag(seq') = ToBag(seq)
          /\ IsSorted([i \in DOMAIN seq' |-> Char[seq'[i]]], <=)
          /\ returned' = "SUCCESS"
     ELSE Returns("FAILURE")

Destroy == call' = <<"destroy">> /\ seq' = << >> /\ returned' = "SUCCESS"

Next ==
  \/ \E position \in Position :
       \/ \E d \in Data : Insert(position, d)
       \/ RemovePosition(position) \/ Return(position)
  \/ Pop \/ Sort \/ Destroy

Spec == Init /\ [][Next]_vars
=============================================================================
