------------------------------ MODULE MapSpec ------------------------------
(***************************************************************************)
(* What a table of h_table_lib is to its callers: at most one name for     *)
(* each key, the last call and its result.                                 *)
(***************************************************************************)
CONSTANTS Name, Key, KeyOf, NULL

VARIABLES map, call, returned

vars == <<map, call, returned>>

Nothing == [k \in Key |-> NULL]

Init == map = Nothing /\ call = <<"init">> /\ returned = NULL

New(n) ==
  /\ call' = <<"new", n>>
  /\ IF map[KeyOf[n]] = NULL
     THEN map' = [map EXCEPT ![KeyOf[n]] = n] /\ returned' = "SUCCESS"
     ELSE returned' = "FAILURE" /\ UNCHANGED map

Return(k) ==
  /\ call' = <<"return", k>>
  /\ returned' = map[k]
  /\ UNCHANGED map

Destroy(k) ==
  /\ call' = <<"destroy", k>>
  /\ returned' = map[k]
  /\ map' = [map EXCEPT ![k] = NULL]

DestroyAll == call' = <<"destroy">> /\ returned' = "SUCCESS" /\ map' = Nothing

Next ==
  \/ \E n \in Name : New(n)
  \/ \E k \in Key : Return(k) \/ Destroy(k)
  \/ DestroyAll

Spec == Init /\ [][Next]_vars
=============================================================================
