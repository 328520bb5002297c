------------------------------ MODULE MCUsers ------------------------------
(***************************************************************************)
(* Instances of Users for TLC.  The names: the administrator, a one letter *)
(* name that begins his, another user, two long names that differ after    *)
(* KEY_LENGTH characters only, and the empty name of a blank line.         *)
(***************************************************************************)
EXTENDS Users, TLC

MCKeyOf == [n \in Name |-> IF n = "longname_02" THEN "longname_01" ELSE n]

MCExtends == [n \in Name |-> IF n = "" THEN Name
                             ELSE IF n = "a" THEN Name \cap {"a", "admin"}
                             ELSE {n}]
MCValidName == Name \ {""}
MCAdminName == Name \cap {"admin", "a", ""}

\* The shipped users.txt, and what the first registration makes of it.
AdminLine == [name |-> "admin", password |-> "pw"]
BobLine   == [name |-> "bob", password |-> "pw"]
Shipped     == [lines |-> <<AdminLine>>, unended |-> FALSE]
LongLine  == [name |-> "longname_01", password |-> "pw"]
WithLongName    == [lines |-> <<AdminLine, Blank, LongLine>>, unended |-> TRUE]
WithBlankAndBob == [lines |-> <<AdminLine, Blank, BobLine>>, unended |-> TRUE]

Symmetry == Permutations(Session)
=============================================================================
