------------------------------ MODULE MCRooms ------------------------------
(***************************************************************************)
(* Instances of Rooms for TLC.  No name begins another.  One name has 30   *)
(* characters, which fgets reads in two pieces, and shares its key with a  *)
(* shorter one.                                                            *)
(***************************************************************************)
EXTENDS Rooms, TLC

LongName == "lobbylobby of thirty character"
MCKeyOf == [n \in RoomName |-> IF n = LongName THEN "lobbylobby1" ELSE n]
MCPieces == [n \in RoomName |-> IF n = LongName THEN <<"head", "tail">> ELSE <<n>>]
MCExtends == [n \in RoomName |-> Piece \cap {n}]

\* Administrators are told apart from the others, and not among themselves.
Guests   == Permutations(Session \ Admins)
Everyone == {[x \in Session \cup Room |-> IF x \in Session THEN f[x] ELSE g[x]] :
               f \in {h \in Permutations(Session) : \A s \in Admins : h[s] \in Admins},
               g \in Permutations(Room)}
=============================================================================
