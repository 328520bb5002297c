------------------------------ MODULE ChatRoom ------------------------------
(***************************************************************************)
(* What the chat rooms promise, without locks, tables and log files: a     *)
(* room has members and a conversation; to chat is to be heard by all      *)
(* other members at once; who joins is told an end of the conversation and *)
(* then hears all of it.                                                   *)
(*                                                                         *)
(* If the connections are lossy, some may miss a chat, and nobody is sure  *)
(* to be told the log; what they hear is still in order.                   *)
(***************************************************************************)
EXTENDS Naturals, Sequences, FiniteSets

CONSTANTS Session, RoomName, MaxRooms, Lossy, NULL

VARIABLES
  conversation,  \* of each room, as a sequence of chats; NULL if there is no room
  members,       \* of each room
  told           \* what each member has been told since it joined

vars == <<conversation, members, told>>

Rooms == {n \in RoomName : conversation[n] # NULL}
Ends(seq) == {SubSeq(seq, i, Len(seq)) : i \in 1..Len(seq) + 1}
Member(s) == \E n \in RoomName : s \in members[n]

Init ==
  /\ conversation = [n \in RoomName |-> NULL]
  /\ members = [n \in RoomName |-> {}]
  /\ told = [s \in Session |-> << >>]

Create(n) ==
  /\ n \notin Rooms /\ Cardinality(Rooms) < MaxRooms
  /\ conversation' = [conversation EXCEPT ![n] = << >>]
  /\ UNCHANGED <<members, told>>

Delete(n) ==
  /\ n \in Rooms /\ members[n] = {}
  /\ conversation' = [conversation EXCEPT ![n] = NULL]
  /\ UNCHANGED <<members, told>>

Join(s, n) ==
  /\ n \in Rooms /\ ~Member(s)
  /\ members' = [members EXCEPT ![n] = @ \cup {s}]
  /\ \E log \in Ends(conversation[n]) :
       /\ log = << >> => Lossy \/ conversation[n] = << >>
       /\ told' = [told EXCEPT ![s] = log]
  /\ UNCHANGED conversation

Chat(s, n) ==
  LET chat == [from |-> s, n |-> Len(conversation[n]) + 1]
  IN
  /\ s \in members[n]
  /\ conversation' = [conversation EXCEPT ![n] = Append(@, chat)]
  /\ \E heard \in SUBSET (members[n] \ {s}) :
       /\ ~Lossy => heard = members[n] \ {s}
       /\ told' = [t \in Session |-> IF t \in heard THEN Append(told[t], chat)
                                                    ELSE told[t]]
  /\ UNCHANGED members

Leave(s, n) ==
  /\ s \in members[n]
  /\ members' = [members EXCEPT ![n] = @ \ {s}]
  /\ told' = [told EXCEPT ![s] = << >>]
  /\ UNCHANGED conversation

\* The process ends, and with it the rooms, whoever is in them.
End ==
  /\ conversation' = [n \in RoomName |-> NULL]
  /\ members' = [n \in RoomName |-> {}]
  /\ told' = [s \in Session |-> << >>]

Next ==
  \/ \E n \in RoomName : Create(n) \/ Delete(n)
  \/ \E s \in Session, n \in RoomName : Join(s, n) \/ Chat(s, n) \/ Leave(s, n)
  \/ End

Spec == Init /\ [][Next]_vars
=============================================================================
