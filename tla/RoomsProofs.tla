---------------------------- MODULE RoomsProofs ---------------------------
(***************************************************************************)
(* Theorems about module Rooms, for every set of sessions, names and room  *)
(* structs and every limit: the types, the lookups that chat and leave     *)
(* keep without a lock, the members, the count and the list of rooms.  One *)
(* inductive invariant, IInv, carries them; its layers are defined first.  *)
(***************************************************************************)
EXTENDS Rooms, FiniteSetTheorems, FunctionTheorems, SequenceTheorems,
        NaturalsInduction, WellFoundedInduction, TLAPS
---------------------------------------------------------------------------
(* Keys: h_table_return_entry compares KEY_LENGTH characters *)

\* Every name has a key.
LEMMA KeyType == \A n \in RoomName : KeyOf[n] \in Key
BY ConstantsOK

\* The table is looked up by key in every lemma below.
USE KeyType DEF Lookup, AskedFor
---------------------------------------------------------------------------
(* The inductive invariant *)

\* Nothing is in the sequence twice.
Distinct(seq) == \A i, j \in DOMAIN seq : seq[i] = seq[j] => i = j

\* Sessions that hold rooms_mutex, and those that hold the room_mutex of the
\* room they have looked up.
HoldsTable(s) == pc[s] \in {"join", "list", "mutex"}
HoldsRoom(s)  == pc[s] \in {"said", "left", "left told"}

\* Each mutex is held by the session whose control says so.
Locks ==
  /\ \A s \in Session : HoldsTable(s) <=> rooms_mutex = s
  /\ \A s \in Session, r \in Room :
       HoldsRoom(s) /\ p_room[s] = r <=> room[r].room_mutex = s
  /\ \A s \in Session : p_room[s] = NULL <=> pc[s] \in {"out", "idle"}

\* The struct that the table has under a key is live, with a name that has
\* this key and a log.
Entry(k) ==
  /\ room[rooms_table[k]].state = "live"
  /\ room[rooms_table[k]].name \in RoomName
  /\ KeyOf[room[rooms_table[k]].name] = k
  /\ logs[room[rooms_table[k]].name] \in Seq(Chat)

\* The other structs are unused, torn, freed, or live on their way out.
Structs ==
  /\ \A k \in Key : rooms_table[k] # NULL => Entry(k)
  /\ \A r \in Room :
       /\ room[r].state = "unused" => room[r] = Unused
       /\ room[r].state # "unused" => room[r].name \in RoomName
       /\ room[r].room_mutex # NULL => room[r].state \in {"live", "torn"}
       /\ room[r].state = "live" =>
            \/ rooms_table[KeyOf[room[r].name]] = r
            \/ \E s \in Session : pc[s] = "list" /\ p_room[s] = r

\* What the control of a session says of its room.  In particular a session
\* that chats has looked up the room of the table that it is a member of, and
\* a leave never fails to find it there ("lost").
SessionOK(s) ==
  /\ pc[s] = "out" => /\ ~closing[s] /\ ~chatting[s] /\ p_ssl[s] = "open"
                      /\ p_chat_room[s] = NULL
  /\ pc[s] \notin {"lost", "lost told"}
  /\ closing[s] => pc[s] \in {"idle", "leave", "left", "left told"}
  /\ p_ssl[s] = "freed" => closing[s]
  /\ pc[s] \in {"join", "list", "mutex"} => ~chatting[s]
  /\ pc[s] \in {"chat", "said", "leave", "left", "left told"} => chatting[s]
  /\ pc[s] = "join" => Live(p_room[s])
  /\ pc[s] \in {"chat", "said", "leave"} =>
       rooms_table[KeyOf[p_chat_room[s]]] = p_room[s]
  /\ pc[s] = "list" => /\ room[p_room[s]].state = "live"
                       /\ rooms_table[KeyOf[room[p_room[s]].name]] = NULL
  /\ pc[s] = "mutex" => /\ room[p_room[s]].state = "torn"
                        /\ rooms_table[KeyOf[room[p_room[s]].name]] = NULL

Control == \A s \in Session : SessionOK(s)

\* The members of a room are the sessions that chat there, each once.
Members ==
  /\ \A s \in Session : Chats(s) =>
       p_chat_room[s] \in RoomName /\ rooms_table[KeyOf[p_chat_room[s]]] # NULL
  /\ \A s \in Session, r \in Room :
       s \in Elements(room[r].p_users)
         <=> Chats(s) /\ rooms_table[KeyOf[p_chat_room[s]]] = r
  /\ \A r \in Room : Distinct(room[r].p_users)

\* room_count is the number of rooms in the table and of those that have left
\* it and are not freed.
OutOfTable == {r \in Room : /\ room[r].state \in {"live", "torn"}
                            /\ rooms_table[KeyOf[room[r].name]] # r}

Counts ==
  /\ IsFiniteSet(OutOfTable)
  /\ room_count = Cardinality(TableKeys) + Cardinality(OutOfTable)

\* No room has more chats than MaxChats, with those that are looked up for; the
\* last one is that of the session that is about to send it.
Ahead(r) == {t \in Session : pc[t] = "chat" /\ p_room[t] = r}

Bounds ==
  /\ \A r \in Room : Len(room[r].chats) + Cardinality(Ahead(r)) <= MaxChats
  /\ \A s \in Session : pc[s] = "said" =>
       LET chats == room[p_room[s]].chats
       IN  chats # << >> /\ chats[Len(chats)] = s

\* rooms/ was not there when the server started.
Clean == server = "up" => ~rooms_dir

IInv ==
  TypeOK /\ Locks /\ Structs /\ Control /\ Members /\ Counts /\ Bounds /\ Clean
---------------------------------------------------------------------------
(* Steps of one session *)

\* A step of s: of what belongs to sessions, only what belongs to s changes.
StepOf(s) ==
  \A t \in Session \ {s} :
    /\ pc'[t] = pc[t] /\ closing'[t] = closing[t] /\ p_room'[t] = p_room[t]
    /\ chatting'[t] = chatting[t] /\ p_chat_room'[t] = p_chat_room[t]
    /\ p_ssl'[t] = p_ssl[t]

\* A step of s leaves the locks to those who hold them.
LEMMA LocksStep ==
  ASSUME IInv, NEW s \in Session, StepOf(s),
         HoldsTable(s)' <=> rooms_mutex' = s,
         \A t \in Session \ {s} : rooms_mutex' = t <=> rooms_mutex = t,
         \A r \in Room : /\ HoldsRoom(s)' /\ p_room'[s] = r
                               <=> room'[r].room_mutex = s
                         /\ \A t \in Session \ {s} :
                              room'[r].room_mutex = t <=> room[r].room_mutex = t,
         p_room'[s] = NULL <=> pc'[s] \in {"out", "idle"}
  PROVE  Locks'
<1>1. ASSUME NEW t \in Session
      PROVE  HoldsTable(t)' <=> rooms_mutex' = t
  <2>1. HoldsTable(t) <=> rooms_mutex = t
    BY DEF IInv, Locks
  <2> QED BY <2>1 DEF StepOf, HoldsTable
<1>2. ASSUME NEW t \in Session, NEW r \in Room
      PROVE  HoldsRoom(t)' /\ p_room'[t] = r <=> room'[r].room_mutex = t
  <2>1. HoldsRoom(t) /\ p_room[t] = r <=> room[r].room_mutex = t
    BY DEF IInv, Locks
  <2>2. CASE t = s
    BY <2>2
  <2>3. CASE t # s
    <3>1. UNCHANGED <<pc[t], p_room[t], p_chat_room[t]>>
      BY <2>3 DEF StepOf
    <3>2. HoldsRoom(t)' <=> HoldsRoom(t)
      BY <3>1 DEF HoldsRoom
    <3>3. room'[r].room_mutex = t <=> room[r].room_mutex = t
      BY <2>3
    <3> QED BY <2>1, <3>1, <3>2, <3>3
  <2> QED BY <2>2, <2>3
<1>3. ASSUME NEW t \in Session
      PROVE  p_room'[t] = NULL <=> pc'[t] \in {"out", "idle"}
  <2>1. p_room[t] = NULL <=> pc[t] \in {"out", "idle"}
    BY DEF IInv, Locks
  <2> QED BY <2>1 DEF StepOf
<1> QED BY <1>1, <1>2, <1>3 DEF Locks

\* A handler beyond its lookup has a room.
LEMMA HasRoom ==
  ASSUME IInv, NEW s \in Session, pc[s] \notin {"out", "idle"}
  PROVE  p_room[s] \in Room /\ p_room[s] # NULL
<1>1. p_room[s] \in Room \cup {NULL}
  BY DEF IInv, TypeOK
<1>2. p_room[s] # NULL
  BY DEF IInv, Locks
<1> QED BY <1>1, <1>2

\* Steps inside a room: table, count and names stay.
SameRooms ==
  /\ UNCHANGED <<rooms_table, room_count>>
  /\ \A q \in Room : /\ room'[q].state = room[q].state
                     /\ room'[q].name = room[q].name
                     /\ room[q].state \notin {"live", "torn"} => room'[q] = room[q]

\* A step after which the rooms and the table are the same keeps what the
\* invariant says about them.
LEMMA SameRoomsStep ==
  ASSUME IInv, NEW s \in Session, StepOf(s), SameRooms, pc[s] # "list",
         \A k \in Key : rooms_table[k] # NULL =>
           logs'[room[rooms_table[k]].name] \in Seq(Chat),
         SessionOK(s)'
  PROVE  Structs' /\ Control' /\ Counts'
<1>1. Structs'
  <2>1. ASSUME NEW k \in Key, rooms_table'[k] # NULL
        PROVE  Entry(k)'
    <3>1. rooms_table[k] \in Room /\ rooms_table[k] # NULL
      BY <2>1 DEF SameRooms, IInv, TypeOK
    <3>2. Entry(k)
      BY <3>1 DEF IInv, Structs
    <3> QED BY <3>1, <3>2 DEF SameRooms, Entry
  <2>2. ASSUME NEW q \in Room
        PROVE  /\ room'[q].state = "unused" => room'[q] = Unused
               /\ room'[q].state # "unused" => room'[q].name \in RoomName
               /\ room'[q].room_mutex # NULL => room'[q].state \in {"live", "torn"}
    BY DEF SameRooms, IInv, Structs
  <2>3. ASSUME NEW q \in Room, room'[q].state = "live"
        PROVE  \/ rooms_table'[KeyOf[room'[q].name]] = q
               \/ \E t \in Session : pc'[t] = "list" /\ p_room'[t] = q
    <3>1. \/ rooms_table[KeyOf[room[q].name]] = q
          \/ \E t \in Session : pc[t] = "list" /\ p_room[t] = q
      BY <2>3 DEF SameRooms, IInv, Structs
    <3> QED BY <3>1 DEF SameRooms, StepOf
  <2> QED BY <2>1, <2>2, <2>3 DEF Structs
<1>2. Control'
  <2>1. ASSUME NEW t \in Session \ {s} PROVE SessionOK(t)'
    <3>1. SessionOK(t) /\ (p_room[t] = NULL <=> pc[t] \in {"out", "idle"})
      BY DEF IInv, Control, Locks
    <3>2. p_room[t] \in Room \cup {NULL}
      BY DEF IInv, TypeOK
    <3>3. /\ pc'[t] = pc[t] /\ closing'[t] = closing[t] /\ p_room'[t] = p_room[t]
          /\ chatting'[t] = chatting[t] /\ p_chat_room'[t] = p_chat_room[t]
          /\ p_ssl'[t] = p_ssl[t] /\ rooms_table' = rooms_table
      BY DEF StepOf, SameRooms
    <3>4. p_room[t] # NULL =>
            /\ room'[p_room[t]].state = room[p_room[t]].state
            /\ room'[p_room[t]].name = room[p_room[t]].name
      BY <3>2 DEF SameRooms
    <3> QED BY <3>1, <3>3, <3>4 DEF SessionOK, Live
  <2> QED BY <2>1 DEF Control
<1>3. Counts'
  <2>1. OutOfTable' = OutOfTable /\ TableKeys' = TableKeys
    BY DEF OutOfTable, TableKeys, SameRooms
  <2> QED BY <2>1 DEF IInv, Counts, SameRooms
<1> QED BY <1>1, <1>2, <1>3

\* Steps that leave the members alone.
LEMMA MembersStep ==
  ASSUME IInv, NEW s \in Session, StepOf(s), UNCHANGED rooms_table,
         \A q \in Room : room'[q].p_users = room[q].p_users,
         Chats(s)' <=> Chats(s), Chats(s) => p_chat_room'[s] = p_chat_room[s]
  PROVE  Members'
<1>1. ASSUME NEW t \in Session
      PROVE  /\ Chats(t)' <=> Chats(t)
             /\ Chats(t) => p_chat_room'[t] = p_chat_room[t]
  BY DEF StepOf, Chats
<1> QED BY <1>1 DEF IInv, Members, Elements

\* Steps that start no chat and add none.
LEMMA BoundsStep ==
  ASSUME IInv, NEW s \in Session, StepOf(s), pc'[s] \notin {"chat", "said"},
         \A q \in Room : room'[q].chats = room[q].chats
  PROVE  Bounds'
<1>5. ASSUME NEW t \in Session, pc'[t] = "said"
      PROVE  LET chats == room'[p_room'[t]].chats
             IN  chats # << >> /\ chats[Len(chats)] = t
  <2>1. pc[t] = "said" /\ p_room'[t] = p_room[t]
    BY <1>5 DEF StepOf
  <2>2. p_room[t] \in Room
    BY <2>1, HasRoom
  <2> QED BY <2>1, <2>2 DEF IInv, Bounds
<1> SUFFICES ASSUME NEW r \in Room
             PROVE  Len(room'[r].chats) + Cardinality(Ahead(r)') <= MaxChats
  BY <1>5 DEF Bounds
<1>1. Ahead(r)' \in SUBSET Ahead(r)
  BY DEF Ahead, StepOf
<1>2. IsFiniteSet(Ahead(r))
  BY ConstantsOK, FS_Subset DEF Ahead
<1>3. /\ Cardinality(Ahead(r)') <= Cardinality(Ahead(r))
      /\ Cardinality(Ahead(r)') \in Nat /\ Cardinality(Ahead(r)) \in Nat
  BY <1>1, <1>2, FS_Subset, FS_CardinalityType
<1>4. Len(room[r].chats) \in Nat
  BY DEF IInv, TypeOK, RoomStruct
<1> QED BY <1>3, <1>4, ConstantsOK DEF IInv, Bounds

\* Steps that touch nothing that is shared.
LEMMA Quiet ==
  ASSUME IInv, TypeOK', NEW s \in Session, UNCHANGED shared, StepOf(s),
         ~HoldsTable(s), ~HoldsTable(s)', HoldsRoom(s)' <=> HoldsRoom(s),
         HoldsRoom(s) => p_room'[s] = p_room[s],
         p_room'[s] = NULL <=> pc'[s] \in {"out", "idle"},
         SessionOK(s)', Chats(s)' <=> Chats(s),
         Chats(s) => p_chat_room'[s] = p_chat_room[s],
         pc'[s] # "said", pc'[s] = "chat" => Bounds', Clean'
  PROVE  IInv'
<1> USE DEF shared
<1>1. Locks'
  <2>1. ~(rooms_mutex = s) /\ \A r \in Room : HoldsRoom(s) /\ p_room[s] = r
                                              <=> room[r].room_mutex = s
    BY DEF IInv, Locks
  <2> QED BY <2>1, LocksStep
<1>2. Structs' /\ Control' /\ Counts'
  <2>1. SameRooms /\ pc[s] # "list"
    BY DEF SameRooms, HoldsTable
  <2>2. \A k \in Key : rooms_table[k] # NULL =>
           logs'[room[rooms_table[k]].name] \in Seq(Chat)
    BY DEF IInv, Structs, Entry
  <2> QED BY <2>1, <2>2, SameRoomsStep
<1>3. Members'
  BY MembersStep
<1>4. Bounds'
  BY BoundsStep
<1> QED BY <1>1, <1>2, <1>3, <1>4 DEF IInv

\* The invariant is kept by a list of the rooms, which may stop the server.
LEMMA ListOK ==
  ASSUME IInv, NEW s \in Session, List(s)
  PROVE  IInv'
<1> USE DEF List, InLobby, Listening, Reply, Return, Goto, Fail, client
<1>1. TypeOK'
  BY DEF IInv, TypeOK, PC, shared
<1>2. /\ StepOf(s) /\ pc[s] = "idle" /\ pc'[s] = "idle" /\ p_room'[s] = NULL
  BY DEF IInv, TypeOK, StepOf
<1>3. SessionOK(s)'
  BY <1>2 DEF IInv, TypeOK, SessionOK, Control
<1> QED BY <1>1, <1>2, <1>3, Quiet DEF IInv, HoldsTable, HoldsRoom, Chats, Clean

\* A request that is answered at once, or an interrupted SSL_read.
LEMMA AnswerOK ==
  ASSUME IInv, NEW s \in Session,
         \/ \E n \in RoomName :
              CreateReject(s, n) \/ JoinReject(s, n) \/ DeleteReject(s, n)
         \/ LoopEnds(s) \/ LoopStops(s)
  PROVE  IInv'
<1> USE DEF CreateReject, JoinReject, DeleteReject, LoopEnds, LoopStops,
            InLobby, Listening, Reply, Return, Goto, client, process
<1>1. TypeOK'
  BY DEF IInv, TypeOK, PC, shared
<1>2. /\ pc[s] = "idle" /\ pc'[s] = "idle" /\ p_room'[s] = NULL
      /\ chatting' = chatting /\ p_chat_room' = p_chat_room
  BY DEF IInv, TypeOK, Locks
<1>5. StepOf(s)
  BY DEF IInv, TypeOK, StepOf
<1>6. p_ssl'[s] = "freed" => closing'[s]
  BY DEF IInv, TypeOK, Control, SessionOK
<1>3. SessionOK(s)'
  BY <1>2, <1>6 DEF IInv, TypeOK, SessionOK, Control
<1>4. UNCHANGED shared /\ Clean'
  BY DEF IInv, Clean
<1>7. /\ ~HoldsTable(s) /\ ~HoldsTable(s)' /\ ~HoldsRoom(s) /\ ~HoldsRoom(s)'
      /\ Chats(s)' <=> Chats(s)
  BY <1>2 DEF HoldsTable, HoldsRoom, Chats
<1> QED BY <1>1, <1>2, <1>3, <1>4, <1>5, <1>7, Quiet

\* The ends of a session.
LEMMA EndsOK ==
  ASSUME IInv, NEW s \in Session, Login(s) \/ SessionOver(s)
  PROVE  IInv'
<1> USE DEF Login, SessionOver, Goto, client, process
<1>1. TypeOK'
  BY DEF IInv, TypeOK, PC, shared
<1>2. /\ p_room' = p_room /\ chatting' = chatting
      /\ ~chatting[s] /\ p_room[s] = NULL
      /\ pc[s] \in {"idle", "out"} /\ pc'[s] \in {"idle", "out"}
  <2>1. SessionOK(s) /\ (p_room[s] = NULL <=> pc[s] \in {"out", "idle"})
    BY DEF IInv, Control, Locks
  <2> QED BY <2>1 DEF IInv, TypeOK, SessionOK
<1>3. /\ ~closing'[s] /\ p_ssl'[s] = "open"
      /\ pc'[s] = "out" => p_chat_room'[s] = NULL
  <2>1. SessionOK(s)
    BY DEF IInv, Control
  <2> QED BY <2>1 DEF IInv, TypeOK, SessionOK
<1>4. StepOf(s)
  BY DEF IInv, TypeOK, StepOf
<1>5. SessionOK(s)'
  BY <1>2, <1>3 DEF SessionOK
<1>6. UNCHANGED shared /\ Clean'
  BY DEF IInv, Clean
<1>7. /\ ~HoldsTable(s) /\ ~HoldsTable(s)' /\ ~HoldsRoom(s) /\ ~HoldsRoom(s)'
      /\ ~Chats(s) /\ ~Chats(s)' /\ pc'[s] # "chat"
  BY <1>2 DEF HoldsTable, HoldsRoom, Chats
<1> QED BY <1>1, <1>2, <1>4, <1>5, <1>6, <1>7, Quiet

\* A chatting session finds its room in the table.
LEMMA OwnRoom ==
  ASSUME IInv, NEW s \in Session, chatting[s], pc[s] = "idle"
  PROVE  /\ p_chat_room[s] \in RoomName
         /\ rooms_table[KeyOf[p_chat_room[s]]] \in Room
         /\ rooms_table[KeyOf[p_chat_room[s]]] # NULL
<1>1. Chats(s)
  BY DEF Chats
<1> QED BY <1>1 DEF IInv, Members, TypeOK

\* ... by the lookup of a chat, which gives rooms_mutex back before it takes
\* room_mutex: the room stays in the table, for the session is a member of it.
LEMMA ChatLookupOK ==
  ASSUME IInv, NEW s \in Session, ChatLookup(s)
  PROVE  IInv'
<1> DEFINE r == rooms_table[KeyOf[p_chat_room[s]]]
<1>1. r \in Room /\ r # NULL /\ p_chat_room[s] \in RoomName
  BY OwnRoom DEF ChatLookup, Listening
<1>2. /\ pc[s] = "idle" /\ ~closing[s] /\ chatting[s]
      /\ Len(room[r].chats) + Cardinality(Ahead(r)) < MaxChats
      /\ p_room' = [p_room EXCEPT ![s] = r] /\ pc' = [pc EXCEPT ![s] = "chat"]
      /\ UNCHANGED <<closing, server_interrupt, shared, rooms_dir, server,
                     client>>
  BY <1>1 DEF ChatLookup, Listening, Hold, Goto, Ahead
<1> HIDE DEF r
<1>3. TypeOK'
  BY <1>1, <1>2 DEF IInv, TypeOK, PC, shared, client
<1>4. StepOf(s) /\ pc'[s] = "chat" /\ p_room'[s] = r
  BY <1>2 DEF IInv, TypeOK, StepOf, client
<1>5. SessionOK(s)'
  BY <1>2, <1>4 DEF IInv, TypeOK, SessionOK, Control, client, shared, r
<1>6. Bounds'
  <2> SUFFICES ASSUME NEW q \in Room
               PROVE  Len(room[q].chats) + Cardinality(Ahead(q)') <= MaxChats
    <3>1. \A t \in Session : pc'[t] = "said" =>
            pc[t] = "said" /\ p_room'[t] = p_room[t]
      BY <1>4 DEF StepOf
    <3>2. room' = room
      BY <1>2 DEF shared
    <3> QED BY <3>1, <3>2 DEF IInv, Bounds
  <2>1. Ahead(q)' = IF q = r THEN Ahead(q) \cup {s} ELSE Ahead(q)
    BY <1>2, <1>4 DEF Ahead, StepOf
  <2>2. IsFiniteSet(Ahead(q)) /\ s \notin Ahead(q)
    BY <1>2, ConstantsOK, FS_Subset DEF Ahead
  <2>3. /\ Cardinality(Ahead(q)) \in Nat
        /\ Cardinality(Ahead(q) \cup {s}) = Cardinality(Ahead(q)) + 1
    BY <2>2, FS_CardinalityType, FS_AddElement
  <2>4. Len(room[q].chats) \in Nat
    BY DEF IInv, TypeOK, RoomStruct
  <2> QED BY <1>2, <2>1, <2>3, <2>4, ConstantsOK DEF IInv, Bounds
<1> QED BY <1>1, <1>2, <1>3, <1>4, <1>5, <1>6, Quiet
        DEF IInv, HoldsTable, HoldsRoom, Chats, Clean, client

\* ... by the lookup of a leave, of which the same is true.
LEMMA LeaveLookupOK ==
  ASSUME IInv, NEW s \in Session, LeaveLookup(s)
  PROVE  IInv'
<1> DEFINE r == rooms_table[KeyOf[p_chat_room[s]]]
<1>1. r \in Room /\ r # NULL /\ p_chat_room[s] \in RoomName
  BY OwnRoom DEF LeaveLookup
<1>2. /\ pc[s] = "idle" /\ chatting[s]
      /\ p_room' = [p_room EXCEPT ![s] = r] /\ pc' = [pc EXCEPT ![s] = "leave"]
      /\ UNCHANGED <<closing, process, client, shared>>
  BY <1>1 DEF LeaveLookup, Hold, Goto, process, client
<1> HIDE DEF r
<1>3. TypeOK'
  BY <1>1, <1>2 DEF IInv, TypeOK, PC, shared, client, process
<1>4. StepOf(s) /\ pc'[s] = "leave" /\ p_room'[s] = r
  BY <1>2 DEF IInv, TypeOK, StepOf, client
<1>5. SessionOK(s)'
  BY <1>2, <1>4 DEF IInv, TypeOK, SessionOK, Control, client, shared, r
<1> QED BY <1>1, <1>2, <1>3, <1>4, <1>5, Quiet
        DEF IInv, HoldsTable, HoldsRoom, Chats, Clean, client, process

\* ... by the announcement of a leave.
LEMMA LeaveSendOK ==
  ASSUME IInv, NEW s \in Session, LeaveSend(s)
  PROVE  IInv'
<1>1. /\ pc[s] = "left" /\ pc' = [pc EXCEPT ![s] = "left told"]
      /\ UNCHANGED <<shared, process, closing, p_room, client>>
  BY DEF LeaveSend, Goto, IInv, Control, SessionOK
<1>2. TypeOK'
  BY <1>1 DEF IInv, TypeOK, PC, shared, client, process
<1>3. StepOf(s) /\ pc'[s] = "left told"
  BY <1>1 DEF IInv, TypeOK, StepOf, client
<1>4. SessionOK(s)'
  BY <1>1, <1>3 DEF IInv, TypeOK, SessionOK, Control, client
<1>5. p_room'[s] = NULL <=> pc'[s] \in {"out", "idle"}
  BY <1>1, <1>3 DEF IInv, Locks
<1> QED BY <1>1, <1>2, <1>3, <1>4, <1>5, Quiet
        DEF IInv, HoldsTable, HoldsRoom, Chats, Clean, client, process

\* Steps of the process that no session takes.
LEMMA ServerOK ==
  ASSUME IInv, Interrupt \/ StartUp \/ UNCHANGED vars
  PROVE  IInv'
<1> USE DEF Interrupt, StartUp, vars, control, process
<1>1. UNCHANGED <<shared, control, client>>
  OBVIOUS
<1>2. TypeOK' /\ Clean'
  BY DEF IInv, TypeOK, Clean, shared, client
<1>3. Locks'
  <2>1. \A t \in Session : /\ HoldsTable(t)' <=> HoldsTable(t)
                           /\ HoldsRoom(t)' <=> HoldsRoom(t)
    BY <1>1 DEF HoldsTable, HoldsRoom
  <2> QED BY <1>1, <2>1 DEF IInv, Locks, shared
<1>6. Structs'
  BY <1>1 DEF IInv, Structs, Entry, shared
<1>4. Control'
  BY <1>1 DEF IInv, Control, SessionOK, Live, shared, client
<1>7. Members'
  <2>1. \A t \in Session : Chats(t)' <=> Chats(t)
    BY <1>1 DEF Chats, client
  <2> QED BY <1>1, <2>1 DEF IInv, Members, Elements, shared, client
<1>5. Counts' /\ Bounds'
  BY <1>1 DEF IInv, Counts, OutOfTable, TableKeys, Bounds, Ahead, shared
<1> QED BY <1>2, <1>3, <1>4, <1>5, <1>6, <1>7 DEF IInv
---------------------------------------------------------------------------
(* Members of a room *)

\* Where a member is found, if the members are distinct.
LEMMA PositionOf ==
  ASSUME NEW S, NEW seq \in Seq(S), NEW s, Distinct(seq)
  PROVE  /\ Position(seq, s) \in 0..Len(seq)
         /\ IF Position(seq, s) = 0 THEN s \notin Elements(seq)
            ELSE seq[Position(seq, s)] = s
<1> DEFINE Found(i) == IF i = 0 THEN s \notin Elements(seq)
                       ELSE seq[i] = s /\ \A j \in 1..(i - 1) : seq[j] # s
<1>1. Len(seq) \in Nat /\ DOMAIN seq = 1..Len(seq)
  OBVIOUS
<1>2. \E i \in 0..Len(seq) : Found(i)
  <2>1. CASE s \notin Elements(seq)
    BY <1>1, <2>1
  <2>2. CASE s \in Elements(seq)
    <3>1. PICK i \in 1..Len(seq) : seq[i] = s
      BY <1>1, <2>2 DEF Elements
    <3>2. Found(i)
      BY <1>1, <3>1 DEF Distinct
    <3> QED BY <3>1, <3>2
  <2> QED BY <2>1, <2>2
<1>3. Position(seq, s) = CHOOSE i \in 0..Len(seq) : Found(i)
  BY DEF Position
<1>4. Position(seq, s) \in 0..Len(seq) /\ Found(Position(seq, s))
  BY <1>2, <1>3
<1> QED BY <1>4

\* Leaving removes the member and keeps the others, each once.
LEMMA MembersWithoutOne ==
  ASSUME NEW r \in Room, NEW s \in Session,
         room[r].p_users \in Seq(Session), Distinct(room[r].p_users)
  PROVE  LET after == MembersWithout(r, s)
         IN  /\ after \in Seq(Session) /\ Distinct(after)
             /\ Elements(after) = Elements(room[r].p_users) \ {s}
<1> DEFINE seq == room[r].p_users
           k == Position(seq, s)
           cut == [i \in 1..(Len(seq) - 1) |-> IF i < k THEN seq[i] ELSE seq[i + 1]]
<1>1. /\ seq \in Seq(Session) /\ Distinct(seq)
      /\ Len(seq) \in Nat /\ DOMAIN seq = 1..Len(seq)
      /\ \A i \in 1..Len(seq) : seq[i] \in Session
  OBVIOUS
<1>2. k \in 0..Len(seq) /\ IF k = 0 THEN s \notin Elements(seq) ELSE seq[k] = s
  BY <1>1, PositionOf
<1>3. MembersWithout(r, s) = IF k = 0 THEN seq ELSE cut
  BY DEF MembersWithout
<1> HIDE DEF seq, k
<1>4. CASE k = 0
  BY <1>1, <1>2, <1>3, <1>4 DEF seq
<1>5. CASE k # 0
  <2>1. /\ Len(seq) - 1 \in Nat /\ DOMAIN cut = 1..(Len(seq) - 1)
        /\ \A i \in 1..(Len(seq) - 1) : cut[i] \in Session
    BY <1>1, <1>2, <1>5
  <2>2. cut \in Seq(Session)
    BY <2>1
  <2>3. Distinct(cut)
    <3> SUFFICES ASSUME NEW i \in 1..(Len(seq) - 1), NEW j \in 1..(Len(seq) - 1),
                        cut[i] = cut[j]
                 PROVE  i = j
      BY <2>1 DEF Distinct
    <3> DEFINE p == IF i < k THEN i ELSE i + 1
               q == IF j < k THEN j ELSE j + 1
    <3>1. cut[i] = seq[p] /\ cut[j] = seq[q]
      OBVIOUS
    <3>2. p \in DOMAIN seq /\ q \in DOMAIN seq
      BY <1>1, <1>2
    <3>3. p = q => i = j
      BY <1>1, <1>2
    <3> HIDE DEF cut, p, q
    <3>4. seq[p] = seq[q]
      BY <3>1
    <3>5. p = q
      BY <1>1, <3>2, <3>4 DEF Distinct
    <3> QED BY <3>3, <3>5
  <2>4. Elements(cut) = Elements(seq) \ {s}
    <3>1. ASSUME NEW x \in Elements(cut) PROVE x \in Elements(seq) \ {s}
      <4>1. PICK i \in 1..(Len(seq) - 1) : x = cut[i]
        BY <2>1, <3>1 DEF Elements
      <4> DEFINE j == IF i < k THEN i ELSE i + 1
      <4>2. x = seq[j] /\ j \in 1..Len(seq) /\ j # k
        BY <1>1, <1>2, <1>5, <4>1
      <4>3. x # s
        BY <1>1, <1>2, <1>5, <4>2 DEF Distinct
      <4> QED BY <1>1, <4>2, <4>3 DEF Elements
    <3>2. ASSUME NEW x \in Elements(seq) \ {s} PROVE x \in Elements(cut)
      <4>1. PICK j \in 1..Len(seq) : x = seq[j]
        BY <1>1, <3>2 DEF Elements
      <4>2. j # k
        BY <1>2, <1>5, <3>2, <4>1
      <4> DEFINE i == IF j < k THEN j ELSE j - 1
      <4>3. i \in 1..(Len(seq) - 1) /\ x = cut[i]
        BY <1>1, <1>2, <1>5, <4>1, <4>2
      <4> HIDE DEF cut, i
      <4> QED BY <2>1, <4>3 DEF Elements
    <3> QED BY <3>1, <3>2
  <2> QED BY <1>3, <1>5, <2>2, <2>3, <2>4 DEF seq
<1> QED BY <1>4, <1>5

\* What Append adds to the elements of a sequence.
LEMMA AppendElements ==
  ASSUME NEW S, NEW seq \in Seq(S), NEW e \in S
  PROVE  /\ Elements(Append(seq, e)) = Elements(seq) \cup {e}
         /\ Distinct(seq) /\ e \notin Elements(seq) => Distinct(Append(seq, e))
<1> DEFINE new == Append(seq, e)
<1>1. /\ Len(seq) \in Nat /\ DOMAIN seq = 1..Len(seq)
      /\ DOMAIN new = 1..(Len(seq) + 1) /\ new[Len(seq) + 1] = e
      /\ \A i \in 1..Len(seq) : new[i] = seq[i]
  OBVIOUS
<1> HIDE DEF new
<1>2. ASSUME NEW i \in 1..(Len(seq) + 1)
      PROVE  i \in 1..Len(seq) \/ i = Len(seq) + 1
  BY <1>1
<1>3. Elements(new) = Elements(seq) \cup {e}
  <2>1. ASSUME NEW x \in Elements(new) PROVE x \in Elements(seq) \cup {e}
    BY <1>1, <1>2, <2>1 DEF Elements
  <2>2. ASSUME NEW x \in Elements(seq) PROVE x \in Elements(new)
    <3>1. PICK i \in 1..Len(seq) : x = seq[i]
      BY <1>1, <2>2 DEF Elements
    <3>2. i \in DOMAIN new /\ new[i] = x
      BY <1>1, <3>1
    <3> QED BY <3>2 DEF Elements
  <2>3. e \in Elements(new)
    <3>1. Len(seq) + 1 \in DOMAIN new
      BY <1>1
    <3> QED BY <1>1, <3>1 DEF Elements
  <2> QED BY <2>1, <2>2, <2>3
<1>4. ASSUME Distinct(seq), e \notin Elements(seq) PROVE Distinct(new)
  BY <1>1, <1>2, <1>4 DEF Distinct, Elements
<1> QED BY <1>3, <1>4 DEF new
---------------------------------------------------------------------------
(* The list of rooms *)

\* x is in the sequence once at most.
Once(x, seq) == \A i, j \in DOMAIN seq : seq[i] = x /\ seq[j] = x => i = j

\* What Append does to the number of times.
LEMMA AppendOnce ==
  ASSUME NEW S, NEW seq \in Seq(S), NEW e \in S, NEW x, Once(x, seq),
         x = e => e \notin Elements(seq)
  PROVE  Once(x, Append(seq, e))
<1> DEFINE new == Append(seq, e)
<1>1. /\ Len(seq) \in Nat /\ DOMAIN seq = 1..Len(seq)
      /\ DOMAIN new = 1..(Len(seq) + 1) /\ new[Len(seq) + 1] = e
      /\ \A i \in 1..Len(seq) : new[i] = seq[i]
  OBVIOUS
<1> HIDE DEF new
<1>2. \A i \in 1..(Len(seq) + 1) : i \in 1..Len(seq) \/ i = Len(seq) + 1
  BY <1>1
<1>3. x = e => \A i \in 1..Len(seq) : new[i] # x
  BY <1>1 DEF Elements
<1> QED BY <1>1, <1>2, <1>3 DEF Once, new

\* What the pieces of one more line do to a name that is none of them, and to
\* one that is the line.
LEMMA ConcatOnce ==
  ASSUME NEW S, NEW seq \in Seq(S), NEW more \in Seq(S), NEW x \in S
  PROVE  /\ x \notin Elements(more) =>
              /\ x \in Elements(seq \o more) <=> x \in Elements(seq)
              /\ Once(x, seq) => Once(x, seq \o more)
         /\ more = <<x>> =>
              /\ x \in Elements(seq \o more)
              /\ x \notin Elements(seq) => Once(x, seq \o more)
<1> DEFINE new == seq \o more
           k == Len(seq)
           m == Len(more)
<1>1. /\ k \in Nat /\ m \in Nat /\ DOMAIN seq = 1..k /\ DOMAIN more = 1..m
      /\ DOMAIN new = 1..(k + m)
      /\ \A i \in 1..k : new[i] = seq[i]
      /\ \A i \in (k + 1)..(k + m) : new[i] = more[i - k]
  BY ConcatProperties
<1> HIDE DEF new, k, m
<1>2. \A i \in 1..(k + m) : i \in 1..k \/ i \in (k + 1)..(k + m)
  BY <1>1
<1>3. \A i \in 1..k : i \in 1..(k + m)
  BY <1>1
<1>4. ASSUME x \notin Elements(more)
      PROVE  /\ x \in Elements(new) <=> x \in Elements(seq)
             /\ Once(x, seq) => Once(x, new)
  <2>1. \A i \in (k + 1)..(k + m) : new[i] # x
    <3>1. \A i \in (k + 1)..(k + m) : i - k \in 1..m
      BY <1>1
    <3> QED BY <1>1, <1>4, <3>1 DEF Elements
  <2>2. \A i \in 1..(k + m) : new[i] = x => i \in 1..k /\ seq[i] = x
    BY <1>1, <1>2, <2>1
  <2>3. Once(x, seq) => Once(x, new)
    BY <1>1, <2>2 DEF Once
  <2>4. x \in Elements(new) => x \in Elements(seq)
    BY <1>1, <2>2 DEF Elements
  <2>5. x \in Elements(seq) => x \in Elements(new)
    BY <1>1, <1>3 DEF Elements
  <2> QED BY <2>3, <2>4, <2>5
<1>5. ASSUME more = <<x>>
      PROVE  /\ x \in Elements(new)
             /\ x \notin Elements(seq) => Once(x, new)
  <2>1. m = 1 /\ more[1] = x
    BY <1>5 DEF m
  <2>2. k + 1 \in 1..(k + m) /\ new[k + 1] = x
    BY <1>1, <2>1
  <2>3. x \in Elements(new)
    BY <1>1, <2>2 DEF Elements
  <2>4. ASSUME x \notin Elements(seq), NEW i \in 1..(k + m), new[i] = x
        PROVE  i = k + 1
    <3>1. i \notin 1..k
      BY <1>1, <2>4 DEF Elements
    <3> QED BY <1>1, <1>2, <2>1, <3>1
  <2> QED BY <1>1, <2>3, <2>4 DEF Once
<1> QED BY <1>4, <1>5 DEF new

\* A non-empty set of natural numbers has a least element.
LEMMA LeastNatural ==
  ASSUME NEW T \in SUBSET Nat, T # {}
  PROVE  \E x \in T : \A y \in T : x <= y
<1>1. IsWellFoundedOn(OpToRel(<, Nat), Nat)
  BY NatLessThanWellFounded
<1>2. PICK x \in T : \A y \in T : ~(<<y, x>> \in OpToRel(<, Nat))
  BY <1>1, WFMin, Zenon
<1>3. \A y \in T : ~(y < x)
  BY <1>2 DEF OpToRel
<1>4. \A y \in T : y \in Nat /\ x \in Nat
  OBVIOUS
<1> QED BY <1>3, <1>4

\* The body of the recursive function in NamesWithout, and its unfolding.
KeptStep(n, f, i) ==
  IF i = 0 THEN << >>
  ELSE IF room_names[i] \in Extends[n] THEN f[i - 1]
  ELSE Append(f[i - 1], room_names[i])

\* The recursive function of NamesWithout.
IsKept(n, f) == f = [i \in 0..Len(room_names) |-> KeptStep(n, f, i)]

\* The pieces among the first i of the list that do not start with n.
KeptOf(n, i) == {room_names[j] : j \in 1..i} \ Extends[n]

\* What the recursion has after i lines.
IsKeptOf(seq, n, i) ==
  /\ seq \in Seq(Piece)
  /\ Elements(seq) = KeptOf(n, i)
  /\ \A x : Once(x, room_names) => Once(x, seq)

\* One more line.
LEMMA KeptOne ==
  ASSUME room_names \in Seq(Piece), NEW n, NEW f,
         NEW i \in 1..Len(room_names), IsKeptOf(f[i - 1], n, i - 1)
  PROVE  IsKeptOf(KeptStep(n, f, i), n, i)
<1> DEFINE name == room_names[i]
<1>1. name \in Piece /\ DOMAIN room_names = 1..Len(room_names)
  OBVIOUS
<1>2. {room_names[j] : j \in 1..i} = {room_names[j] : j \in 1..(i - 1)} \cup {name}
  <2>1. \A j \in 1..i : j \in 1..(i - 1) \/ j = i
    OBVIOUS
  <2>2. i \in 1..i /\ \A j \in 1..(i - 1) : j \in 1..i
    OBVIOUS
  <2> QED BY <2>1, <2>2
<1>3. CASE name \in Extends[n]
  <2>1. KeptOf(n, i) = KeptOf(n, i - 1)
    BY <1>2, <1>3 DEF KeptOf
  <2>2. KeptStep(n, f, i) = f[i - 1]
    BY <1>3 DEF KeptStep
  <2> QED BY <2>1, <2>2 DEF IsKeptOf
<1>4. CASE name \notin Extends[n]
  <2>1. KeptOf(n, i) = KeptOf(n, i - 1) \cup {name}
    BY <1>2, <1>4 DEF KeptOf
  <2>2. KeptStep(n, f, i) = Append(f[i - 1], name)
    BY <1>4 DEF KeptStep
  <2>3. f[i - 1] \in Seq(Piece) /\ Elements(f[i - 1]) = KeptOf(n, i - 1)
    BY DEF IsKeptOf
  <2>4. Once(name, room_names) => name \notin KeptOf(n, i - 1)
    BY <1>1 DEF Once, KeptOf
  <2>5. Append(f[i - 1], name) \in Seq(Piece)
    BY <1>1, <2>3
  <2> HIDE DEF name
  <2>6. Elements(Append(f[i - 1], name)) = KeptOf(n, i)
    BY <1>1, <2>1, <2>3, AppendElements
  <2>7. ASSUME NEW x, Once(x, room_names)
        PROVE  Once(x, Append(f[i - 1], name))
    <3>1. Once(x, f[i - 1])
      BY <2>7 DEF IsKeptOf
    <3>2. x = name => name \notin Elements(f[i - 1])
      BY <2>3, <2>4, <2>7
    <3> QED BY <1>1, <2>3, <3>1, <3>2, AppendOnce
  <2> QED BY <2>2, <2>5, <2>6, <2>7 DEF IsKeptOf
<1> QED BY <1>3, <1>4

\* What the recursion computes, if it is defined.
LEMMA KeptAll ==
  ASSUME room_names \in Seq(Piece), NEW n, NEW f, IsKept(n, f)
  PROVE  \A i \in 0..Len(room_names) : IsKeptOf(f[i], n, i)
<1> DEFINE T == {i \in 0..Len(room_names) : ~IsKeptOf(f[i], n, i)}
<1>1. SUFFICES ASSUME T # {} PROVE FALSE
  OBVIOUS
<1>2. PICK x \in T : \A y \in T : x <= y
  <2>1. T \in SUBSET Nat
    OBVIOUS
  <2> QED BY <1>1, <2>1, LeastNatural
<1>3. \A i \in 0..Len(room_names) : f[i] = KeptStep(n, f, i)
  BY DEF IsKept
<1>4. x # 0
  <2>1. 0 \in 0..Len(room_names) /\ f[0] = << >>
    BY <1>3 DEF KeptStep
  <2>2. << >> \in Seq(Piece) /\ Elements(<< >>) = {} /\ \A y : Once(y, << >>)
    BY DEF Elements, Once
  <2>3. KeptOf(n, 0) = {}
    BY DEF KeptOf
  <2>4. IsKeptOf(f[0], n, 0)
    BY <2>1, <2>2, <2>3 DEF IsKeptOf
  <2> QED BY <2>4
<1>5. x \in 1..Len(room_names) /\ x - 1 \notin T /\ x - 1 \in 0..Len(room_names)
  BY <1>2, <1>4
<1>6. IsKeptOf(f[x - 1], n, x - 1)
  BY <1>5
<1>7. IsKeptOf(KeptStep(n, f, x), n, x)
  BY <1>5, <1>6, KeptOne
<1> QED BY <1>3, <1>5, <1>7

\* The recursion up to line m.
IsKeptUpTo(n, f, m) == f = [i \in 0..m |-> KeptStep(n, f, i)]

\* The recursion is defined.
LEMMA KeptExists ==
  ASSUME NEW n, room_names \in Seq(Piece)
  PROVE  \E f : IsKept(n, f)
<1> DEFINE Q(k) == \E f : IsKeptUpTo(n, f, k)
           T == {k \in Nat : ~Q(k)}
<1>1. ASSUME T # {} PROVE FALSE
  <2>1. PICK x \in T : \A y \in T : x <= y
    BY <1>1, LeastNatural
  <2>2. Q(0)
    <3> DEFINE f == [i \in 0..0 |-> << >>]
    <3>1. IsKeptUpTo(n, f, 0)
      BY DEF IsKeptUpTo, KeptStep
    <3> QED BY <3>1
  <2>3. x # 0
    BY <2>2
  <2>4. x - 1 \in Nat /\ x - 1 \notin T
    BY <2>1, <2>3
  <2>5. PICK f : IsKeptUpTo(n, f, x - 1)
    BY <2>4
  <2> DEFINE g == [i \in 0..x |-> IF i < x THEN f[i] ELSE KeptStep(n, f, x)]
  <2>6. \A i \in 0..(x - 1) : f[i] = KeptStep(n, f, i)
    BY <2>5 DEF IsKeptUpTo
  <2>7. \A i \in 0..x : g[i] = KeptStep(n, g, i)
    <3> TAKE i \in 0..x
    <3>1. CASE i = x  BY <3>1, <2>3 DEF KeptStep
    <3>2. CASE i < x  BY <3>2, <2>3, <2>6 DEF KeptStep
    <3> QED BY <3>1, <3>2
  <2>8. IsKeptUpTo(n, g, x)
    BY <2>7 DEF IsKeptUpTo
  <2>9. Q(x)
    BY <2>8
  <2> QED BY <2>9
<1>2. Len(room_names) \in Nat
  OBVIOUS
<1>3. Q(Len(room_names))
  BY <1>1, <1>2
<1> QED BY <1>3 DEF IsKept, IsKeptUpTo

\* A deletion takes the pieces that start with its name out of the list, and
\* only those (cr_rooms_delete_h_file).
LEMMA NamesWithoutSpec ==
  ASSUME room_names \in Seq(Piece), NEW n
  PROVE  /\ NamesWithout(n) \in Seq(Piece)
         /\ Elements(NamesWithout(n)) = Elements(room_names) \ Extends[n]
         /\ \A x : Once(x, room_names) => Once(x, NamesWithout(n))
<1> DEFINE K == CHOOSE f : IsKept(n, f)
           m == Len(room_names)
<1>1. IsKept(n, K)
  <2>1. \E f : IsKept(n, f)
    BY KeptExists
  <2> QED BY <2>1, Zenon
<1>2. NamesWithout(n) = K[m]
  BY DEF NamesWithout, IsKept, KeptStep
<1>3. m \in 0..Len(room_names) /\ DOMAIN room_names = 1..m
  OBVIOUS
<1> HIDE DEF K
<1>4. IsKeptOf(K[m], n, m)
  BY <1>1, <1>3, KeptAll
<1>5. KeptOf(n, m) = Elements(room_names) \ Extends[n]
  BY <1>3 DEF KeptOf, Elements
<1> QED BY <1>2, <1>4, <1>5 DEF IsKeptOf
---------------------------------------------------------------------------
(* Steps of the table *)

\* Nobody is half way through join or delete while rooms_mutex is free.
LEMMA TableFree ==
  ASSUME IInv, RoomsFree
  PROVE  /\ \A t \in Session : pc[t] \notin {"join", "list", "mutex"}
         /\ \A r \in Room : room[r].state = "live" =>
              rooms_table[KeyOf[room[r].name]] = r
<1>1. \A t \in Session : ~HoldsTable(t)
  BY ConstantsOK DEF IInv, Locks, RoomsFree
<1> QED BY <1>1 DEF IInv, Structs, HoldsTable

\* What Create changes.
Created(s, n, r) ==
  /\ room[r] = Unused
  /\ room' = [room EXCEPT ![r].state = "live", ![r].name = n]
  /\ rooms_table' = [rooms_table EXCEPT ![KeyOf[n]] = r]
  /\ RoomsFree /\ rooms_table[KeyOf[n]] = NULL /\ room_count < MaxRooms
  /\ pc[s] = "idle" /\ ~closing[s] /\ ~chatting[s] /\ p_room[s] = NULL
  /\ logs' = [logs EXCEPT ![n] = << >>]
  /\ room_names' = room_names \o Pieces[n]
  /\ room_count' = room_count + 1
  /\ UNCHANGED <<rooms_mutex, process, client>>
  /\ pc' = [pc EXCEPT ![s] = "idle"] /\ p_room' = [p_room EXCEPT ![s] = NULL]
  /\ \E b \in BOOLEAN : closing' = [closing EXCEPT ![s] = b]
  /\ pc' = pc /\ p_room' = p_room
  /\ \A t \in Session \ {s} : closing'[t] = closing[t]
  /\ room'[r].state = "live" /\ room'[r].name = n
  /\ room'[r].p_users = << >> /\ room'[r].room_mutex = NULL
  /\ room'[r].chats = << >>
  /\ \A q \in Room \ {r} : room'[q] = room[q]
  /\ rooms_table'[KeyOf[n]] = r
  /\ \A k \in Key \ {KeyOf[n]} : rooms_table'[k] = rooms_table[k]
  /\ logs'[n] = << >>
  /\ \A m \in RoomName \ {n} : logs'[m] = logs[m]
  /\ room[r].room_mutex = NULL /\ room[r].state = "unused"
  /\ room[r].p_users = << >> /\ room[r].chats = << >>
  /\ \A k \in Key : rooms_table[k] # r
  /\ \A t \in Session : pc[t] \notin {"join", "list", "mutex"}

\* A struct that was never used enters the table, with an empty log.
LEMMA CreateEffect ==
  ASSUME IInv, NEW s \in Session, NEW n \in RoomName, Create(s, n)
  PROVE  \E r \in Room : Created(s, n, r)
<1>1. PICK r \in Room :
        /\ room[r] = Unused
        /\ room' = [room EXCEPT ![r].state = "live", ![r].name = n]
        /\ rooms_table' = [rooms_table EXCEPT ![KeyOf[n]] = r]
  BY DEF Create
<1>2. /\ RoomsFree /\ rooms_table[KeyOf[n]] = NULL /\ room_count < MaxRooms
      /\ pc[s] = "idle" /\ ~closing[s] /\ ~chatting[s] /\ p_room[s] = NULL
      /\ logs' = [logs EXCEPT ![n] = << >>]
      /\ room_names' = room_names \o Pieces[n]
      /\ room_count' = room_count + 1
      /\ UNCHANGED <<rooms_mutex, process, client>>
  BY DEF Create, InLobby, Listening, CanCreate, IInv, Locks
<1>3. /\ pc' = [pc EXCEPT ![s] = "idle"] /\ p_room' = [p_room EXCEPT ![s] = NULL]
      /\ \E b \in BOOLEAN : closing' = [closing EXCEPT ![s] = b]
  BY DEF Create, Reply, Return, Goto, IInv, TypeOK
<1>4. /\ pc' = pc /\ p_room' = p_room
      /\ \A t \in Session \ {s} : closing'[t] = closing[t]
  BY <1>2, <1>3 DEF IInv, TypeOK
<1>5. /\ /\ room'[r].state = "live" /\ room'[r].name = n
         /\ room'[r].p_users = << >> /\ room'[r].room_mutex = NULL
         /\ room'[r].chats = << >>
         /\ \A q \in Room \ {r} : room'[q] = room[q]
      /\ rooms_table'[KeyOf[n]] = r
      /\ \A k \in Key \ {KeyOf[n]} : rooms_table'[k] = rooms_table[k]
      /\ logs'[n] = << >>
      /\ \A m \in RoomName \ {n} : logs'[m] = logs[m]
      /\ room[r].room_mutex = NULL /\ room[r].state = "unused"
      /\ room[r].p_users = << >> /\ room[r].chats = << >>
      /\ \A k \in Key : rooms_table[k] # r
  <2>1. /\ room[r].room_mutex = NULL /\ room[r].state = "unused"
        /\ room[r].p_users = << >> /\ room[r].chats = << >>
    BY <1>1 DEF Unused
  <2>2. room'[r] = [room[r] EXCEPT !.state = "live", !.name = n]
    BY <1>1 DEF IInv, TypeOK
  <2>3. /\ room'[r].state = "live" /\ room'[r].name = n
        /\ room'[r].p_users = << >> /\ room'[r].room_mutex = NULL
        /\ room'[r].chats = << >>
    <3>1. room[r] \in RoomStruct
      BY DEF IInv, TypeOK
    <3> QED BY <2>1, <2>2, <3>1 DEF RoomStruct
  <2>4. \A q \in Room \ {r} : room'[q] = room[q]
    BY <1>1 DEF IInv, TypeOK
  <2>5. \A k \in Key : rooms_table[k] # r
    <3>1. r # NULL
      BY ConstantsOK
    <3> QED BY <2>1, <3>1 DEF IInv, Structs, Entry
  <2>6. /\ rooms_table'[KeyOf[n]] = r
        /\ \A k \in Key \ {KeyOf[n]} : rooms_table'[k] = rooms_table[k]
        /\ logs'[n] = << >>
        /\ \A m \in RoomName \ {n} : logs'[m] = logs[m]
    BY <1>1, <1>2 DEF IInv, TypeOK
  <2> QED BY <2>1, <2>3, <2>4, <2>5, <2>6
<1>6. \A t \in Session : pc[t] \notin {"join", "list", "mutex"}
  BY <1>2, TableFree
<1>7. Created(s, n, r)
  BY <1>1, <1>2, <1>3, <1>4, <1>5, <1>6 DEF Created
<1> QED BY <1>7

\* A creation.
LEMMA CreateOK ==
  ASSUME IInv, NEW s \in Session, NEW n \in RoomName, Create(s, n)
  PROVE  IInv'
<1> PICK r \in Room : Created(s, n, r)
  BY CreateEffect
<1>1. /\ room[r] = Unused
      /\ room' = [room EXCEPT ![r].state = "live", ![r].name = n]
      /\ rooms_table' = [rooms_table EXCEPT ![KeyOf[n]] = r]
  BY DEF Created
<1>2. /\ RoomsFree /\ rooms_table[KeyOf[n]] = NULL /\ room_count < MaxRooms
      /\ pc[s] = "idle" /\ ~closing[s] /\ ~chatting[s] /\ p_room[s] = NULL
      /\ logs' = [logs EXCEPT ![n] = << >>]
      /\ room_names' = room_names \o Pieces[n]
      /\ room_count' = room_count + 1
      /\ UNCHANGED <<rooms_mutex, process, client>>
  BY DEF Created
<1>3. /\ pc' = [pc EXCEPT ![s] = "idle"] /\ p_room' = [p_room EXCEPT ![s] = NULL]
      /\ \E b \in BOOLEAN : closing' = [closing EXCEPT ![s] = b]
  BY DEF Created
<1>4. /\ pc' = pc /\ p_room' = p_room
      /\ \A t \in Session \ {s} : closing'[t] = closing[t]
  BY DEF Created
<1>5. /\ /\ room'[r].state = "live" /\ room'[r].name = n
         /\ room'[r].p_users = << >> /\ room'[r].room_mutex = NULL
         /\ room'[r].chats = << >>
         /\ \A q \in Room \ {r} : room'[q] = room[q]
      /\ rooms_table'[KeyOf[n]] = r
      /\ \A k \in Key \ {KeyOf[n]} : rooms_table'[k] = rooms_table[k]
      /\ logs'[n] = << >>
      /\ \A m \in RoomName \ {n} : logs'[m] = logs[m]
      /\ room[r].room_mutex = NULL /\ room[r].state = "unused"
      /\ room[r].p_users = << >> /\ room[r].chats = << >>
      /\ \A k \in Key : rooms_table[k] # r
  BY DEF Created
<1>6. \A t \in Session : pc[t] \notin {"join", "list", "mutex"}
  BY DEF Created
<1>7. TypeOK'
  <2>1. room' \in [Room -> RoomStruct]
    <3>1. room[r] \in RoomStruct /\ room \in [Room -> RoomStruct]
      BY DEF IInv, TypeOK
    <3>2. [room[r] EXCEPT !.state = "live", !.name = n] \in RoomStruct
      BY <3>1 DEF RoomStruct
    <3>3. room' = [room EXCEPT ![r] = [room[r] EXCEPT !.state = "live", !.name = n]]
      BY <1>1, <3>1
    <3> QED BY <3>1, <3>2, <3>3
  <2>2. room_count' \in 0..MaxRooms
    <3>1. room_count \in 0..MaxRooms /\ MaxRooms \in Nat
      BY ConstantsOK DEF IInv, TypeOK
    <3> QED BY <1>2, <3>1
  <2>3. logs' \in [RoomName -> Seq(Chat) \cup {NULL}]
    BY <1>2 DEF IInv, TypeOK
  <2>4. room_names' \in Seq(Piece)
    <3>1. room_names \in Seq(Piece) /\ Pieces[n] \in Seq(Piece)
      BY ConstantsOK DEF IInv, TypeOK
    <3> QED BY <1>2, <3>1, ConcatProperties
  <2>5. rooms_table' \in [Key -> Room \cup {NULL}]
    BY <1>1 DEF IInv, TypeOK
  <2> QED BY <1>2, <1>3, <2>1, <2>2, <2>3, <2>4, <2>5
          DEF IInv, TypeOK, process, client, PC
<1>8. Locks'
  <2>1. \A q \in Room : room'[q].room_mutex = room[q].room_mutex
    BY <1>5
  <2>2. \A t \in Session : /\ HoldsTable(t)' <=> HoldsTable(t)
                           /\ HoldsRoom(t)' <=> HoldsRoom(t)
    BY <1>4 DEF HoldsTable, HoldsRoom
  <2> QED BY <1>2, <1>4, <2>1, <2>2 DEF IInv, Locks
<1>9. Structs'
  <2>1. ASSUME NEW k \in Key, rooms_table'[k] # NULL
        PROVE  Entry(k)'
    <3>1. CASE k = KeyOf[n]
      <4>1. << >> \in Seq(Chat)
        OBVIOUS
      <4> QED BY <1>5, <3>1, <4>1 DEF Entry
    <3>2. CASE k # KeyOf[n]
      <4>1. /\ rooms_table'[k] = rooms_table[k]
            /\ rooms_table[k] \in Room \ {r} /\ rooms_table[k] # NULL
        BY <1>5, <2>1, <3>2 DEF IInv, TypeOK
      <4>2. Entry(k)
        BY <4>1 DEF IInv, Structs
      <4> QED BY <1>5, <3>2, <4>1, <4>2 DEF Entry
    <3> QED BY <3>1, <3>2
  <2>2. ASSUME NEW q \in Room
        PROVE  /\ room'[q].state = "unused" => room'[q] = Unused
               /\ room'[q].state # "unused" => room'[q].name \in RoomName
               /\ room'[q].room_mutex # NULL => room'[q].state \in {"live", "torn"}
               /\ room'[q].state = "live" => rooms_table'[KeyOf[room'[q].name]] = q
    <3>1. CASE q = r
      BY <1>5, <3>1
    <3>2. CASE q # r
      <4>1. /\ room[q].state = "unused" => room[q] = Unused
            /\ room[q].state # "unused" => room[q].name \in RoomName
            /\ room[q].room_mutex # NULL => room[q].state \in {"live", "torn"}
            /\ room[q].state = "live" => rooms_table[KeyOf[room[q].name]] = q
        BY <1>2, TableFree DEF IInv, Structs
      <4>2. q # NULL
        BY ConstantsOK
      <4> QED BY <1>2, <1>5, <3>2, <4>1, <4>2
    <3> QED BY <3>1, <3>2
  <2> QED BY <2>1, <2>2 DEF Structs
<1>10. Control'
  <2>1. ASSUME NEW t \in Session PROVE SessionOK(t)'
    <3>1. SessionOK(t) /\ (p_room[t] = NULL <=> pc[t] \in {"out", "idle"})
      BY DEF IInv, Control, Locks
    <3>2. Chats(t) => /\ p_chat_room[t] \in RoomName
                      /\ KeyOf[p_chat_room[t]] # KeyOf[n]
      BY <1>2 DEF IInv, Members
    <3> QED BY <1>2, <1>4, <1>5, <1>6, <3>1, <3>2 DEF SessionOK, client, Chats
  <2> QED BY <2>1 DEF Control
<1>11. Members'
  <2>1. \A t \in Session : Chats(t)' <=> Chats(t)
    BY <1>2, <1>4 DEF Chats, client
  <2>4. \A t \in Session : Chats(t) => /\ p_chat_room[t] \in RoomName
                                       /\ KeyOf[p_chat_room[t]] # KeyOf[n]
    BY <1>2 DEF IInv, Members
  <2>2. \A q \in Room : room'[q].p_users = room[q].p_users
    BY <1>5
  <2>3. \A t \in Session : t \notin Elements(room[r].p_users)
    BY <1>5 DEF Elements
  <2> QED BY <1>2, <1>5, <2>1, <2>2, <2>3, <2>4 DEF IInv, Members, client
<1>12. Counts'
  <2>1. OutOfTable' = OutOfTable
    <3>1. ASSUME NEW q \in Room PROVE q \in OutOfTable' <=> q \in OutOfTable
      <4>1. q = r => q \notin OutOfTable /\ q \notin OutOfTable'
        BY <1>5 DEF OutOfTable
      <4>2. /\ room[q].state \in {"live", "torn"} => room[q].name \in RoomName
            /\ q # NULL
        BY ConstantsOK DEF IInv, Structs
      <4> QED BY <1>2, <1>5, <4>1, <4>2 DEF OutOfTable
    <3> QED BY <3>1 DEF OutOfTable
  <2>2. TableKeys' = TableKeys \cup {KeyOf[n]} /\ KeyOf[n] \notin TableKeys
    BY <1>1, <1>2, <1>5, ConstantsOK DEF TableKeys
  <2>3. IsFiniteSet(TableKeys)
    BY ConstantsOK, FS_Subset DEF TableKeys
  <2>4. /\ Cardinality(TableKeys') = Cardinality(TableKeys) + 1
        /\ Cardinality(TableKeys) \in Nat
    BY <2>2, <2>3, FS_AddElement, FS_CardinalityType
  <2>5. Cardinality(OutOfTable) \in Nat
    BY FS_CardinalityType DEF IInv, Counts
  <2> QED BY <1>2, <2>1, <2>4, <2>5 DEF IInv, Counts
<1>13. Bounds'
  <2>1. \A q \in Room : Ahead(q)' = Ahead(q) /\ room'[q].chats = room[q].chats
    BY <1>4, <1>5 DEF Ahead
  <2>2. \A t \in Session : pc[t] = "said" => p_room[t] \in Room
    BY HasRoom
  <2> QED BY <1>4, <2>1, <2>2 DEF IInv, Bounds
<1>14. Clean'
  BY <1>2 DEF IInv, Clean, process
<1> QED BY <1>7, <1>8, <1>9, <1>10, <1>11, <1>12, <1>13, <1>14 DEF IInv

\* ... by the lookup of a join, which keeps rooms_mutex.
LEMMA JoinLookupOK ==
  ASSUME IInv, NEW s \in Session, NEW n \in RoomName, JoinLookup(s, n)
  PROVE  IInv'
<1> DEFINE r == rooms_table[KeyOf[n]]
<1>1. /\ pc[s] = "idle" /\ ~closing[s] /\ ~chatting[s] /\ RoomsFree
      /\ r \in Room /\ r # NULL /\ rooms_mutex' = s
      /\ p_room' = [p_room EXCEPT ![s] = r] /\ pc' = [pc EXCEPT ![s] = "join"]
      /\ UNCHANGED <<rooms_table, room_count, room_names, room, logs, process,
                     closing, client>>
  BY DEF JoinLookup, InLobby, Listening, Hold, Goto, IInv, TypeOK
<1>2. StepOf(s) /\ pc'[s] = "join" /\ p_room'[s] = r
  BY <1>1 DEF IInv, TypeOK, StepOf, client
<1>3. Live(r)
  BY <1>1 DEF Live, IInv, Structs, Entry
<1> HIDE DEF r
<1>4. TypeOK'
  BY <1>1 DEF IInv, TypeOK, PC, client, process
<1>5. Locks'
  <2>1. \A t \in Session : rooms_mutex # t
    BY <1>1, ConstantsOK DEF RoomsFree
  <2>2. /\ HoldsTable(s)' /\ ~HoldsRoom(s) /\ ~HoldsRoom(s)'
        /\ \A q \in Room : room[q].room_mutex # s
    BY <1>1, <1>2 DEF HoldsTable, HoldsRoom, IInv, Locks
  <2> QED BY <1>1, <1>2, <2>1, <2>2, LocksStep
<1>6. SessionOK(s)'
  <2>1. SessionOK(s)
    BY DEF IInv, Control
  <2> QED BY <1>1, <1>2, <1>3, <2>1 DEF SessionOK, client, Live
<1>7. Structs' /\ Control' /\ Counts'
  <2>1. SameRooms
    BY <1>1 DEF SameRooms
  <2>2. \A k \in Key : rooms_table[k] # NULL =>
           logs'[room[rooms_table[k]].name] \in Seq(Chat)
    BY <1>1 DEF IInv, Structs, Entry
  <2> QED BY <1>1, <1>2, <1>6, <2>1, <2>2, SameRoomsStep
<1>8. Members' /\ Bounds'
  <2>1. ~Chats(s) /\ ~Chats(s)'
    BY <1>1, <1>2 DEF Chats, client
  <2> QED BY <1>1, <1>2, <2>1, MembersStep, BoundsStep
<1>9. Clean'
  BY <1>1 DEF IInv, Clean, process
<1> QED BY <1>4, <1>5, <1>7, <1>8, <1>9 DEF IInv

\* What JoinEnter changes.
LEMMA JoinEnterEffect ==
  ASSUME IInv, NEW s \in Session, NEW n \in RoomName, JoinEnter(s, n)
  PROVE  LET r == p_room[s]
         IN  /\ r \in Room /\ Live(r) /\ RoomFree(r)
             /\ room[r].name \in RoomName /\ rooms_table[KeyOf[n]] = r
             /\ pc[s] = "join" /\ rooms_mutex = s /\ rooms_mutex' = NULL
             /\ ~closing[s] /\ ~chatting[s] /\ ~Chats(s) /\ p_ssl[s] = "open"
             /\ pc'[s] = "idle" /\ p_room'[s] = NULL /\ chatting'[s] = TRUE
             /\ p_chat_room'[s] = n /\ p_ssl' = p_ssl /\ StepOf(s) /\ SameRooms
             /\ room' = [room EXCEPT ![r].p_users = Append(@, s)]
             /\ room'[r].p_users = Append(room[r].p_users, s)
             /\ room'[r].room_mutex = room[r].room_mutex
             /\ room'[r].chats = room[r].chats
             /\ \A q \in Room \ {r} : room'[q] = room[q]
             /\ inbox' \in {[inbox EXCEPT ![s] = log] : log \in
                  {logs[room[r].name]} \cup (IF SendMayFail THEN {<< >>} ELSE {})}
             /\ UNCHANGED <<rooms_table, room_count, room_names, logs, process>>
<1> DEFINE r == p_room[s]
<1>1. /\ pc[s] = "join" /\ RoomFree(r) /\ EnterRoom(s, n)
  BY DEF JoinEnter
<1>2. r \in Room
  BY <1>1, HasRoom
<1>3. Live(r) /\ ~closing[s] /\ ~chatting[s] /\ p_ssl[s] = "open"
  <2>1. SessionOK(s) /\ p_ssl[s] \in {"open", "freed"}
    BY DEF IInv, Control, TypeOK
  <2> QED BY <1>1, <2>1 DEF SessionOK
<1>4. room[r].name \in RoomName /\ rooms_table[KeyOf[n]] = r
  <2>1. room[r].name \in RoomName
    BY <1>2, <1>3 DEF Live, IInv, Structs
  <2>2. KeyOf[n] = KeyOf[room[r].name]
    BY <1>1 DEF EnterRoom
  <2> QED BY <1>3, <2>1, <2>2 DEF Live
<1>5. rooms_mutex = s
  BY <1>1 DEF IInv, Locks, HoldsTable
<1>6. room' = [room EXCEPT ![r].p_users = Append(@, s)]
  BY <1>1 DEF EnterRoom
<1>7. /\ room'[r] = [room[r] EXCEPT !.p_users = Append(room[r].p_users, s)]
      /\ \A q \in Room \ {r} : room'[q] = room[q]
  BY <1>2, <1>6 DEF IInv, TypeOK
<1>8. room[r] \in RoomStruct
  BY <1>2 DEF IInv, TypeOK
<1>9. /\ room'[r].p_users = Append(room[r].p_users, s)
      /\ room'[r].room_mutex = room[r].room_mutex
      /\ room'[r].chats = room[r].chats
      /\ room'[r].state = room[r].state /\ room'[r].name = room[r].name
  BY <1>7, <1>8 DEF RoomStruct
<1>10. SameRooms
  BY <1>1, <1>3, <1>7, <1>9 DEF SameRooms, EnterRoom, Live
<1>11. /\ rooms_mutex' = NULL
       /\ pc'[s] = "idle" /\ p_room'[s] = NULL /\ chatting'[s] = TRUE
       /\ p_chat_room'[s] = n /\ p_ssl' = p_ssl /\ StepOf(s)
  BY <1>1 DEF EnterRoom, Return, Goto, IInv, TypeOK, StepOf
<1>12. /\ inbox' \in {[inbox EXCEPT ![s] = log] : log \in
                  {logs[room[r].name]} \cup (IF SendMayFail THEN {<< >>} ELSE {})}
       /\ UNCHANGED <<rooms_table, room_count, room_names, logs, process>>
  BY <1>1 DEF EnterRoom
<1> QED BY <1>1, <1>2, <1>3, <1>4, <1>5, <1>6, <1>7, <1>9, <1>10, <1>11, <1>12
        DEF Chats

\* ... by the rest of a join: the newcomer was a member of no room.
LEMMA JoinEnterOK ==
  ASSUME IInv, NEW s \in Session, NEW n \in RoomName, JoinEnter(s, n)
  PROVE  IInv'
<1> DEFINE r == p_room[s]
<1>1. /\ r \in Room /\ Live(r) /\ RoomFree(r)
      /\ room[r].name \in RoomName /\ rooms_table[KeyOf[n]] = r
      /\ pc[s] = "join" /\ rooms_mutex = s /\ rooms_mutex' = NULL
      /\ ~closing[s] /\ ~chatting[s] /\ ~Chats(s) /\ p_ssl[s] = "open"
      /\ pc'[s] = "idle" /\ p_room'[s] = NULL /\ chatting'[s] = TRUE
      /\ p_chat_room'[s] = n /\ p_ssl' = p_ssl /\ StepOf(s) /\ SameRooms
      /\ room' = [room EXCEPT ![r].p_users = Append(@, s)]
      /\ room'[r].p_users = Append(room[r].p_users, s)
      /\ room'[r].room_mutex = room[r].room_mutex
      /\ room'[r].chats = room[r].chats
      /\ \A q \in Room \ {r} : room'[q] = room[q]
      /\ UNCHANGED <<rooms_table, room_count, room_names, logs, process>>
  BY JoinEnterEffect
<1>2. room[r] \in RoomStruct /\ r # NULL
  BY <1>1, ConstantsOK DEF IInv, TypeOK
<1>3. TypeOK'
  <2>1. room' \in [Room -> RoomStruct]
    <3>1. [room[r] EXCEPT !.p_users = Append(room[r].p_users, s)] \in RoomStruct
      <4>1. room[r].p_users \in Seq(Session)
        BY <1>2 DEF RoomStruct
      <4>2. Append(room[r].p_users, s) \in Seq(Session)
        BY <4>1
      <4> QED BY <1>2, <4>2 DEF RoomStruct
    <3> QED BY <1>1, <3>1 DEF IInv, TypeOK
  <2>2. inbox' \in [Session -> Seq(Chat)]
    <3>1. logs[room[r].name] \in Seq(Chat) /\ << >> \in Seq(Chat)
      <4>1. Entry(KeyOf[n])
        BY <1>1, <1>2 DEF IInv, Structs
      <4> QED BY <1>1, <4>1 DEF Entry
    <3>2. PICK log \in {logs[room[r].name]} \cup (IF SendMayFail THEN {<< >>} ELSE {}) :
            inbox' = [inbox EXCEPT ![s] = log]
      BY JoinEnterEffect
    <3>3. log \in Seq(Chat)
      BY <3>1, <3>2
    <3> QED BY <3>2, <3>3 DEF IInv, TypeOK
  <2>3. /\ pc' \in [Session -> PC] /\ closing' \in [Session -> BOOLEAN]
        /\ p_room' \in [Session -> Room \cup {NULL}]
        /\ chatting' \in [Session -> BOOLEAN]
        /\ p_chat_room' \in [Session -> RoomName \cup {NULL}]
    BY <1>1 DEF JoinEnter, EnterRoom, Return, Goto, IInv, TypeOK, PC
  <2> QED BY <1>1, <2>1, <2>2, <2>3 DEF IInv, TypeOK, process
<1>4. Locks'
  <2>1. \A t \in Session \ {s} : rooms_mutex # t /\ rooms_mutex' # t
    BY <1>1, ConstantsOK
  <2>2. /\ ~HoldsTable(s)' /\ ~HoldsRoom(s) /\ ~HoldsRoom(s)'
        /\ \A q \in Room : room[q].room_mutex # s
    BY <1>1 DEF HoldsTable, HoldsRoom, IInv, Locks
  <2>3. \A q \in Room : room'[q].room_mutex = room[q].room_mutex
    BY <1>1
  <2>4. rooms_mutex' # s
    BY <1>1, ConstantsOK
  <2> HIDE DEF r
  <2> QED BY <1>1, <2>1, <2>2, <2>3, <2>4, LocksStep
<1>5. SessionOK(s)'
  <2>1. closing'[s] \in BOOLEAN
    BY <1>3 DEF TypeOK
  <2>2. p_ssl'[s] = "open"
    BY <1>1
  <2> QED BY <1>1, <2>1, <2>2 DEF SessionOK
<1>6. Structs' /\ Control' /\ Counts'
  <2>1. \A k \in Key : rooms_table[k] # NULL =>
           logs'[room[rooms_table[k]].name] \in Seq(Chat)
    BY <1>1 DEF IInv, Structs, Entry
  <2> HIDE DEF r
  <2> QED BY <1>1, <1>5, <2>1, SameRoomsStep
<1>7. Members'
  <2>1. Chats(s)' /\ \A t \in Session \ {s} : /\ Chats(t)' <=> Chats(t)
                                              /\ p_chat_room'[t] = p_chat_room[t]
    BY <1>1 DEF Chats, StepOf
  <2>2. s \notin Elements(room[r].p_users)
    BY <1>1 DEF IInv, Members
  <2>3. /\ Elements(room'[r].p_users) = Elements(room[r].p_users) \cup {s}
        /\ Distinct(room'[r].p_users)
    <3>1. room[r].p_users \in Seq(Session) /\ Distinct(room[r].p_users)
      BY <1>1, <1>2 DEF RoomStruct, IInv, Members
    <3> QED BY <1>1, <2>2, <3>1, AppendElements
  <2>4. \A q \in Room \ {r} : s \notin Elements(room[q].p_users)
    BY <1>1 DEF IInv, Members
  <2>5. ASSUME NEW t \in Session, Chats(t)'
        PROVE  p_chat_room'[t] \in RoomName /\ rooms_table'[KeyOf[p_chat_room'[t]]] # NULL
    BY <1>1, <1>2, <2>1, <2>5, ConstantsOK DEF IInv, Members
  <2>6. ASSUME NEW t \in Session, NEW q \in Room
        PROVE  t \in Elements(room'[q].p_users)
                 <=> Chats(t)' /\ rooms_table'[KeyOf[p_chat_room'[t]]] = q
    <3>1. t \in Elements(room[q].p_users)
            <=> Chats(t) /\ rooms_table[KeyOf[p_chat_room[t]]] = q
      BY DEF IInv, Members
    <3>2. CASE t = s
      BY <1>1, <1>2, <2>1, <2>3, <2>4, <3>2
    <3>3. CASE t # s
      BY <1>1, <2>1, <2>3, <3>1, <3>3
    <3> QED BY <3>2, <3>3
  <2>7. \A q \in Room : Distinct(room'[q].p_users)
    BY <1>1, <2>3 DEF IInv, Members
  <2> QED BY <2>5, <2>6, <2>7 DEF Members
<1>8. Bounds'
  <2>1. \A q \in Room : room'[q].chats = room[q].chats
    BY <1>1
  <2> HIDE DEF r
  <2> QED BY <1>1, <2>1, BoundsStep
<1>9. Clean'
  BY <1>1 DEF IInv, Clean, process
<1> QED BY <1>3, <1>4, <1>6, <1>7, <1>8, <1>9 DEF IInv
---------------------------------------------------------------------------
(* Steps in a room *)

\* A handler in a room has one that is not freed, and in the table unless it
\* has left it.
LEMMA OwnStruct ==
  ASSUME IInv, NEW s \in Session
  PROVE  /\ pc[s] \in {"chat", "said", "leave"} =>
              /\ p_room[s] \in Room /\ Live(p_room[s])
              /\ p_chat_room[s] \in RoomName
              /\ room[p_room[s]].name \in RoomName
              /\ AskedFor(p_chat_room[s], p_room[s])
              /\ rooms_table[KeyOf[p_chat_room[s]]] = p_room[s]
              /\ s \in Elements(room[p_room[s]].p_users)
         /\ HoldsRoom(s) => /\ p_room[s] \in Room
                            /\ room[p_room[s]].room_mutex = s
                            /\ room[p_room[s]].state \in {"live", "torn"}
<1>1. ASSUME pc[s] \in {"chat", "said", "leave"}
      PROVE  /\ p_room[s] \in Room /\ Live(p_room[s])
             /\ p_chat_room[s] \in RoomName
             /\ room[p_room[s]].name \in RoomName
             /\ AskedFor(p_chat_room[s], p_room[s])
             /\ rooms_table[KeyOf[p_chat_room[s]]] = p_room[s]
             /\ s \in Elements(room[p_room[s]].p_users)
  <2>1. p_room[s] \in Room
    BY <1>1, HasRoom
  <2>2. Chats(s) /\ rooms_table[KeyOf[p_chat_room[s]]] = p_room[s]
    BY <1>1 DEF IInv, Control, SessionOK, Chats
  <2>3. p_chat_room[s] \in RoomName /\ p_room[s] # NULL
    BY <2>2 DEF IInv, Members
  <2>4. /\ room[p_room[s]].state = "live" /\ room[p_room[s]].name \in RoomName
        /\ KeyOf[room[p_room[s]].name] = KeyOf[p_chat_room[s]]
    BY <2>2, <2>3 DEF IInv, Structs, Entry
  <2>5. s \in Elements(room[p_room[s]].p_users)
    BY <2>1, <2>2 DEF IInv, Members
  <2> QED BY <2>1, <2>2, <2>3, <2>4, <2>5 DEF Live
<1>2. ASSUME HoldsRoom(s)
      PROVE  /\ p_room[s] \in Room
             /\ room[p_room[s]].room_mutex = s
             /\ room[p_room[s]].state \in {"live", "torn"}
  <2>1. p_room[s] \in Room
    BY <1>2, HasRoom DEF HoldsRoom
  <2>2. room[p_room[s]].room_mutex = s /\ s # NULL
    BY <1>2, <2>1, ConstantsOK DEF IInv, Locks
  <2> QED BY <2>1, <2>2 DEF IInv, Structs
<1> QED BY <1>1, <1>2

\* Nobody holds a room_mutex that is free.
LEMMA NobodyHolds ==
  ASSUME IInv, NEW r \in Room, RoomFree(r)
  PROVE  \A t \in Session : /\ room[r].room_mutex # t
                            /\ ~(HoldsRoom(t) /\ p_room[t] = r)
BY ConstantsOK DEF IInv, Locks, RoomFree

\* What ChatFile changes.
LEMMA ChatFileEffect ==
  ASSUME IInv, NEW s \in Session, ChatFile(s)
  PROVE  LET r == p_room[s]
             n == room[r].name
             chat == [from |-> s, n |-> Len(room[r].chats) + 1]
         IN  /\ r \in Room /\ Live(r) /\ RoomFree(r) /\ n \in RoomName
             /\ rooms_table[KeyOf[p_chat_room[s]]] = r
             /\ pc[s] = "chat" /\ pc' = [pc EXCEPT ![s] = "said"] /\ pc'[s] = "said"
             /\ StepOf(s) /\ SameRooms
             /\ room' = [room EXCEPT ![r] = [room[r] EXCEPT !.room_mutex = s,
                                      !.chats = Append(room[r].chats, s)]]
             /\ room'[r].p_users = room[r].p_users
             /\ room'[r].room_mutex = s
             /\ room'[r].chats = Append(room[r].chats, s)
             /\ Append(room[r].chats, s) \in Seq(Session)
             /\ \A q \in Room \ {r} : room'[q] = room[q]
             /\ logs' = [logs EXCEPT ![n] = WithChat(logs[n], chat)]
             /\ UNCHANGED <<rooms_table, room_count, room_names, rooms_mutex,
                            process, closing, p_room, client>>
<1> DEFINE r == p_room[s]
           n == room[r].name
<1>1. pc[s] = "chat" /\ RoomFree(r) /\ pc' = [pc EXCEPT ![s] = "said"]
  BY DEF ChatFile, Goto
<1>2. /\ r \in Room /\ Live(r) /\ n \in RoomName
      /\ rooms_table[KeyOf[p_chat_room[s]]] = r
  BY <1>1, OwnStruct
<1>3. room[r] \in RoomStruct
  BY <1>2 DEF IInv, TypeOK
<1>4. room' = [room EXCEPT ![r] = [room[r] EXCEPT !.room_mutex = s,
                                   !.chats = Append(room[r].chats, s)]]
  BY <1>2, <1>3 DEF ChatFile, IInv, TypeOK
<1>5. /\ room'[r] = [room[r] EXCEPT !.room_mutex = s,
                                    !.chats = Append(room[r].chats, s)]
      /\ \A q \in Room \ {r} : room'[q] = room[q]
  BY <1>2, <1>4 DEF IInv, TypeOK
<1>6. /\ room'[r].p_users = room[r].p_users
      /\ room'[r].room_mutex = s
      /\ room'[r].chats = Append(room[r].chats, s)
      /\ room'[r].state = room[r].state /\ room'[r].name = room[r].name
  BY <1>3, <1>5 DEF RoomStruct
<1>7. Append(room[r].chats, s) \in Seq(Session)
  <2>1. room[r].chats \in Seq(Session)
    BY <1>3 DEF RoomStruct
  <2> QED BY <2>1
<1>8. /\ UNCHANGED <<rooms_table, room_count, room_names, rooms_mutex, process,
                     closing, p_room, client>>
      /\ logs' = [logs EXCEPT ![n] =
           WithChat(logs[n], [from |-> s, n |-> Len(room[r].chats) + 1])]
  BY <1>2 DEF ChatFile, IInv, TypeOK
<1>9. SameRooms
  BY <1>2, <1>5, <1>6, <1>8 DEF SameRooms, Live
<1>10. StepOf(s) /\ pc'[s] = "said"
  BY <1>1, <1>8 DEF StepOf, IInv, TypeOK, client
<1> QED BY <1>1, <1>2, <1>4, <1>5, <1>6, <1>7, <1>8, <1>9, <1>10

\* A chat fits: the lookup has made sure of it.
LEMMA ChatFits ==
  ASSUME IInv, NEW s \in Session, pc[s] = "chat"
  PROVE  /\ Len(room[p_room[s]].chats) \in Nat
         /\ Len(room[p_room[s]].chats) + 1 <= MaxChats
         /\ Cardinality(Ahead(p_room[s])) \in Nat
         /\ Cardinality(Ahead(p_room[s]) \ {s}) = Cardinality(Ahead(p_room[s])) - 1
<1> DEFINE r == p_room[s]
<1>1. r \in Room /\ s \in Ahead(r)
  BY OwnStruct DEF Ahead
<1>2. room[r].chats \in Seq(Session)
  BY <1>1 DEF IInv, TypeOK, RoomStruct
<1>3. IsFiniteSet(Ahead(r))
  BY ConstantsOK, FS_Subset DEF Ahead
<1> HIDE DEF r
<1>4. /\ Cardinality(Ahead(r)) \in Nat /\ IsFiniteSet(Ahead(r) \ {s})
      /\ Cardinality(Ahead(r) \ {s}) = Cardinality(Ahead(r)) - 1
  BY <1>1, <1>3, FS_CardinalityType, FS_RemoveElement
<1>5. Cardinality(Ahead(r) \ {s}) \in Nat
  BY <1>4, FS_CardinalityType
<1>6. Len(room[r].chats) \in Nat
  BY <1>2
<1>7. Len(room[r].chats) + Cardinality(Ahead(r)) <= MaxChats
  BY <1>1 DEF IInv, Bounds
<1>8. Len(room[r].chats) + 1 <= MaxChats
  BY <1>4, <1>5, <1>6, <1>7, ConstantsOK
<1> QED BY <1>4, <1>6, <1>8 DEF r

\* A log with one chat more is a log.
LEMMA WithChatType ==
  ASSUME NEW log \in Seq(Chat), NEW chat \in Chat
  PROVE  WithChat(log, chat) \in Seq(Chat)
<1> DEFINE longer == Append(log, chat)
<1>1. longer \in Seq(Chat) /\ Len(longer) \in Nat
  OBVIOUS
<1>2. \A i \in 1..Len(longer) : longer[i] \in Chat
  BY <1>1
<1> HIDE DEF longer
<1>3. MaxLog \div 2 + 2 \in Int /\ MaxLog \div 2 + 2 >= 1
  BY ConstantsOK
<1>4. Rotated(longer) \in Seq(Chat)
  <2> DEFINE k == MaxLog \div 2 + 2
  <2>1. k \in Int /\ k >= 1
    BY <1>3
  <2> HIDE DEF k
  <2>2. \A i \in k..Len(longer) : longer[i] \in Chat
    BY <1>1, <1>2, <2>1
  <2>3. SubSeq(longer, k, Len(longer)) \in Seq(Chat)
    BY <1>1, <2>1, <2>2, SubSeqProperties
  <2> QED BY <2>3 DEF Rotated, k
<1> QED BY <1>1, <1>4 DEF WithChat, longer

\* ... by the line of a chat in the log, under room_mutex.
LEMMA ChatFileOK ==
  ASSUME IInv, NEW s \in Session, ChatFile(s)
  PROVE  IInv'
<1> DEFINE r == p_room[s]
           n == room[r].name
           chat == [from |-> s, n |-> Len(room[r].chats) + 1]
<1>1. /\ r \in Room /\ Live(r) /\ RoomFree(r) /\ n \in RoomName
      /\ pc[s] = "chat" /\ pc' = [pc EXCEPT ![s] = "said"] /\ pc'[s] = "said"
      /\ StepOf(s) /\ SameRooms
      /\ room' = [room EXCEPT ![r] = [room[r] EXCEPT !.room_mutex = s,
                               !.chats = Append(room[r].chats, s)]]
      /\ room'[r].p_users = room[r].p_users
      /\ room'[r].room_mutex = s
      /\ room'[r].chats = Append(room[r].chats, s)
      /\ Append(room[r].chats, s) \in Seq(Session)
      /\ \A q \in Room \ {r} : room'[q] = room[q]
      /\ logs' = [logs EXCEPT ![n] = WithChat(logs[n], chat)]
      /\ UNCHANGED <<rooms_table, room_count, room_names, rooms_mutex,
                     process, closing, p_room, client>>
  BY ChatFileEffect
<1>2. room[r] \in RoomStruct /\ r # NULL /\ rooms_table[KeyOf[n]] = r
  BY <1>1, ConstantsOK DEF IInv, TypeOK, Live
<1>3. logs' \in [RoomName -> Seq(Chat) \cup {NULL}] /\ logs'[n] \in Seq(Chat)
  <2>1. chat \in Chat
    <3>1. Len(room[r].chats) \in Nat /\ Len(room[r].chats) + 1 <= MaxChats
      BY <1>1, ChatFits
    <3>2. Len(room[r].chats) + 1 \in 1..MaxChats
      BY <3>1, ConstantsOK
    <3> QED BY <3>2 DEF Chat
  <2>2. logs[n] \in Seq(Chat)
    BY <1>1, <1>2 DEF IInv, Structs, Entry
  <2> HIDE DEF chat, n
  <2>3. WithChat(logs[n], chat) \in Seq(Chat)
    BY <2>1, <2>2, WithChatType
  <2> QED BY <1>1, <2>3 DEF IInv, TypeOK
<1>4. TypeOK'
  <2>1. room' \in [Room -> RoomStruct]
    <3>1. [room[r] EXCEPT !.room_mutex = s, !.chats = Append(room[r].chats, s)]
            \in RoomStruct
      BY <1>1, <1>2 DEF RoomStruct
    <3> QED BY <1>1, <3>1 DEF IInv, TypeOK
  <2>2. pc' \in [Session -> PC]
    BY <1>1 DEF IInv, TypeOK, PC
  <2> QED BY <1>1, <1>3, <2>1, <2>2 DEF IInv, TypeOK, process, client
<1>5. Locks'
  <2>1. /\ ~HoldsTable(s)' /\ HoldsRoom(s)' /\ ~HoldsRoom(s) /\ ~HoldsTable(s)
        /\ \A q \in Room : room[q].room_mutex # s
        /\ rooms_mutex # s
    BY <1>1 DEF HoldsTable, HoldsRoom, IInv, Locks
  <2>2. \A t \in Session : room[r].room_mutex # t
    BY <1>1, NobodyHolds
  <2>3. p_room'[s] = r /\ r # NULL
    BY <1>1, <1>2
  <2>4. \A q \in Room : /\ HoldsRoom(s)' /\ p_room'[s] = q <=> room'[q].room_mutex = s
                        /\ \A t \in Session \ {s} :
                             room'[q].room_mutex = t <=> room[q].room_mutex = t
    <3> HIDE DEF r, n, chat
    <3> QED BY <1>1, <2>1, <2>2, <2>3
  <2> HIDE DEF r, n, chat
  <2> QED BY <1>1, <2>1, <2>3, <2>4, LocksStep
<1>6. SessionOK(s)'
  <2>1. SessionOK(s)
    BY DEF IInv, Control
  <2> QED BY <1>1, <2>1 DEF SessionOK, client
<1>7. Structs' /\ Control' /\ Counts'
  <2>1. \A k \in Key : rooms_table[k] # NULL =>
           logs'[room[rooms_table[k]].name] \in Seq(Chat)
    <3>1. \A m \in RoomName \ {n} : logs'[m] = logs[m]
      BY <1>1 DEF IInv, TypeOK
    <3>2. \A k \in Key : rooms_table[k] # NULL =>
            /\ room[rooms_table[k]].name \in RoomName
            /\ logs[room[rooms_table[k]].name] \in Seq(Chat)
      BY DEF IInv, Structs, Entry
    <3> HIDE DEF n
    <3> QED BY <1>3, <3>1, <3>2
  <2> HIDE DEF r, n, chat
  <2> QED BY <1>1, <1>6, <2>1, SameRoomsStep
<1>8. Members'
  <2>1. \A q \in Room : room'[q].p_users = room[q].p_users
    BY <1>1
  <2>2. Chats(s)' <=> Chats(s)
    BY <1>1 DEF Chats, client
  <2> HIDE DEF r, n, chat
  <2> QED BY <1>1, <2>1, <2>2, MembersStep DEF client
<1>9. Bounds'
  <2>4. ASSUME NEW t \in Session, pc'[t] = "said"
        PROVE  LET chats == room'[p_room'[t]].chats
               IN  chats # << >> /\ chats[Len(chats)] = t
    <3>1. CASE t = s
      <4>1. room[r].chats \in Seq(Session)
        BY <1>2 DEF RoomStruct
      <4>2. /\ Append(room[r].chats, s) # << >>
            /\ Append(room[r].chats, s)[Len(Append(room[r].chats, s))] = s
        BY <4>1
      <4>3. p_room'[t] = r
        BY <1>1, <3>1
      <4> QED BY <1>1, <3>1, <4>2, <4>3
    <3>2. CASE t # s
      <4>1. pc[t] = "said" /\ p_room'[t] = p_room[t]
        BY <1>1, <2>4, <3>2 DEF StepOf
      <4>2. p_room[t] \in Room \ {r}
        BY <1>1, <4>1, HasRoom, NobodyHolds DEF HoldsRoom
      <4> QED BY <1>1, <4>1, <4>2 DEF IInv, Bounds
    <3> QED BY <3>1, <3>2
  <2> SUFFICES ASSUME NEW q \in Room
               PROVE  Len(room'[q].chats) + Cardinality(Ahead(q)') <= MaxChats
    BY <2>4 DEF Bounds
  <2>1. Len(room[q].chats) + Cardinality(Ahead(q)) <= MaxChats
    BY DEF IInv, Bounds
  <2>2. CASE q = r
    <3>1. Ahead(q)' = Ahead(q) \ {s}
      BY <1>1, <2>2 DEF Ahead, StepOf
    <3>2. room[r].chats \in Seq(Session)
      BY <1>2 DEF RoomStruct
    <3>3. Len(room'[q].chats) = Len(room[q].chats) + 1
      BY <1>1, <2>2, <3>2
    <3> QED BY <1>1, <2>1, <2>2, <3>1, <3>3, ChatFits, ConstantsOK
  <2>3. CASE q # r
    <3>1. Ahead(q)' = Ahead(q)
      BY <1>1, <2>3 DEF Ahead, StepOf
    <3> QED BY <1>1, <2>1, <2>3, <3>1
  <2> QED BY <2>2, <2>3
<1>10. Clean'
  BY <1>1 DEF IInv, Clean, process
<1> QED BY <1>4, <1>5, <1>7, <1>8, <1>9, <1>10 DEF IInv

\* What ChatSend changes: whoever it reaches is a member, and not the sender;
\* when no write fails it reaches all of them.
LEMMA ChatSendEffect ==
  ASSUME IInv, NEW s \in Session, ChatSend(s)
  PROVE  LET r == p_room[s]
             chat == [from |-> s, n |-> Len(room[r].chats)]
             others == Elements(room[r].p_users) \ {s}
         IN  /\ r \in Room /\ Live(r) /\ room[r].room_mutex = s
             /\ pc[s] = "said" /\ pc'[s] = "idle" /\ p_room'[s] = NULL
             /\ closing'[s] \in BOOLEAN /\ p_ssl[s] = "open"
             /\ StepOf(s) /\ SameRooms
             /\ room' = [room EXCEPT ![r] = [room[r] EXCEPT !.room_mutex = NULL]]
             /\ room'[r].p_users = room[r].p_users
             /\ room'[r].room_mutex = NULL
             /\ room'[r].chats = room[r].chats
             /\ \A q \in Room \ {r} : room'[q] = room[q]
             /\ \E heard \in SUBSET others :
                  /\ inbox' = [t \in Session |-> IF t \in heard
                                                 THEN Append(inbox[t], chat)
                                                 ELSE inbox[t]]
                  /\ heard # others =>
                       SendMayFail \/ \E t \in others : p_ssl[t] = "freed"
             /\ UNCHANGED <<rooms_table, room_count, room_names, rooms_mutex,
                            logs, process, chatting, p_chat_room, p_ssl>>
<1> DEFINE r == p_room[s]
           chat == [from |-> s, n |-> Len(room[r].chats)]
           others == Elements(room[r].p_users) \ {s}
<1>1. pc[s] = "said" /\ HoldsRoom(s)
  BY DEF ChatSend, HoldsRoom
<1>2. r \in Room /\ Live(r) /\ room[r].room_mutex = s
  BY <1>1, OwnStruct
<1>3. room[r] \in RoomStruct
  BY <1>2 DEF IInv, TypeOK
<1>4. room' = [room EXCEPT ![r] = [room[r] EXCEPT !.room_mutex = NULL]]
  BY <1>2, <1>3 DEF ChatSend, IInv, TypeOK
<1>5. /\ room'[r] = [room[r] EXCEPT !.room_mutex = NULL]
      /\ \A q \in Room \ {r} : room'[q] = room[q]
  BY <1>2, <1>4 DEF IInv, TypeOK
<1>6. /\ room'[r].p_users = room[r].p_users
      /\ room'[r].room_mutex = NULL
      /\ room'[r].chats = room[r].chats
      /\ room'[r].state = room[r].state /\ room'[r].name = room[r].name
  BY <1>3, <1>5 DEF RoomStruct
<1>7. UNCHANGED <<rooms_table, room_count, room_names, rooms_mutex, logs,
                  process, chatting, p_chat_room, p_ssl>>
  BY DEF ChatSend
<1>8. PICK reached \in 0..Len(Listed(r)) :
        /\ Reaches(r, s, reached)
        /\ inbox' = [t \in Session |->
             IF t \in {Listed(r)[i] : i \in 1..reached} \ {s}
             THEN Append(inbox[t], chat) ELSE inbox[t]]
        /\ Return(s, reached = Len(Listed(r)))
  BY DEF ChatSend
<1>9. /\ StepOf(s) /\ pc'[s] = "idle" /\ p_room'[s] = NULL
      /\ closing'[s] \in BOOLEAN
  BY <1>7, <1>8 DEF Return, Goto, IInv, TypeOK, StepOf
<1>10. p_ssl[s] = "open"
  BY <1>1 DEF IInv, Control, SessionOK, TypeOK
<1>11. SameRooms
  BY <1>2, <1>5, <1>6, <1>7 DEF SameRooms, Live
<1> DEFINE seq == room[r].p_users
           heard == {seq[i] : i \in 1..reached} \ {s}
<1>12. Listed(r) = seq
  BY DEF Listed
<1>13. seq \in Seq(Session) /\ Len(seq) \in Nat /\ DOMAIN seq = 1..Len(seq)
  BY <1>3 DEF RoomStruct
<1>14. /\ heard \in SUBSET others
       /\ heard # others => SendMayFail \/ \E t \in others : p_ssl[t] = "freed"
  <2>1. heard \in SUBSET others
    BY <1>8, <1>12, <1>13 DEF Elements
  <2>2. CASE reached = Len(seq)
    BY <1>13, <2>1, <2>2 DEF Elements
  <2>3. CASE reached # Len(seq)
    <3>1. reached + 1 \in 1..Len(seq)
      BY <1>8, <1>12, <1>13, <2>3
    <3>2. /\ seq[reached + 1] # s
          /\ SendMayFail \/ p_ssl[seq[reached + 1]] = "freed"
      BY <1>8, <1>12, <1>13, <3>1 DEF Reaches
    <3>3. seq[reached + 1] \in others
      BY <1>13, <3>1, <3>2 DEF Elements
    <3> QED BY <2>1, <3>2, <3>3
  <2> QED BY <2>1, <2>2, <2>3
<1>15. inbox' = [t \in Session |-> IF t \in heard THEN Append(inbox[t], chat)
                                                  ELSE inbox[t]]
  BY <1>8, <1>12
<1>16. \E h \in SUBSET others :
         /\ inbox' = [t \in Session |-> IF t \in h THEN Append(inbox[t], chat)
                                                   ELSE inbox[t]]
         /\ h # others => SendMayFail \/ \E t \in others : p_ssl[t] = "freed"
  <2> HIDE DEF heard, others, chat
  <2> QED BY <1>14, <1>15
<1> HIDE DEF heard, seq
<1> QED BY <1>1, <1>2, <1>4, <1>5, <1>6, <1>7, <1>9, <1>10, <1>11, <1>16

\* s gives back the room_mutex it holds, and its handler returns.
LEMMA ReleaseOK ==
  ASSUME IInv, TypeOK', NEW s \in Session, HoldsRoom(s), StepOf(s), SameRooms,
         pc'[s] = "idle", p_room'[s] = NULL, SessionOK(s)', Clean',
         room' = [room EXCEPT ![p_room[s]] =
                    [room[p_room[s]] EXCEPT !.room_mutex = NULL]],
         UNCHANGED <<rooms_mutex, logs>>,
         Chats(s)' <=> Chats(s), Chats(s) => p_chat_room'[s] = p_chat_room[s]
  PROVE  IInv'
<1> DEFINE r == p_room[s]
<1>1. /\ r \in Room /\ room[r].room_mutex = s
      /\ ~HoldsTable(s) /\ ~HoldsTable(s)' /\ ~HoldsRoom(s)'
  BY OwnStruct DEF HoldsTable, HoldsRoom
<1>2. room[r] \in RoomStruct
  BY <1>1 DEF IInv, TypeOK
<1>3. /\ room'[r] = [room[r] EXCEPT !.room_mutex = NULL]
      /\ \A q \in Room \ {r} : room'[q] = room[q]
  BY <1>1 DEF IInv, TypeOK
<1>4. /\ room'[r].p_users = room[r].p_users
      /\ room'[r].room_mutex = NULL
      /\ room'[r].chats = room[r].chats
  BY <1>2, <1>3 DEF RoomStruct
<1>5. Locks'
  <2>1. rooms_mutex # s
    BY <1>1 DEF IInv, Locks
  <2>2. /\ \A q \in Room \ {r} : room[q].room_mutex # s
        /\ \A t \in Session \ {s} : room[r].room_mutex # t
        /\ \A t \in Session : NULL # t
    BY <1>1, ConstantsOK DEF IInv, Locks
  <2>3. \A q \in Room : /\ room'[q].room_mutex # s
                        /\ \A t \in Session \ {s} :
                             room'[q].room_mutex = t <=> room[q].room_mutex = t
    BY <1>1, <1>3, <1>4, <2>2
  <2> HIDE DEF r
  <2> QED BY <1>1, <2>1, <2>3, LocksStep
<1>6. Structs' /\ Control' /\ Counts'
  <2>1. \A k \in Key : rooms_table[k] # NULL =>
           logs'[room[rooms_table[k]].name] \in Seq(Chat)
    BY DEF IInv, Structs, Entry
  <2>2. pc[s] # "list"
    BY DEF HoldsRoom
  <2> QED BY <2>1, <2>2, SameRoomsStep
<1>7. \A q \in Room : /\ room'[q].p_users = room[q].p_users
                      /\ room'[q].chats = room[q].chats
  BY <1>3, <1>4
<1>8. Members'
  BY <1>7, MembersStep DEF SameRooms
<1>9. Bounds'
  BY <1>7, BoundsStep
<1> QED BY <1>5, <1>6, <1>8, <1>9 DEF IInv

\* ... by the broadcast of a chat, which gives room_mutex back.
LEMMA ChatSendOK ==
  ASSUME IInv, NEW s \in Session, ChatSend(s)
  PROVE  IInv'
<1> DEFINE r == p_room[s]
           chat == [from |-> s, n |-> Len(room[r].chats)]
<1>1. /\ r \in Room /\ Live(r) /\ room[r].room_mutex = s
      /\ pc[s] = "said" /\ pc'[s] = "idle" /\ p_room'[s] = NULL
      /\ closing'[s] \in BOOLEAN /\ p_ssl[s] = "open"
      /\ StepOf(s) /\ SameRooms
      /\ room' = [room EXCEPT ![r] = [room[r] EXCEPT !.room_mutex = NULL]]
      /\ UNCHANGED <<rooms_table, room_count, room_names, rooms_mutex,
                     logs, process, chatting, p_chat_room, p_ssl>>
  BY ChatSendEffect
<1>2. SessionOK(s)'
  <2>1. SessionOK(s)
    BY DEF IInv, Control
  <2> QED BY <1>1, <2>1 DEF SessionOK
<1>3. TypeOK'
  <2>1. room' \in [Room -> RoomStruct]
    <3>1. room[r] \in RoomStruct
      BY <1>1 DEF IInv, TypeOK
    <3>2. [room[r] EXCEPT !.room_mutex = NULL] \in RoomStruct
      BY <3>1 DEF RoomStruct
    <3> QED BY <1>1, <3>2 DEF IInv, TypeOK
  <2>2. inbox' \in [Session -> Seq(Chat)]
    <3> DEFINE others == Elements(room[r].p_users) \ {s}
    <3>5. \E heard \in SUBSET others :
            /\ inbox' = [t \in Session |-> IF t \in heard
                                           THEN Append(inbox[t], chat)
                                           ELSE inbox[t]]
            /\ heard # others => SendMayFail \/ \E t \in others : p_ssl[t] = "freed"
      BY ChatSendEffect
    <3>1. PICK heard : inbox' = [t \in Session |->
                         IF t \in heard THEN Append(inbox[t], chat) ELSE inbox[t]]
      BY <3>5
    <3>2. chat \in Chat
      <4>1. Len(room[r].chats) \in 1..MaxChats
        <5>1. room[r].chats # << >> /\ room[r].chats \in Seq(Session)
          BY <1>1 DEF IInv, Bounds, TypeOK, RoomStruct
        <5>2. Len(room[r].chats) \in Nat /\ Len(room[r].chats) # 0
          BY <5>1
        <5>3. Cardinality(Ahead(r)) \in Nat
          BY ConstantsOK, FS_Subset, FS_CardinalityType DEF Ahead
        <5>4. Len(room[r].chats) + Cardinality(Ahead(r)) <= MaxChats
          BY <1>1 DEF IInv, Bounds
        <5> QED BY <5>2, <5>3, <5>4, ConstantsOK
      <4> QED BY <4>1 DEF Chat
    <3>3. \A t \in Session : inbox[t] \in Seq(Chat)
      BY DEF IInv, TypeOK
    <3> HIDE DEF chat
    <3>4. \A t \in Session : Append(inbox[t], chat) \in Seq(Chat)
      BY <3>2, <3>3
    <3> QED BY <3>1, <3>3, <3>4
  <2>3. /\ pc' \in [Session -> PC] /\ closing' \in [Session -> BOOLEAN]
        /\ p_room' \in [Session -> Room \cup {NULL}]
    BY DEF ChatSend, Return, Goto, IInv, TypeOK, PC
  <2> QED BY <1>1, <2>1, <2>2, <2>3 DEF IInv, TypeOK, process
<1>4. HoldsRoom(s) /\ Chats(s) /\ Chats(s)' /\ Clean'
  BY <1>1 DEF HoldsRoom, Chats, IInv, Control, SessionOK, Clean, process
<1> HIDE DEF chat
<1> QED BY <1>1, <1>2, <1>3, <1>4, ReleaseOK

\* ... by the end of a leave, which gives room_mutex back.
LEMMA LeaveDoneOK ==
  ASSUME IInv, NEW s \in Session, LeaveDone(s)
  PROVE  IInv'
<1> DEFINE r == p_room[s]
<1>1. pc[s] = "left told" /\ HoldsRoom(s) /\ SessionOK(s)
  BY DEF LeaveDone, IInv, Control, SessionOK, HoldsRoom
<1>2. r \in Room /\ room[r].room_mutex = s /\ room[r].state \in {"live", "torn"}
  BY <1>1, OwnStruct
<1>3. room[r] \in RoomStruct
  BY <1>2 DEF IInv, TypeOK
<1>4. room' = [room EXCEPT ![r] = [room[r] EXCEPT !.room_mutex = NULL]]
  BY <1>2, <1>3 DEF LeaveDone, IInv, TypeOK
<1>5. /\ p_chat_room' = [p_chat_room EXCEPT ![s] = NULL]
      /\ chatting' = [chatting EXCEPT ![s] = FALSE]
      /\ Reply(s)
      /\ UNCHANGED <<rooms_table, room_count, room_names, rooms_mutex, logs,
                     process, p_ssl, inbox>>
  BY <1>1 DEF LeaveDone, process
<1>6. /\ StepOf(s) /\ pc'[s] = "idle" /\ p_room'[s] = NULL /\ ~chatting'[s]
      /\ closing'[s] \in BOOLEAN /\ (closing[s] => closing'[s])
  BY <1>5 DEF Reply, Return, Goto, IInv, TypeOK, StepOf
<1>7. SessionOK(s)'
  BY <1>1, <1>5, <1>6 DEF SessionOK
<1>8. /\ room'[r] = [room[r] EXCEPT !.room_mutex = NULL]
      /\ \A q \in Room \ {r} : room'[q] = room[q]
  BY <1>2, <1>4 DEF IInv, TypeOK
<1>9. SameRooms
  <2>1. room'[r].state = room[r].state /\ room'[r].name = room[r].name
    BY <1>3, <1>8 DEF RoomStruct
  <2> QED BY <1>2, <1>5, <1>8, <2>1 DEF SameRooms
<1>10. TypeOK'
  <2>1. room' \in [Room -> RoomStruct]
    <3>1. [room[r] EXCEPT !.room_mutex = NULL] \in RoomStruct
      BY <1>3 DEF RoomStruct
    <3> QED BY <1>4, <3>1 DEF IInv, TypeOK
  <2>2. /\ pc' \in [Session -> PC] /\ closing' \in [Session -> BOOLEAN]
        /\ p_room' \in [Session -> Room \cup {NULL}]
        /\ chatting' \in [Session -> BOOLEAN]
        /\ p_chat_room' \in [Session -> RoomName \cup {NULL}]
    BY <1>5 DEF Reply, Return, Goto, IInv, TypeOK, PC
  <2> QED BY <1>5, <2>1, <2>2 DEF IInv, TypeOK, process
<1>11. ~Chats(s) /\ ~Chats(s)' /\ Clean'
  BY <1>1, <1>5, <1>6 DEF Chats, IInv, Clean, process
<1> QED BY <1>1, <1>4, <1>5, <1>6, <1>7, <1>9, <1>10, <1>11, ReleaseOK

\* What LeaveRemove changes.
LEMMA LeaveRemoveEffect ==
  ASSUME IInv, NEW s \in Session, LeaveRemove(s)
  PROVE  LET r == p_room[s]
             after == MembersWithout(r, s)
         IN  /\ r \in Room /\ Live(r) /\ RoomFree(r)
             /\ rooms_table[KeyOf[p_chat_room[s]]] = r
             /\ s \in Elements(room[r].p_users)
             /\ after \in Seq(Session) /\ Distinct(after)
             /\ Elements(after) = Elements(room[r].p_users) \ {s}
             /\ pc[s] = "leave" /\ pc' = [pc EXCEPT ![s] = "left"]
             /\ pc'[s] = "left" /\ StepOf(s) /\ SameRooms
             /\ room' = [room EXCEPT ![r] = [room[r] EXCEPT !.room_mutex = s,
                                             !.p_users = after]]
             /\ room'[r].p_users = after
             /\ room'[r].room_mutex = s
             /\ room'[r].chats = room[r].chats
             /\ \A q \in Room \ {r} : room'[q] = room[q]
             /\ inbox' = [inbox EXCEPT ![s] = << >>]
             /\ UNCHANGED <<rooms_table, room_count, room_names, rooms_mutex,
                            logs, process, closing, chatting, p_chat_room,
                            p_room, p_ssl>>
<1> DEFINE r == p_room[s]
           after == MembersWithout(r, s)
<1>1. pc[s] = "leave" /\ RoomFree(r)
  BY DEF LeaveRemove
<1>2. /\ r \in Room /\ Live(r) /\ s \in Elements(room[r].p_users)
      /\ rooms_table[KeyOf[p_chat_room[s]]] = r
  BY <1>1, OwnStruct
<1>3. room[r] \in RoomStruct /\ Distinct(room[r].p_users)
  BY <1>2 DEF IInv, TypeOK, Members
<1>4. /\ after \in Seq(Session) /\ Distinct(after)
      /\ Elements(after) = Elements(room[r].p_users) \ {s}
  <2>1. room[r].p_users \in Seq(Session)
    BY <1>3 DEF RoomStruct
  <2> QED BY <1>2, <1>3, <2>1, MembersWithoutOne
<1>5. /\ room' = [room EXCEPT ![r].room_mutex = s, ![r].p_users = after]
      /\ pc' = [pc EXCEPT ![s] = "left"]
      /\ inbox' = [inbox EXCEPT ![s] = << >>]
      /\ UNCHANGED <<rooms_table, room_count, room_names, rooms_mutex,
                     logs, process, closing, chatting, p_chat_room,
                     p_room, p_ssl>>
  BY <1>2 DEF LeaveRemove, Goto
<1> HIDE DEF after
<1>6. room' = [room EXCEPT ![r] = [room[r] EXCEPT !.room_mutex = s,
                                                  !.p_users = after]]
  BY <1>2, <1>3, <1>5 DEF IInv, TypeOK
<1>7. /\ room'[r] = [room[r] EXCEPT !.room_mutex = s, !.p_users = after]
      /\ \A q \in Room \ {r} : room'[q] = room[q]
  BY <1>2, <1>6 DEF IInv, TypeOK
<1>8. /\ room'[r].p_users = after
      /\ room'[r].room_mutex = s
      /\ room'[r].chats = room[r].chats
      /\ room'[r].state = room[r].state /\ room'[r].name = room[r].name
  BY <1>3, <1>7 DEF RoomStruct
<1>9. SameRooms
  BY <1>2, <1>5, <1>7, <1>8 DEF SameRooms, Live
<1>10. StepOf(s) /\ pc'[s] = "left"
  BY <1>5 DEF StepOf, IInv, TypeOK
<1> QED BY <1>1, <1>2, <1>4, <1>5, <1>6, <1>7, <1>8, <1>9, <1>10 DEF after

\* ... by the removal of a member, under room_mutex.
LEMMA LeaveRemoveOK ==
  ASSUME IInv, NEW s \in Session, LeaveRemove(s)
  PROVE  IInv'
<1> DEFINE r == p_room[s]
           after == MembersWithout(r, s)
<1>1. /\ r \in Room /\ Live(r) /\ RoomFree(r)
      /\ after \in Seq(Session) /\ Distinct(after)
      /\ Elements(after) = Elements(room[r].p_users) \ {s}
      /\ pc[s] = "leave" /\ pc' = [pc EXCEPT ![s] = "left"]
      /\ pc'[s] = "left" /\ StepOf(s) /\ SameRooms
      /\ room' = [room EXCEPT ![r] = [room[r] EXCEPT !.room_mutex = s,
                                      !.p_users = after]]
      /\ room'[r].p_users = after
      /\ room'[r].room_mutex = s
      /\ room'[r].chats = room[r].chats
      /\ \A q \in Room \ {r} : room'[q] = room[q]
      /\ inbox' = [inbox EXCEPT ![s] = << >>]
      /\ UNCHANGED <<rooms_table, room_count, room_names, rooms_mutex,
                     logs, process, closing, chatting, p_chat_room,
                     p_room, p_ssl>>
  BY LeaveRemoveEffect
<1> HIDE DEF after
<1>2. room[r] \in RoomStruct /\ r # NULL
  BY <1>1, ConstantsOK DEF IInv, TypeOK
<1>3. SessionOK(s) /\ Chats(s) /\ ~Chats(s)'
  BY <1>1 DEF IInv, Control, SessionOK, Chats
<1>4. SessionOK(s)'
  BY <1>1, <1>3 DEF SessionOK
<1>5. TypeOK'
  <2>1. room' \in [Room -> RoomStruct]
    <3>1. [room[r] EXCEPT !.room_mutex = s, !.p_users = after] \in RoomStruct
      BY <1>1, <1>2 DEF RoomStruct
    <3> QED BY <1>1, <3>1 DEF IInv, TypeOK
  <2>2. pc' \in [Session -> PC]
    BY <1>1 DEF IInv, TypeOK, PC
  <2>3. inbox' \in [Session -> Seq(Chat)]
    <3>1. << >> \in Seq(Chat)
      OBVIOUS
    <3> QED BY <1>1, <3>1 DEF IInv, TypeOK
  <2> QED BY <1>1, <2>1, <2>2, <2>3 DEF IInv, TypeOK, process
<1>6. Locks'
  <2>1. /\ ~HoldsTable(s)' /\ HoldsRoom(s)' /\ ~HoldsRoom(s) /\ ~HoldsTable(s)
        /\ \A q \in Room : room[q].room_mutex # s
        /\ rooms_mutex # s
    BY <1>1 DEF HoldsTable, HoldsRoom, IInv, Locks
  <2>2. \A t \in Session : room[r].room_mutex # t
    BY <1>1, NobodyHolds
  <2>3. p_room'[s] = r /\ r # NULL
    BY <1>1, <1>2
  <2>4. \A q \in Room : /\ HoldsRoom(s)' /\ p_room'[s] = q <=> room'[q].room_mutex = s
                        /\ \A t \in Session \ {s} :
                             room'[q].room_mutex = t <=> room[q].room_mutex = t
    <3> HIDE DEF r
    <3> QED BY <1>1, <2>1, <2>2, <2>3
  <2> HIDE DEF r
  <2> QED BY <1>1, <2>1, <2>3, <2>4, LocksStep
<1>7. Structs' /\ Control' /\ Counts'
  <2>1. \A k \in Key : rooms_table[k] # NULL =>
           logs'[room[rooms_table[k]].name] \in Seq(Chat)
    BY <1>1 DEF IInv, Structs, Entry
  <2> HIDE DEF r
  <2> QED BY <1>1, <1>4, <2>1, SameRoomsStep
<1>8. Members'
  <2>1. \A t \in Session \ {s} : /\ Chats(t)' <=> Chats(t)
                                 /\ p_chat_room'[t] = p_chat_room[t]
    BY <1>1 DEF Chats, StepOf
  <2>2. ASSUME NEW t \in Session, NEW q \in Room
        PROVE  t \in Elements(room'[q].p_users)
                 <=> Chats(t)' /\ rooms_table'[KeyOf[p_chat_room'[t]]] = q
    <3>1. t \in Elements(room[q].p_users)
            <=> Chats(t) /\ rooms_table[KeyOf[p_chat_room[t]]] = q
      BY DEF IInv, Members
    <3>2. rooms_table[KeyOf[p_chat_room[s]]] = r
      BY <1>1, <1>3 DEF SessionOK
    <3>3. CASE t = s
      BY <1>1, <1>3, <3>1, <3>2, <3>3
    <3>4. CASE t # s
      BY <1>1, <2>1, <3>1, <3>4
    <3> QED BY <3>3, <3>4
  <2>3. \A q \in Room : Distinct(room'[q].p_users)
    BY <1>1 DEF IInv, Members
  <2>4. \A t \in Session : Chats(t)' =>
          p_chat_room'[t] \in RoomName /\ rooms_table'[KeyOf[p_chat_room'[t]]] # NULL
    BY <1>1, <1>3, <2>1 DEF IInv, Members
  <2> QED BY <2>2, <2>3, <2>4 DEF Members
<1>9. Bounds'
  <2>1. \A q \in Room : room'[q].chats = room[q].chats
    BY <1>1
  <2> HIDE DEF r
  <2> QED BY <1>1, <2>1, BoundsStep
<1>10. Clean'
  BY <1>1 DEF IInv, Clean, process
<1> QED BY <1>5, <1>6, <1>7, <1>8, <1>9, <1>10 DEF IInv
---------------------------------------------------------------------------
(* Deletion *)

\* Only rooms of the table have members.
LEMMA MembersLive ==
  ASSUME IInv, NEW r \in Room, Elements(room[r].p_users) # {}
  PROVE  /\ room[r].state = "live" /\ room[r].name \in RoomName
         /\ rooms_table[KeyOf[room[r].name]] = r
<1>1. room[r].p_users \in Seq(Session)
  BY DEF IInv, TypeOK, RoomStruct
<1>2. PICK t \in Session : t \in Elements(room[r].p_users)
  BY <1>1 DEF Elements
<1>3. /\ p_chat_room[t] \in RoomName /\ rooms_table[KeyOf[p_chat_room[t]]] = r
      /\ rooms_table[KeyOf[p_chat_room[t]]] # NULL
  BY <1>2 DEF IInv, Members
<1>4. Entry(KeyOf[p_chat_room[t]])
  BY <1>3 DEF IInv, Structs
<1> QED BY <1>3, <1>4 DEF Entry

\* What DeleteCheck changes.
LEMMA DeleteCheckEffect ==
  ASSUME IInv, NEW s \in Session, NEW n \in RoomName, DeleteCheck(s, n)
  PROVE  LET r == rooms_table[KeyOf[n]]
         IN  /\ r \in Room /\ r # NULL /\ Live(r)
             /\ room[r].name \in RoomName /\ KeyOf[room[r].name] = KeyOf[n]
             /\ room[r].p_users = << >> /\ Elements(room[r].p_users) = {}
             /\ RoomsFree /\ rooms_mutex' = s
             /\ pc[s] = "idle" /\ ~closing[s] /\ ~chatting[s] /\ p_room[s] = NULL
             /\ pc' = [pc EXCEPT ![s] = "list"] /\ pc'[s] = "list"
             /\ p_room' = [p_room EXCEPT ![s] = r] /\ p_room'[s] = r /\ StepOf(s)
             /\ rooms_table' = [rooms_table EXCEPT ![KeyOf[n]] = NULL]
             /\ rooms_table'[KeyOf[n]] = NULL
             /\ \A k \in Key \ {KeyOf[n]} : rooms_table'[k] = rooms_table[k]
             /\ \A t \in Session : Chats(t) => /\ p_chat_room[t] \in RoomName
                                             /\ KeyOf[p_chat_room[t]] # KeyOf[n]
             /\ UNCHANGED <<room_count, room_names, room, logs, process, closing,
                            client>>
<1> DEFINE r == rooms_table[KeyOf[n]]
<1>1. /\ pc[s] = "idle" /\ ~closing[s] /\ ~chatting[s] /\ RoomsFree
      /\ r # NULL /\ room[r].p_users = << >>
      /\ rooms_table' = [rooms_table EXCEPT ![KeyOf[n]] = NULL] /\ rooms_mutex' = s
      /\ p_room' = [p_room EXCEPT ![s] = r] /\ pc' = [pc EXCEPT ![s] = "list"]
      /\ UNCHANGED <<room_count, room_names, room, logs, process, closing,
                     client>>
  BY DEF DeleteCheck, InLobby, Listening, CanDelete, Hold, Goto
<1>2. r \in Room /\ p_room[s] = NULL
  BY <1>1 DEF IInv, TypeOK, Locks
<1>3. /\ Live(r) /\ room[r].name \in RoomName
      /\ KeyOf[room[r].name] = KeyOf[n]
  <2>1. Entry(KeyOf[n])
    BY <1>1 DEF IInv, Structs
  <2> QED BY <2>1 DEF Entry, Live
<1>4. /\ rooms_table'[KeyOf[n]] = NULL
      /\ \A k \in Key \ {KeyOf[n]} : rooms_table'[k] = rooms_table[k]
      /\ pc'[s] = "list" /\ p_room'[s] = r /\ StepOf(s)
  BY <1>1 DEF IInv, TypeOK, StepOf, client
<1>5. Elements(room[r].p_users) = {}
  BY <1>1 DEF Elements
<1>6. ASSUME NEW t \in Session, Chats(t)
      PROVE  p_chat_room[t] \in RoomName /\ KeyOf[p_chat_room[t]] # KeyOf[n]
  BY <1>2, <1>5, <1>6 DEF IInv, Members
<1> QED BY <1>1, <1>2, <1>3, <1>4, <1>5, <1>6

\* ... by the removal of a room from the table: it has no members.
LEMMA DeleteCheckOK ==
  ASSUME IInv, NEW s \in Session, NEW n \in RoomName, DeleteCheck(s, n)
  PROVE  IInv'
<1> DEFINE r == rooms_table[KeyOf[n]]
<1>1. /\ r \in Room /\ r # NULL /\ Live(r)
      /\ room[r].name \in RoomName /\ KeyOf[room[r].name] = KeyOf[n]
      /\ Elements(room[r].p_users) = {}
      /\ RoomsFree /\ rooms_mutex' = s
      /\ pc[s] = "idle" /\ ~closing[s] /\ ~chatting[s] /\ p_room[s] = NULL
      /\ pc' = [pc EXCEPT ![s] = "list"] /\ pc'[s] = "list"
      /\ p_room' = [p_room EXCEPT ![s] = r] /\ p_room'[s] = r /\ StepOf(s)
      /\ rooms_table' = [rooms_table EXCEPT ![KeyOf[n]] = NULL]
      /\ rooms_table'[KeyOf[n]] = NULL
      /\ \A k \in Key \ {KeyOf[n]} : rooms_table'[k] = rooms_table[k]
      /\ \A t \in Session : Chats(t) => /\ p_chat_room[t] \in RoomName
                                      /\ KeyOf[p_chat_room[t]] # KeyOf[n]
      /\ UNCHANGED <<room_count, room_names, room, logs, process, closing,
                     client>>
  BY DeleteCheckEffect
<1> HIDE DEF r
<1>2. TypeOK'
  BY <1>1 DEF IInv, TypeOK, PC, process, client
<1>3. Locks'
  <2>1. \A t \in Session : rooms_mutex # t
    BY <1>1, ConstantsOK DEF RoomsFree
  <2>2. /\ HoldsTable(s)' /\ ~HoldsRoom(s) /\ ~HoldsRoom(s)'
        /\ \A q \in Room : room[q].room_mutex # s
    BY <1>1 DEF HoldsTable, HoldsRoom, IInv, Locks
  <2> QED BY <1>1, <2>1, <2>2, LocksStep
<1>4. Structs'
  <2>1. ASSUME NEW k \in Key, rooms_table'[k] # NULL
        PROVE  Entry(k)'
    <3>1. rooms_table[k] = rooms_table'[k] /\ Entry(k)
      BY <1>1, <2>1 DEF IInv, Structs
    <3> QED BY <1>1, <3>1 DEF Entry
  <2>2. ASSUME NEW q \in Room, room'[q].state = "live"
        PROVE  \/ rooms_table'[KeyOf[room'[q].name]] = q
               \/ \E t \in Session : pc'[t] = "list" /\ p_room'[t] = q
    <3>1. rooms_table[KeyOf[room[q].name]] = q /\ room[q].name \in RoomName
      BY <1>1, <2>2, TableFree DEF IInv, Structs
    <3>2. CASE KeyOf[room[q].name] = KeyOf[n]
      BY <1>1, <3>1, <3>2 DEF r
    <3>3. CASE KeyOf[room[q].name] # KeyOf[n]
      BY <1>1, <3>1, <3>3
    <3> QED BY <3>2, <3>3
  <2>3. \A q \in Room :
          /\ room'[q].state = "unused" => room'[q] = Unused
          /\ room'[q].state # "unused" => room'[q].name \in RoomName
          /\ room'[q].room_mutex # NULL => room'[q].state \in {"live", "torn"}
    BY <1>1 DEF IInv, Structs
  <2> QED BY <2>1, <2>2, <2>3 DEF Structs
<1>5. Control'
  <2>1. ASSUME NEW t \in Session \ {s} PROVE SessionOK(t)'
    <3>1. SessionOK(t) /\ pc[t] \notin {"join", "list", "mutex"}
      BY <1>1, TableFree DEF IInv, Control
    <3>2. pc[t] \in {"chat", "said", "leave"} =>
            p_chat_room[t] \in RoomName /\ KeyOf[p_chat_room[t]] # KeyOf[n]
      BY <1>1, <3>1 DEF Chats, SessionOK
    <3>3. /\ pc'[t] = pc[t] /\ closing'[t] = closing[t] /\ p_room'[t] = p_room[t]
          /\ chatting'[t] = chatting[t] /\ p_chat_room'[t] = p_chat_room[t]
          /\ p_ssl'[t] = p_ssl[t]
      BY <1>1 DEF StepOf
    <3>4. pc[t] \in {"chat", "said", "leave"} =>
            rooms_table'[KeyOf[p_chat_room[t]]] = rooms_table[KeyOf[p_chat_room[t]]]
      BY <1>1, <3>2
    <3> QED BY <3>1, <3>3, <3>4 DEF SessionOK
  <2>2. SessionOK(s)'
    <3>1. SessionOK(s)
      BY DEF IInv, Control
    <3> QED BY <1>1, <3>1 DEF SessionOK, client, Live
  <2> QED BY <2>1, <2>2 DEF Control
<1>6. Members'
  <2>1. \A t \in Session : /\ Chats(t)' <=> Chats(t)
                           /\ p_chat_room'[t] = p_chat_room[t]
    BY <1>1 DEF Chats, StepOf, client
  <2>2. \A q \in Room : room'[q].p_users = room[q].p_users
    BY <1>1
  <2> QED BY <1>1, <2>1, <2>2 DEF IInv, Members, Elements
<1>7. Counts'
  <2>1. OutOfTable' = OutOfTable \cup {r} /\ r \notin OutOfTable
    <3>1. ASSUME NEW q \in Room
          PROVE  q \in OutOfTable' <=> q \in OutOfTable \/ q = r
      <4>1. room[q].state \in {"live", "torn"} => room[q].name \in RoomName
        BY DEF IInv, Structs
      <4>2. q # NULL
        BY ConstantsOK
      <4>3. CASE q = r
        BY <1>1, <4>2, <4>3 DEF OutOfTable, Live
      <4>4. CASE q # r
        BY <1>1, <4>1, <4>2, <4>4 DEF OutOfTable, r
      <4> QED BY <4>3, <4>4
    <3>2. r \notin OutOfTable
      BY <1>1 DEF OutOfTable, Live
    <3> QED BY <1>1, <3>1, <3>2 DEF OutOfTable
  <2>2. TableKeys' = TableKeys \ {KeyOf[n]} /\ KeyOf[n] \in TableKeys
    BY <1>1 DEF TableKeys, r
  <2>3. IsFiniteSet(TableKeys) /\ IsFiniteSet(OutOfTable)
    BY ConstantsOK, FS_Subset DEF TableKeys, IInv, Counts
  <2>4. /\ Cardinality(TableKeys') = Cardinality(TableKeys) - 1
        /\ Cardinality(TableKeys) \in Nat
    BY <2>2, <2>3, FS_RemoveElement, FS_CardinalityType
  <2>5. /\ Cardinality(OutOfTable') = Cardinality(OutOfTable) + 1
        /\ Cardinality(OutOfTable) \in Nat /\ IsFiniteSet(OutOfTable')
    BY <2>1, <2>3, FS_AddElement, FS_CardinalityType
  <2> QED BY <1>1, <2>4, <2>5 DEF IInv, Counts
<1>8. Bounds'
  BY <1>1, BoundsStep
<1>9. Clean'
  BY <1>1 DEF IInv, Clean, process
<1> QED BY <1>2, <1>3, <1>4, <1>5, <1>6, <1>7, <1>8, <1>9 DEF IInv

\* What DeleteList changes.
LEMMA DeleteListEffect ==
  ASSUME IInv, NEW s \in Session, DeleteList(s)
  PROVE  LET r == p_room[s]
         IN  /\ r \in Room /\ room[r].state = "live" /\ room[r].name \in RoomName
             /\ rooms_table[KeyOf[room[r].name]] = NULL
             /\ pc[s] = "list" /\ rooms_mutex = s
             /\ pc' = [pc EXCEPT ![s] = "mutex"] /\ pc'[s] = "mutex" /\ StepOf(s)
             /\ room' = [room EXCEPT ![r] = [room[r] EXCEPT !.state = "torn"]]
             /\ room'[r].state = "torn" /\ room'[r].name = room[r].name
             /\ room'[r].p_users = room[r].p_users
             /\ room'[r].room_mutex = room[r].room_mutex
             /\ room'[r].chats = room[r].chats
             /\ \A q \in Room \ {r} : room'[q] = room[q]
             /\ UNCHANGED <<rooms_table, room_count, room_names, rooms_mutex,
                            logs, process, closing, p_room, client>>
<1> DEFINE r == p_room[s]
<1>1. /\ pc[s] = "list" /\ pc' = [pc EXCEPT ![s] = "mutex"]
      /\ room' = [room EXCEPT ![r].state = "torn"]
      /\ UNCHANGED <<rooms_table, room_count, room_names, rooms_mutex,
                     logs, process, closing, p_room, client>>
  BY DEF DeleteList, Goto
<1>2. r \in Room /\ rooms_mutex = s
  BY <1>1, HasRoom DEF IInv, Locks, HoldsTable
<1>3. room[r].state = "live" /\ rooms_table[KeyOf[room[r].name]] = NULL
  BY <1>1 DEF IInv, Control, SessionOK
<1>4. room[r] \in RoomStruct /\ room[r].name \in RoomName
  BY <1>2, <1>3 DEF IInv, TypeOK, Structs
<1>5. room' = [room EXCEPT ![r] = [room[r] EXCEPT !.state = "torn"]]
  BY <1>1, <1>2, <1>4 DEF IInv, TypeOK
<1>6. /\ room'[r] = [room[r] EXCEPT !.state = "torn"]
      /\ \A q \in Room \ {r} : room'[q] = room[q]
  BY <1>2, <1>5 DEF IInv, TypeOK
<1>7. /\ room'[r].state = "torn" /\ room'[r].name = room[r].name
      /\ room'[r].p_users = room[r].p_users
      /\ room'[r].room_mutex = room[r].room_mutex
      /\ room'[r].chats = room[r].chats
  BY <1>4, <1>6 DEF RoomStruct
<1>8. StepOf(s) /\ pc'[s] = "mutex"
  BY <1>1 DEF StepOf, IInv, TypeOK, client
<1> QED BY <1>1, <1>2, <1>3, <1>4, <1>5, <1>6, <1>7, <1>8

\* ... by the destruction of the list of members of a room out of the table.
LEMMA DeleteListOK ==
  ASSUME IInv, NEW s \in Session, DeleteList(s)
  PROVE  IInv'
<1> DEFINE r == p_room[s]
<1>1. /\ r \in Room /\ room[r].state = "live" /\ room[r].name \in RoomName
      /\ rooms_table[KeyOf[room[r].name]] = NULL
      /\ pc[s] = "list" /\ rooms_mutex = s
      /\ pc' = [pc EXCEPT ![s] = "mutex"] /\ pc'[s] = "mutex" /\ StepOf(s)
      /\ room' = [room EXCEPT ![r] = [room[r] EXCEPT !.state = "torn"]]
      /\ room'[r].state = "torn" /\ room'[r].name = room[r].name
      /\ room'[r].p_users = room[r].p_users
      /\ room'[r].room_mutex = room[r].room_mutex
      /\ room'[r].chats = room[r].chats
      /\ \A q \in Room \ {r} : room'[q] = room[q]
      /\ UNCHANGED <<rooms_table, room_count, room_names, rooms_mutex,
                     logs, process, closing, p_room, client>>
  BY DeleteListEffect
<1>2. r # NULL /\ room[r] \in RoomStruct /\ p_room'[s] = r
  BY <1>1, ConstantsOK DEF IInv, TypeOK
<1> HIDE DEF r
<1>10. \A q \in Room : /\ room'[q].name = room[q].name
                       /\ room'[q].p_users = room[q].p_users
                       /\ room'[q].room_mutex = room[q].room_mutex
                       /\ room'[q].chats = room[q].chats
  BY <1>1
<1>11. \A k \in Key : rooms_table[k] # r
  BY <1>1, <1>2 DEF IInv, Structs, Entry
<1>3. TypeOK'
  <2>1. room' \in [Room -> RoomStruct]
    <3>1. [room[r] EXCEPT !.state = "torn"] \in RoomStruct
      BY <1>2 DEF RoomStruct
    <3> QED BY <1>1, <3>1 DEF IInv, TypeOK
  <2>2. pc' \in [Session -> PC]
    BY <1>1 DEF IInv, TypeOK, PC
  <2> QED BY <1>1, <2>1, <2>2 DEF IInv, TypeOK, process, client
<1>4. Locks'
  <2>1. /\ HoldsTable(s)' /\ ~HoldsRoom(s) /\ ~HoldsRoom(s)'
        /\ \A q \in Room : room[q].room_mutex # s
    BY <1>1 DEF HoldsTable, HoldsRoom, IInv, Locks
  <2> QED BY <1>1, <1>2, <1>10, <2>1, LocksStep
<1>5. Structs'
  <2>1. ASSUME NEW k \in Key, rooms_table'[k] # NULL
        PROVE  Entry(k)'
    <3>1. rooms_table[k] \in Room \ {r} /\ rooms_table[k] # NULL
      BY <1>1, <1>11, <2>1 DEF IInv, TypeOK
    <3>2. Entry(k)
      BY <3>1 DEF IInv, Structs
    <3> QED BY <1>1, <3>1, <3>2 DEF Entry
  <2>2. ASSUME NEW q \in Room
        PROVE  /\ room'[q].state = "unused" => room'[q] = Unused
               /\ room'[q].state # "unused" => room'[q].name \in RoomName
               /\ room'[q].room_mutex # NULL => room'[q].state \in {"live", "torn"}
    <3>1. CASE q = r
      BY <1>1, <3>1
    <3>2. CASE q # r
      BY <1>1, <3>2 DEF IInv, Structs
    <3> QED BY <3>1, <3>2
  <2>3. ASSUME NEW q \in Room, room'[q].state = "live"
        PROVE  \/ rooms_table'[KeyOf[room'[q].name]] = q
               \/ \E t \in Session : pc'[t] = "list" /\ p_room'[t] = q
    <3>1. q # r /\ room'[q] = room[q]
      BY <1>1, <2>3
    <3>2. \/ rooms_table[KeyOf[room[q].name]] = q
          \/ \E t \in Session : pc[t] = "list" /\ p_room[t] = q
      BY <2>3, <3>1 DEF IInv, Structs
    <3>3. ASSUME NEW t \in Session, pc[t] = "list", p_room[t] = q
          PROVE  pc'[t] = "list" /\ p_room'[t] = q
      <4>1. t # s
        BY <3>1, <3>3 DEF r
      <4> QED BY <1>1, <3>3, <4>1 DEF StepOf
    <3> QED BY <1>1, <3>1, <3>2, <3>3
  <2> QED BY <2>1, <2>2, <2>3 DEF Structs
<1>6. Control'
  <2>1. ASSUME NEW t \in Session \ {s} PROVE SessionOK(t)'
    <3>1. SessionOK(t)
      BY DEF IInv, Control
    <3>2. pc[t] \notin {"join", "list", "mutex"}
      BY <1>1 DEF IInv, Locks, HoldsTable
    <3> QED BY <1>1, <3>1, <3>2 DEF StepOf, SessionOK, client
  <2>2. SessionOK(s)'
    <3>1. SessionOK(s)
      BY DEF IInv, Control
    <3> QED BY <1>1, <1>2, <3>1 DEF SessionOK, client
  <2> QED BY <2>1, <2>2 DEF Control
<1>7. Members'
  <2>1. ~Chats(s) /\ ~Chats(s)'
    <3>1. ~chatting[s]
      BY <1>1 DEF IInv, Control, SessionOK
    <3> QED BY <1>1, <3>1 DEF Chats, client
  <2> QED BY <1>1, <1>10, <2>1, MembersStep
<1>8. Counts'
  <2>1. OutOfTable' = OutOfTable
    <3>1. ASSUME NEW q \in Room PROVE q \in OutOfTable' <=> q \in OutOfTable
      BY <1>1, <1>10 DEF OutOfTable
    <3> QED BY <3>1 DEF OutOfTable
  <2>2. TableKeys' = TableKeys
    BY <1>1 DEF TableKeys
  <2> QED BY <1>1, <2>1, <2>2 DEF IInv, Counts
<1>9. Bounds' /\ Clean'
  <2>1. Clean'
    BY <1>1 DEF IInv, Clean, process
  <2> QED BY <1>1, <1>10, <2>1, BoundsStep
<1> QED BY <1>3, <1>4, <1>5, <1>6, <1>7, <1>8, <1>9 DEF IInv

\* What DeleteMutex changes when the mutex is free.
LEMMA DeleteMutexEffect ==
  ASSUME IInv, NEW s \in Session, NEW n \in RoomName, DeleteMutex(s, n)
  PROVE  LET r == p_room[s]
             own == room[r].name
         IN  /\ r \in Room /\ room[r].state = "torn" /\ own \in RoomName
             /\ KeyOf[n] = KeyOf[own] /\ rooms_table[KeyOf[own]] = NULL
             /\ pc[s] = "mutex" /\ rooms_mutex = s /\ rooms_mutex' = NULL
             /\ ~closing[s] /\ ~chatting[s] /\ p_ssl[s] = "open"
             /\ pc' = [pc EXCEPT ![s] = "idle"] /\ pc'[s] = "idle"
             /\ p_room' = [p_room EXCEPT ![s] = NULL] /\ p_room'[s] = NULL
             /\ closing' \in [Session -> BOOLEAN] /\ StepOf(s)
             /\ server_interrupt' \in {"CONTINUE", "STOP"}
             /\ RoomFree(r) =>
                  /\ logs' = [logs EXCEPT ![own] = NULL]
                  /\ room' = [room EXCEPT ![r] = [room[r] EXCEPT !.state = "freed"]]
                  /\ room'[r].state = "freed" /\ room'[r].name = own
                  /\ room'[r].p_users = room[r].p_users
                  /\ room'[r].room_mutex = room[r].room_mutex
                  /\ room'[r].chats = room[r].chats
                  /\ \A q \in Room \ {r} : room'[q] = room[q]
                  /\ room_names' = NamesWithout(n)
                  /\ room_count' = room_count - 1
             /\ ~RoomFree(r) => UNCHANGED <<logs, room, room_names, room_count>>
             /\ UNCHANGED <<rooms_table, rooms_dir, server, client>>
<1> DEFINE r == p_room[s]
           own == room[r].name
<1>1. pc[s] = "mutex" /\ rooms_mutex' = NULL
  BY DEF DeleteMutex
<1>2. r \in Room /\ rooms_mutex = s
  BY <1>1, HasRoom DEF IInv, Locks, HoldsTable
<1>3. /\ room[r].state = "torn" /\ rooms_table[KeyOf[own]] = NULL
      /\ KeyOf[n] = KeyOf[own]
      /\ ~closing[s] /\ ~chatting[s] /\ p_ssl[s] = "open"
  <2>1. SessionOK(s) /\ p_ssl[s] \in {"open", "freed"}
    BY DEF IInv, Control, TypeOK
  <2>2. AskedFor(n, r)
    BY DEF DeleteMutex
  <2> QED BY <1>1, <2>1, <2>2 DEF SessionOK
<1>4. room[r] \in RoomStruct /\ own \in RoomName
  BY <1>2, <1>3 DEF IInv, TypeOK, Structs
<1>5. /\ pc' = [pc EXCEPT ![s] = "idle"] /\ p_room' = [p_room EXCEPT ![s] = NULL]
      /\ \E b \in BOOLEAN : closing' = [closing EXCEPT ![s] = b]
      /\ server_interrupt' \in {server_interrupt, "STOP"}
      /\ UNCHANGED <<rooms_table, rooms_dir, server, client>>
  BY DEF DeleteMutex, Reply, Fail, Return, Goto, IInv, TypeOK
<1>6. /\ pc'[s] = "idle" /\ p_room'[s] = NULL /\ StepOf(s)
      /\ closing' \in [Session -> BOOLEAN]
      /\ server_interrupt' \in {"CONTINUE", "STOP"}
  BY <1>5 DEF IInv, TypeOK, StepOf, client
<1>7. ASSUME RoomFree(r)
      PROVE  /\ logs' = [logs EXCEPT ![own] = NULL]
             /\ room' = [room EXCEPT ![r] = [room[r] EXCEPT !.state = "freed"]]
             /\ room'[r].state = "freed" /\ room'[r].name = own
             /\ room'[r].p_users = room[r].p_users
             /\ room'[r].room_mutex = room[r].room_mutex
             /\ room'[r].chats = room[r].chats
             /\ \A q \in Room \ {r} : room'[q] = room[q]
             /\ room_names' = NamesWithout(n)
             /\ room_count' = room_count - 1
  <2>1. /\ logs' = [logs EXCEPT ![own] = NULL]
        /\ room' = [room EXCEPT ![r].state = "freed"]
        /\ room_names' = NamesWithout(n)
        /\ room_count' = room_count - 1
    BY <1>7 DEF DeleteMutex
  <2>2. room' = [room EXCEPT ![r] = [room[r] EXCEPT !.state = "freed"]]
    BY <1>2, <1>4, <2>1 DEF IInv, TypeOK
  <2>3. /\ room'[r] = [room[r] EXCEPT !.state = "freed"]
        /\ \A q \in Room \ {r} : room'[q] = room[q]
    BY <1>2, <2>2 DEF IInv, TypeOK
  <2>4. /\ room'[r].state = "freed" /\ room'[r].name = own
        /\ room'[r].p_users = room[r].p_users
        /\ room'[r].room_mutex = room[r].room_mutex
        /\ room'[r].chats = room[r].chats
    BY <1>4, <2>3 DEF RoomStruct
  <2> QED BY <2>1, <2>2, <2>3, <2>4
<1>8. ~RoomFree(r) => UNCHANGED <<logs, room, room_names, room_count>>
  BY DEF DeleteMutex
<1> QED BY <1>1, <1>2, <1>3, <1>4, <1>5, <1>6, <1>7, <1>8

\* A room leaves the table, half torn down or altogether.
LEMMA DeleteMutexOK ==
  ASSUME IInv, NEW s \in Session, NEW n \in RoomName, DeleteMutex(s, n)
  PROVE  IInv'
<1> DEFINE r == p_room[s]
           own == room[r].name
<1>1. /\ r \in Room /\ room[r].state = "torn" /\ own \in RoomName
      /\ rooms_table[KeyOf[own]] = NULL
      /\ pc[s] = "mutex" /\ rooms_mutex = s /\ rooms_mutex' = NULL
      /\ ~closing[s] /\ ~chatting[s] /\ p_ssl[s] = "open"
      /\ pc' = [pc EXCEPT ![s] = "idle"] /\ pc'[s] = "idle"
      /\ p_room' = [p_room EXCEPT ![s] = NULL] /\ p_room'[s] = NULL
      /\ closing' \in [Session -> BOOLEAN] /\ StepOf(s)
      /\ server_interrupt' \in {"CONTINUE", "STOP"}
      /\ UNCHANGED <<rooms_table, rooms_dir, server, client>>
  BY DeleteMutexEffect
<1>2. RoomFree(r) =>
        /\ logs' = [logs EXCEPT ![own] = NULL]
        /\ room' = [room EXCEPT ![r] = [room[r] EXCEPT !.state = "freed"]]
        /\ room'[r].state = "freed" /\ room'[r].name = own
        /\ room'[r].p_users = room[r].p_users
        /\ room'[r].room_mutex = room[r].room_mutex
        /\ room'[r].chats = room[r].chats
        /\ \A q \in Room \ {r} : room'[q] = room[q]
        /\ room_names' = NamesWithout(n)
        /\ room_count' = room_count - 1
  BY DeleteMutexEffect
<1>3. ~RoomFree(r) => UNCHANGED <<logs, room, room_names, room_count>>
  BY DeleteMutexEffect
<1>4. room[r] \in RoomStruct /\ r # NULL
  BY <1>1, ConstantsOK DEF IInv, TypeOK
<1> HIDE DEF r, own
<1>5. \A q \in Room : /\ room'[q].name = room[q].name
                      /\ room'[q].p_users = room[q].p_users
                      /\ room'[q].room_mutex = room[q].room_mutex
                      /\ room'[q].chats = room[q].chats
  BY <1>2, <1>3 DEF own
<1>6. \A q \in Room : room'[q].state = IF q = r /\ RoomFree(r) THEN "freed"
                                       ELSE room[q].state
  BY <1>2, <1>3
<1>7. \A m \in RoomName \ {own} : logs'[m] = logs[m]
  BY <1>1, <1>2, <1>3 DEF IInv, TypeOK
<1>8. Counts' /\ (RoomFree(r) => room_count # 0)
  <2>1. TableKeys' = TableKeys /\ Cardinality(TableKeys) \in Nat
    BY <1>1, ConstantsOK, FS_Subset, FS_CardinalityType DEF TableKeys
  <2>2. r \in OutOfTable
    BY <1>1, <1>4 DEF OutOfTable, own
  <2>3. OutOfTable' = IF RoomFree(r) THEN OutOfTable \ {r} ELSE OutOfTable
    <3>1. ASSUME NEW q \in Room
          PROVE  q \in OutOfTable' <=> q \in OutOfTable /\ ~(q = r /\ RoomFree(r))
      BY <1>1, <1>5, <1>6 DEF OutOfTable
    <3> QED BY <3>1 DEF OutOfTable
  <2>4. IsFiniteSet(OutOfTable)
    BY DEF IInv, Counts
  <2>5. /\ Cardinality(OutOfTable) \in Nat
        /\ Cardinality(OutOfTable \ {r}) = Cardinality(OutOfTable) - 1
        /\ Cardinality(OutOfTable \ {r}) \in Nat
        /\ IsFiniteSet(OutOfTable \ {r})
    BY <2>2, <2>4, FS_RemoveElement, FS_CardinalityType
  <2>6. room_count = Cardinality(TableKeys) + Cardinality(OutOfTable)
    BY DEF IInv, Counts
  <2>7. CASE RoomFree(r)
    BY <1>2, <2>1, <2>3, <2>5, <2>6, <2>7 DEF Counts
  <2>8. CASE ~RoomFree(r)
    BY <1>3, <2>1, <2>3, <2>4, <2>6, <2>8 DEF Counts
  <2> QED BY <2>7, <2>8
<1>9. TypeOK'
  <2>1. room' \in [Room -> RoomStruct]
    <3>1. [room[r] EXCEPT !.state = "freed"] \in RoomStruct
      BY <1>4 DEF RoomStruct
    <3> QED BY <1>2, <1>3, <3>1 DEF IInv, TypeOK
  <2>2. room_names' \in Seq(Piece)
    BY <1>1, <1>2, <1>3, NamesWithoutSpec DEF IInv, TypeOK
  <2>3. room_count' \in 0..MaxRooms
    <3>1. room_count \in 0..MaxRooms /\ MaxRooms \in Nat
      BY ConstantsOK DEF IInv, TypeOK
    <3> QED BY <1>2, <1>3, <1>8, <3>1
  <2>4. logs' \in [RoomName -> Seq(Chat) \cup {NULL}]
    BY <1>2, <1>3 DEF IInv, TypeOK
  <2>5. pc' \in [Session -> PC] /\ p_room' \in [Session -> Room \cup {NULL}]
    BY <1>1 DEF IInv, TypeOK, PC
  <2> QED BY <1>1, <2>1, <2>2, <2>3, <2>4, <2>5 DEF IInv, TypeOK, client
<1>10. Locks'
  <2>1. ~HoldsTable(s)' /\ ~HoldsRoom(s) /\ ~HoldsRoom(s)'
    BY <1>1 DEF HoldsTable, HoldsRoom
  <2>2. \A q \in Room : room[q].room_mutex # s
    BY <2>1, <1>1 DEF IInv, Locks, r
  <2>3. \A t \in Session : NULL # t
    BY ConstantsOK
  <2>4. \A t \in Session \ {s} : rooms_mutex' = t <=> rooms_mutex = t
    BY <1>1, <2>3
  <2> QED BY <1>1, <1>5, <2>1, <2>2, <2>3, <2>4, LocksStep
<1>11. Structs'
  <2>1. ASSUME NEW k \in Key, rooms_table'[k] # NULL
        PROVE  Entry(k)'
    <3>1. rooms_table[k] \in Room /\ rooms_table[k] # NULL /\ k # KeyOf[own]
      BY <1>1, <2>1 DEF IInv, TypeOK
    <3>2. Entry(k)
      BY <3>1 DEF IInv, Structs
    <3>3. rooms_table[k] # r /\ room[rooms_table[k]].name # own
      BY <1>1, <3>1, <3>2 DEF Entry
    <3> QED BY <1>1, <1>5, <1>6, <1>7, <3>1, <3>2, <3>3 DEF Entry
  <2>2. ASSUME NEW q \in Room
        PROVE  /\ room'[q].state = "unused" => room'[q] = Unused
               /\ room'[q].state # "unused" => room'[q].name \in RoomName
               /\ room'[q].room_mutex # NULL => room'[q].state \in {"live", "torn"}
    <3>1. CASE q = r
      BY <1>1, <1>5, <1>6, <3>1 DEF RoomFree, own
    <3>2. CASE q # r
      BY <1>2, <1>3, <3>2 DEF IInv, Structs
    <3> QED BY <3>1, <3>2
  <2>3. ASSUME NEW q \in Room, room'[q].state = "live"
        PROVE  \/ rooms_table'[KeyOf[room'[q].name]] = q
               \/ \E t \in Session : pc'[t] = "list" /\ p_room'[t] = q
    <3>1. room[q].state = "live"
      BY <1>6, <2>3
    <3>2. \/ rooms_table[KeyOf[room[q].name]] = q
          \/ \E t \in Session : pc[t] = "list" /\ p_room[t] = q
      BY <3>1 DEF IInv, Structs
    <3>3. ASSUME NEW t \in Session, pc[t] = "list", p_room[t] = q
          PROVE  pc'[t] = "list" /\ p_room'[t] = q
      BY <1>1, <3>3 DEF StepOf
    <3> QED BY <1>1, <1>5, <3>2, <3>3
  <2> QED BY <2>1, <2>2, <2>3 DEF Structs
<1>12. Control'
  <2>1. ASSUME NEW t \in Session \ {s} PROVE SessionOK(t)'
    <3>1. SessionOK(t)
      BY DEF IInv, Control
    <3>2. pc[t] \notin {"join", "list", "mutex"}
      BY <1>1 DEF IInv, Locks, HoldsTable
    <3> QED BY <1>1, <3>1, <3>2 DEF StepOf, SessionOK, client
  <2>2. SessionOK(s)'
    <3>1. closing'[s] \in BOOLEAN
      BY <1>1
    <3> QED BY <1>1, <3>1 DEF SessionOK, client
  <2> QED BY <2>1, <2>2 DEF Control
<1>13. Members'
  <2>1. ~Chats(s) /\ ~Chats(s)'
    BY <1>1 DEF Chats, client
  <2> QED BY <1>1, <1>5, <2>1, MembersStep
<1>14. Bounds' /\ Clean'
  <2>1. Clean'
    BY <1>1 DEF IInv, Clean
  <2> QED BY <1>1, <1>5, <2>1, BoundsStep
<1> QED BY <1>8, <1>9, <1>10, <1>11, <1>12, <1>13, <1>14 DEF IInv
---------------------------------------------------------------------------
(* The process *)

\* No room, no session.
Empty ==
  /\ rooms_table = [k \in Key |-> NULL]
  /\ room_count = 0 /\ rooms_mutex = NULL
  /\ room = [r \in Room |-> Unused]
  /\ pc = [s \in Session |-> "out"] /\ closing = [s \in Session |-> FALSE]
  /\ p_room = [s \in Session |-> NULL]
  /\ chatting = [s \in Session |-> FALSE]
  /\ p_chat_room = [s \in Session |-> NULL]
  /\ p_ssl = [s \in Session |-> "open"]

\* The other variables have a type.
RestTyped ==
  /\ room_names \in Seq(Piece)
  /\ logs \in [RoomName -> Seq(Chat) \cup {NULL}]
  /\ rooms_dir \in BOOLEAN
  /\ inbox \in [Session -> Seq(Chat)]
  /\ server \in {"up", "down"} /\ server_interrupt \in {"CONTINUE", "STOP"}

\* The invariant holds where there is nothing.
LEMMA EmptyOK == Empty /\ RestTyped /\ Clean => IInv
<1> SUFFICES ASSUME Empty, RestTyped, Clean PROVE IInv
  OBVIOUS
<1>1. << >> \in Seq(Session) /\ << >> \in Seq(Chat)
  OBVIOUS
<1>2. TypeOK
  <2>1. Unused \in RoomStruct
    BY <1>1 DEF Unused, RoomStruct
  <2>2. 0 \in 0..MaxRooms
    BY ConstantsOK
  <2> QED BY <1>1, <2>1, <2>2 DEF Empty, RestTyped, TypeOK, PC
<1>3. \A r \in Room : room[r] = Unused /\ room[r].state = "unused"
                      /\ room[r].p_users = << >> /\ room[r].room_mutex = NULL
                      /\ room[r].chats = << >>
  BY DEF Empty, Unused
<1>4. \A s \in Session : pc[s] = "out" /\ p_room[s] = NULL /\ s # NULL
  BY ConstantsOK DEF Empty
<1>5. Locks
  BY <1>3, <1>4 DEF Empty, Locks, HoldsTable, HoldsRoom
<1>6. Structs
  BY <1>3 DEF Empty, Structs
<1>7. Control
  BY DEF Empty, Control, SessionOK
<1>8. Members
  <2>1. \A s \in Session : ~Chats(s)
    BY DEF Empty, Chats
  <2>2. \A r \in Room : Elements(room[r].p_users) = {} /\ Distinct(room[r].p_users)
    BY <1>3 DEF Elements, Distinct
  <2> QED BY <2>1, <2>2 DEF Members
<1>9. Counts
  <2>1. OutOfTable = {}
    BY <1>3 DEF OutOfTable
  <2>2. TableKeys = {}
    BY DEF Empty, TableKeys
  <2> QED BY <2>1, <2>2, FS_EmptySet DEF Empty, Counts
<1>10. Bounds
  <2>1. \A r \in Room : Ahead(r) = {} /\ Len(room[r].chats) = 0
    BY <1>3, <1>4 DEF Ahead
  <2>2. Cardinality({}) = 0
    BY FS_EmptySet
  <2>3. \A r \in Room : Len(room[r].chats) + Cardinality(Ahead(r)) <= MaxChats
    <3> TAKE r \in Room
    <3>1. Ahead(r) = {} /\ Len(room[r].chats) = 0
      BY <2>1
    <3> QED BY <2>2, <3>1, ConstantsOK
  <2> QED BY <1>4, <2>3 DEF Bounds
<1> QED BY <1>2, <1>5, <1>6, <1>7, <1>8, <1>9, <1>10 DEF IInv

\* It holds when the server starts.
LEMMA InitOK == Init => IInv
<1> SUFFICES ASSUME Init PROVE IInv
  OBVIOUS
<1>1. Empty
  BY DEF Init, Empty
<1>2. << >> \in Seq(Piece) /\ << >> \in Seq(Chat)
  OBVIOUS
<1>3. RestTyped /\ Clean
  BY <1>2 DEF Init, RestTyped, Clean
<1> QED BY <1>1, <1>3, EmptyOK

\* A crash: SendCrashes, LeaveCrashes.
LEMMA DieOK ==
  ASSUME IInv, Die
  PROVE  IInv' /\ Empty'
<1>1. Empty'
  BY DEF Die, Empty
<1>2. /\ room_names' = room_names /\ logs' = logs /\ rooms_dir' = TRUE
      /\ server' = "down" /\ server_interrupt' = "STOP"
  BY DEF Die
<1>3. RestTyped'
  <2>1. << >> \in Seq(Chat)
    OBVIOUS
  <2>2. inbox' \in [Session -> Seq(Chat)]
    BY <2>1 DEF Die
  <2> QED BY <1>2, <2>2 DEF IInv, TypeOK, RestTyped
<1>4. Clean'
  BY <1>2 DEF Clean
<1> QED BY <1>1, <1>2, <1>3, <1>4, EmptyOK, PTL

\* When all sessions are over nobody holds anything.
LEMMA AllOut ==
  ASSUME IInv, \A s \in Session : pc[s] = "out"
  PROVE  \A s \in Session : /\ ~closing[s] /\ ~chatting[s] /\ p_ssl[s] = "open"
                            /\ p_chat_room[s] = NULL /\ p_room[s] = NULL
                            /\ ~Chats(s) /\ rooms_mutex # s
<1>1. \A s \in Session : SessionOK(s)
  BY DEF IInv, Control
<1> QED BY <1>1 DEF SessionOK, IInv, Locks, Chats, HoldsTable

\* After a complete shutdown there is nothing.
LEMMA ShutdownOK ==
  ASSUME IInv, Shutdown
  PROVE  IInv' /\ Empty'
<1>1. \A s \in Session : /\ pc[s] = "out" /\ ~closing[s] /\ ~chatting[s]
                         /\ p_ssl[s] = "open" /\ p_chat_room[s] = NULL
                         /\ p_room[s] = NULL /\ rooms_mutex # s
  BY AllOut DEF Shutdown
<1>2. rooms_mutex = NULL
  BY <1>1 DEF IInv, TypeOK
<1>3. UNCHANGED <<rooms_mutex, server_interrupt, control, client>>
  BY DEF Shutdown
<1>4. /\ pc = [s \in Session |-> "out"] /\ p_room = [s \in Session |-> NULL]
      /\ p_chat_room = [s \in Session |-> NULL]
      /\ p_ssl = [s \in Session |-> "open"]
  BY <1>1 DEF IInv, TypeOK
<1>5. closing = [s \in Session |-> FALSE] /\ chatting = [s \in Session |-> FALSE]
  <2>1. \A s \in Session : closing[s] = FALSE /\ chatting[s] = FALSE
    BY <1>1 DEF IInv, TypeOK
  <2> QED BY <2>1 DEF IInv, TypeOK
<1>6. Empty'
  BY <1>2, <1>3, <1>4, <1>5 DEF Shutdown, Empty, control, client
<1>7. RestTyped'
  <2>1. << >> \in Seq(Piece)
    OBVIOUS
  <2>2. logs' \in [RoomName -> Seq(Chat) \cup {NULL}]
    BY DEF Shutdown, IInv, TypeOK
  <2>3. rooms_dir' \in BOOLEAN
    BY DEF Shutdown
  <2> QED BY <1>3, <2>1, <2>2, <2>3 DEF Shutdown, RestTyped, IInv, TypeOK, client
<1>8. Clean'
  BY DEF Shutdown, Clean
<1> QED BY <1>6, <1>7, <1>8, EmptyOK, PTL

\* Every step preserves the invariant.
LEMMA NextOK == IInv /\ [Next]_vars => IInv'
<1> SUFFICES ASSUME IInv, [Next]_vars PROVE IInv'
  OBVIOUS
<1>1. ASSUME NEW s \in Session, Receive(s) PROVE IInv'
  <2>1. CASE Login(s) \/ LoopEnds(s)
    BY <2>1, AnswerOK, EndsOK
  <2>2. CASE List(s)
    BY <2>2, ListOK
  <2>3. CASE ChatLookup(s)
    BY <2>3, ChatLookupOK
  <2>4. CASE LeaveLookup(s)
    BY <2>4, LeaveLookupOK
  <2>5. ASSUME NEW n \in RoomName,
               CreateReject(s, n) \/ JoinReject(s, n) \/ DeleteReject(s, n)
        PROVE  IInv'
    BY <2>5, AnswerOK
  <2>6. ASSUME NEW n \in RoomName, Create(s, n) PROVE IInv'
    BY <2>6, CreateOK
  <2>7. ASSUME NEW n \in RoomName, JoinLookup(s, n) PROVE IInv'
    BY <2>7, JoinLookupOK
  <2>8. ASSUME NEW n \in RoomName, DeleteCheck(s, n) PROVE IInv'
    BY <2>8, DeleteCheckOK
  <2> QED BY <1>1, <2>1, <2>2, <2>3, <2>4, <2>5, <2>6, <2>7, <2>8 DEF Receive
<1>2. ASSUME NEW s \in Session, Proceed(s) PROVE IInv'
  <2>1. ASSUME NEW n \in RoomName, JoinEnter(s, n) PROVE IInv'
    BY <2>1, JoinEnterOK
  <2>2. CASE ChatFile(s)
    BY <2>2, ChatFileOK
  <2>3. CASE ChatSend(s)
    BY <2>3, ChatSendOK
  <2>4. CASE SendCrashes(s) \/ LeaveCrashes(s)
    BY <2>4, DieOK DEF SendCrashes, LeaveCrashes
  <2>5. CASE LeaveRemove(s)
    BY <2>5, LeaveRemoveOK
  <2>6. CASE LeaveSend(s)
    BY <2>6, LeaveSendOK
  <2>7. CASE LeaveDone(s)
    BY <2>7, LeaveDoneOK
  <2>8. CASE DeleteList(s)
    BY <2>8, DeleteListOK
  <2>9. ASSUME NEW n \in RoomName, DeleteMutex(s, n) PROVE IInv'
    BY <2>9, DeleteMutexOK
  <2>10. CASE LoopStops(s) \/ SessionOver(s)
    BY <2>10, AnswerOK, EndsOK
  <2>11. CASE LeaveLookup(s)
    BY <2>11, LeaveLookupOK
  <2> QED BY <1>2, <2>1, <2>2, <2>3, <2>4, <2>5, <2>6, <2>7, <2>8, <2>9, <2>10,
             <2>11 DEF Proceed
<1>3. CASE Shutdown
  BY <1>3, ShutdownOK
<1>4. CASE Interrupt \/ StartUp \/ UNCHANGED vars
  BY <1>4, ServerOK
<1> QED BY <1>1, <1>2, <1>3, <1>4 DEF Next

\* The invariant holds throughout every behaviour.
THEOREM Invariance == Spec => []IInv
<1> QED BY InitOK, NextOK, PTL DEF Spec
---------------------------------------------------------------------------
(* What the invariant says *)

\* Types of the variables, and room_count within max_rooms.
THEOREM RoomsTypes == Spec => []TypeOK
<1>1. IInv => TypeOK
  BY DEF IInv
<1> QED BY <1>1, Invariance, PTL

\* What a handler that looked a room up uses after it gave rooms_mutex back
\* (cr_chats_chat, cr_chats_leave) is still the room in the table.
THEOREM LookupsLive == Spec => []PointersLive
<1>1. IInv => PointersLive
  <2> SUFFICES ASSUME IInv, NEW s \in Session,
                      pc[s] \in {"join", "chat", "said", "leave"}
               PROVE  p_room[s] \in Room /\ Live(p_room[s])
    BY DEF PointersLive
  <2>1. CASE pc[s] = "join"
    <3>1. SessionOK(s)
      BY DEF IInv, Control
    <3> QED BY <2>1, <3>1, HasRoom DEF SessionOK
  <2>2. CASE pc[s] # "join"
    BY <2>2, OwnStruct
  <2> QED BY <2>1, <2>2
<1> QED BY <1>1, Invariance, PTL

\* The places of s in a sequence that has nothing twice.
LEMMA PlacesOf ==
  ASSUME NEW S, NEW seq \in Seq(S), NEW s, Distinct(seq)
  PROVE  Cardinality({i \in DOMAIN seq : seq[i] = s})
           = IF s \in Elements(seq) THEN 1 ELSE 0
<1> DEFINE places == {i \in DOMAIN seq : seq[i] = s}
<1>1. CASE s \in Elements(seq)
  <2>1. PICK i \in DOMAIN seq : seq[i] = s
    BY <1>1 DEF Elements
  <2>2. places = {i}
    BY <2>1 DEF Distinct
  <2>3. Cardinality({i}) = 1
    BY FS_Singleton
  <2> QED BY <1>1, <2>2, <2>3
<1>2. CASE s \notin Elements(seq)
  <2>1. places = {}
    BY <1>2 DEF Elements
  <2> QED BY <1>2, <2>1, FS_EmptySet
<1> QED BY <1>1, <1>2

\* Being a member is the same as believing to be one.
LEMMA MemberIs ==
  ASSUME IInv, NEW s \in Session, NEW r \in Room
  PROVE  s \in Elements(room[r].p_users) <=> InRoom(s, r)
<1>1. s \in Elements(room[r].p_users)
        <=> Chats(s) /\ rooms_table[KeyOf[p_chat_room[s]]] = r
  BY DEF IInv, Members
<1>2. Chats(s) => /\ p_chat_room[s] \in RoomName
                  /\ rooms_table[KeyOf[p_chat_room[s]]] # NULL
  BY DEF IInv, Members
<1>3. Chats(s) /\ rooms_table[KeyOf[p_chat_room[s]]] = r
        => /\ room[r].state = "live"
           /\ KeyOf[room[r].name] = KeyOf[p_chat_room[s]]
  BY <1>2 DEF IInv, Structs, Entry
<1> QED BY <1>1, <1>2, <1>3 DEF InRoom, Live

\* A session that chats is a member, once, of its room and of no other; nobody
\* else is a member of anything.
THEOREM MembersExact == Spec => []Membership
<1>1. IInv => Membership
  <2> SUFFICES ASSUME IInv PROVE Membership
    OBVIOUS
  <2>1. ASSUME NEW s \in Session, NEW r \in Room
        PROVE  LET places == {i \in DOMAIN room[r].p_users :
                                room[r].p_users[i] = s}
               IN  Cardinality(places) = IF InRoom(s, r) THEN 1 ELSE 0
    <3>1. room[r].p_users \in Seq(Session) /\ Distinct(room[r].p_users)
      BY DEF IInv, TypeOK, RoomStruct, Members
    <3>2. s \in Elements(room[r].p_users) <=> InRoom(s, r)
      BY MemberIs
    <3> QED BY <3>1, <3>2, PlacesOf
  <2>2. ASSUME NEW s \in Session, Chats(s) PROVE \E r \in Room : InRoom(s, r)
    <3> DEFINE r == rooms_table[KeyOf[p_chat_room[s]]]
    <3>1. p_chat_room[s] \in RoomName /\ r # NULL /\ r \in Room
      BY <2>2 DEF IInv, Members, TypeOK
    <3>2. s \in Elements(room[r].p_users)
      BY <2>2, <3>1 DEF IInv, Members
    <3> HIDE DEF r
    <3> QED BY <3>1, <3>2, MemberIs
  <2> QED BY <2>1, <2>2 DEF Membership
<1> QED BY <1>1, Invariance, PTL

\* What create compares with max_rooms is the number of rooms of the table and
\* of those whose deletion failed half way.
THEOREM CountExact == Spec => []RoomCountExact
<1>1. IInv => RoomCountExact
  <2> SUFFICES ASSUME IInv, RoomsFree
               PROVE  room_count = Cardinality(TableKeys)
                        + Cardinality({r \in Room : room[r].state = "torn"})
    BY DEF RoomCountExact
  <2>1. ASSUME NEW r \in Room PROVE r \in OutOfTable <=> room[r].state = "torn"
    <3>1. room[r].state = "live" => rooms_table[KeyOf[room[r].name]] = r
      BY TableFree
    <3>2. r # NULL
      BY ConstantsOK
    <3>3. room[r].state = "torn" => room[r].name \in RoomName
      BY DEF IInv, Structs
    <3>4. room[r].state = "torn" => rooms_table[KeyOf[room[r].name]] # r
      BY <3>2, <3>3 DEF IInv, Structs, Entry
    <3> QED BY <3>1, <3>4 DEF OutOfTable
  <2>2. OutOfTable = {r \in Room : room[r].state = "torn"}
    BY <2>1 DEF OutOfTable
  <2> QED BY <2>2 DEF IInv, Counts
<1> QED BY <1>1, Invariance, PTL
---------------------------------------------------------------------------
(* Steps that change neither a room nor what a member was sent *)

Still ==
  /\ UNCHANGED <<rooms_table, room_names, logs, rooms_dir, inbox>>
  /\ \A q \in Room : /\ room'[q].state = room[q].state
                     /\ room'[q].name = room[q].name
                     /\ room'[q].p_users = room[q].p_users
                     /\ room'[q].chats = room[q].chats
  /\ \A t \in Session :
       /\ Chats(t)' <=> Chats(t)
       /\ Chats(t) => p_chat_room'[t] = p_chat_room[t]
       /\ pc'[t] = "said" <=> pc[t] = "said"
       /\ pc'[t] = "mutex" <=> pc[t] = "mutex"
       /\ pc[t] \in {"said", "mutex"} => p_room'[t] = p_room[t]
       /\ ~ReadMayFail /\ p_ssl[t] = "open" => p_ssl'[t] = "open"

\* It is enough to look at the session that takes the step.
LEMMA StillStep ==
  ASSUME NEW s \in Session, StepOf(s),
         UNCHANGED <<rooms_table, room_names, logs, rooms_dir, inbox, room>>,
         pc[s] \notin {"said", "mutex"}, pc'[s] \notin {"said", "mutex"},
         Chats(s)' <=> Chats(s), Chats(s) => p_chat_room'[s] = p_chat_room[s],
         ~ReadMayFail /\ p_ssl[s] = "open" => p_ssl'[s] = "open"
  PROVE  Still
<1>1. ASSUME NEW t \in Session \ {s}
      PROVE  /\ Chats(t)' <=> Chats(t)
             /\ p_chat_room'[t] = p_chat_room[t] /\ p_room'[t] = p_room[t]
             /\ pc'[t] = pc[t] /\ p_ssl'[t] = p_ssl[t]
  BY DEF StepOf, Chats
<1> QED BY <1>1 DEF Still

\* Logins, ends of sessions, answers and interrupted reads.
LEMMA StillIdle ==
  ASSUME IInv, NEW s \in Session,
         \/ \E n \in RoomName :
              CreateReject(s, n) \/ JoinReject(s, n) \/ DeleteReject(s, n)
         \/ Login(s) \/ List(s) \/ LoopEnds(s) \/ LoopStops(s) \/ SessionOver(s)
  PROVE  Still
<1> USE DEF CreateReject, JoinReject, DeleteReject, LoopEnds, LoopStops, Login,
            List, SessionOver, InLobby, Listening, Reply, Fail, Return, Goto,
            client, process, shared
<1>1. /\ pc[s] \in {"idle", "out"} /\ pc'[s] \in {"idle", "out"}
      /\ chatting' = chatting
      /\ chatting[s] => p_chat_room' = p_chat_room
  BY DEF IInv, TypeOK
<1>2. StepOf(s)
  BY DEF IInv, TypeOK, StepOf
<1>3. UNCHANGED <<rooms_table, room_names, logs, rooms_dir, inbox, room>>
  OBVIOUS
<1>4. ~ReadMayFail /\ p_ssl[s] = "open" => p_ssl'[s] = "open"
  BY DEF IInv, TypeOK
<1>5. Chats(s)' <=> Chats(s)
  BY <1>1 DEF Chats
<1>6. Chats(s) => p_chat_room'[s] = p_chat_room[s]
  BY <1>1 DEF Chats
<1> QED BY <1>1, <1>2, <1>3, <1>4, <1>5, <1>6, StillStep

\* Lookups, and the announcement of a leave.
LEMMA StillLookup ==
  ASSUME IInv, NEW s \in Session,
         \/ \E n \in RoomName : JoinLookup(s, n)
         \/ ChatLookup(s) \/ LeaveLookup(s) \/ LeaveSend(s)
  PROVE  Still
<1>1. pc[s] \in {"idle", "left", "lost"} /\ pc[s] # "lost"
  BY DEF JoinLookup, ChatLookup, LeaveLookup, LeaveSend, InLobby, Listening,
         IInv, Control, SessionOK
<1>2. /\ \E where \in {"join", "chat", "leave", "left told"} :
           /\ pc' = [pc EXCEPT ![s] = where]
           /\ pc[s] = "left" <=> where = "left told"
      /\ \E p \in Room : p_room' = [p_room EXCEPT ![s] = p]
      /\ UNCHANGED <<closing, rooms_table, room_names, logs, rooms_dir, room,
                     client>>
  <2>1. CASE \E n \in RoomName : JoinLookup(s, n)
    BY <2>1 DEF JoinLookup, InLobby, Listening, Hold, Goto, IInv, TypeOK, process
  <2>2. CASE ChatLookup(s)
    <3>1. rooms_table[KeyOf[p_chat_room[s]]] \in Room /\ rooms_table[KeyOf[p_chat_room[s]]] # NULL
      BY <2>2, OwnRoom DEF ChatLookup, Listening
    <3> QED BY <2>2, <3>1 DEF ChatLookup, Listening, Hold, Goto, shared
  <2>3. CASE LeaveLookup(s)
    <3>1. rooms_table[KeyOf[p_chat_room[s]]] \in Room /\ rooms_table[KeyOf[p_chat_room[s]]] # NULL
      BY <2>3, OwnRoom DEF LeaveLookup
    <3> QED BY <2>3, <3>1 DEF LeaveLookup, Hold, Goto, shared, client
  <2>4. CASE LeaveSend(s)
    <3>1. pc[s] = "left" /\ p_room[s] \in Room
      BY <1>1, <2>4, HasRoom DEF LeaveSend
    <3>2. p_room' = [p_room EXCEPT ![s] = p_room[s]]
      BY <2>4 DEF LeaveSend, IInv, TypeOK
    <3> QED BY <2>4, <3>1, <3>2 DEF LeaveSend, Goto, shared, process
  <2> QED BY <2>1, <2>2, <2>3, <2>4
<1>3. /\ StepOf(s) /\ pc'[s] \in {"join", "chat", "leave", "left told"}
      /\ pc[s] = "left" <=> pc'[s] = "left told"
  BY <1>2 DEF IInv, TypeOK, StepOf, client
<1>4. Chats(s)' <=> Chats(s)
  BY <1>1, <1>2, <1>3 DEF Chats, client
<1> QED BY <1>1, <1>2, <1>3, <1>4, StillStep DEF client

\* The end of a leave.
LEMMA StillLeft ==
  ASSUME IInv, NEW s \in Session, LeaveDone(s)
  PROVE  Still
<1> DEFINE r == p_room[s]
<1>1. pc[s] = "left told" /\ r \in Room
  <2>1. pc[s] = "left told"
    BY DEF LeaveDone, IInv, Control, SessionOK
  <2> QED BY <2>1, HasRoom
<1>2. /\ room' = [room EXCEPT ![r].room_mutex = NULL]
      /\ chatting' = [chatting EXCEPT ![s] = FALSE]
      /\ p_chat_room' = [p_chat_room EXCEPT ![s] = NULL]
      /\ Reply(s)
      /\ UNCHANGED <<rooms_table, room_names, logs, rooms_dir, p_ssl, inbox>>
  BY <1>1 DEF LeaveDone
<1>3. StepOf(s) /\ pc'[s] = "idle" /\ ~chatting'[s]
  BY <1>2 DEF Reply, Return, Goto, IInv, TypeOK, StepOf
<1>4. ASSUME NEW q \in Room
      PROVE  /\ room'[q].state = room[q].state
             /\ room'[q].name = room[q].name
             /\ room'[q].p_users = room[q].p_users
             /\ room'[q].chats = room[q].chats
  <2>1. room[q] \in RoomStruct /\ room \in [Room -> RoomStruct]
    BY DEF IInv, TypeOK
  <2>2. room'[q] = IF q = r THEN [room[q] EXCEPT !.room_mutex = NULL] ELSE room[q]
    BY <1>1, <1>2, <2>1
  <2> QED BY <2>1, <2>2 DEF RoomStruct
<1>5. ~Chats(s) /\ ~Chats(s)'
  BY <1>1, <1>3 DEF Chats
<1>6. ASSUME NEW t \in Session \ {s}
      PROVE  /\ Chats(t)' <=> Chats(t)
             /\ p_chat_room'[t] = p_chat_room[t] /\ p_room'[t] = p_room[t]
             /\ pc'[t] = pc[t]
  BY <1>3 DEF StepOf, Chats
<1> QED BY <1>1, <1>2, <1>3, <1>4, <1>5, <1>6 DEF Still

\* The others are these.
LEMMA Steps ==
  ASSUME IInv, [Next]_vars
  PROVE  \/ Still \/ Die \/ Shutdown
         \/ \E s \in Session, n \in RoomName :
              Create(s, n) \/ DeleteCheck(s, n) \/ JoinEnter(s, n) \/ DeleteMutex(s, n)
         \/ \E s \in Session : \/ ChatFile(s) \/ ChatSend(s)
                               \/ LeaveRemove(s) \/ DeleteList(s)
<1>1. ASSUME NEW s \in Session, Receive(s)
      PROVE  \/ Still
             \/ \E n \in RoomName : Create(s, n) \/ DeleteCheck(s, n)
  BY <1>1, StillIdle, StillLookup DEF Receive
<1>2. ASSUME NEW s \in Session, Proceed(s)
      PROVE  \/ Still \/ Die
             \/ \E n \in RoomName : JoinEnter(s, n) \/ DeleteMutex(s, n)
             \/ ChatFile(s) \/ ChatSend(s) \/ LeaveRemove(s) \/ DeleteList(s)
  <2>1. SendCrashes(s) \/ LeaveCrashes(s) => Die
    BY DEF SendCrashes, LeaveCrashes
  <2>2. LeaveSend(s) \/ LeaveLookup(s) => Still
    BY StillLookup
  <2>3. LoopStops(s) \/ SessionOver(s) => Still
    BY StillIdle
  <2>4. LeaveDone(s) => Still
    BY StillLeft
  <2> QED BY <1>2, <2>1, <2>2, <2>3, <2>4 DEF Proceed
<1>3. Interrupt \/ StartUp \/ UNCHANGED vars => Still
  BY DEF Interrupt, StartUp, vars, shared, control, client, process, Still, Chats
<1> QED BY <1>1, <1>2, <1>3 DEF Next
---------------------------------------------------------------------------
(* The list of rooms that a client is sent *)

\* Rooms whose deletion failed; rooms that are still to be freed.
Failed == {r \in Room : /\ room[r].state = "torn"
                        /\ \A s \in Session : ~(pc[s] = "mutex" /\ p_room[s] = r)}
Standing == {r \in Room : room[r].state \in {"live", "torn"}}

\* What the list has of one name: the line of every room that stands and whose
\* deletion has not failed; and, when no other name has its key, only the lines
\* of rooms that stand, once as long as no deletion has failed.
ListedAs(n) ==
  /\ \A r \in Standing \ Failed : room[r].name = n => n \in Elements(room_names)
  /\ OwnKey(n) =>
       /\ n \in Elements(room_names) => \E r \in Standing : room[r].name = n
       /\ (\A r \in Failed : room[r].name # n) => Once(n, room_names)

ListInv == ~rooms_dir => \A n \in RoomName : Whole(n) => ListedAs(n)

\* Steps that neither create a room nor take one away.
LEMMA ListSame ==
  ASSUME ListInv, UNCHANGED <<room_names, rooms_dir>>,
         \A q \in Room : room'[q].state = room[q].state
                         /\ room'[q].name = room[q].name,
         \A t \in Session, q \in Room : pc'[t] = "mutex" /\ p_room'[t] = q
                                          <=> pc[t] = "mutex" /\ p_room[t] = q
  PROVE  ListInv'
<1>1. Failed' = Failed
  <2>1. \A q \in Room : q \in Failed' <=> q \in Failed
    BY DEF Failed
  <2> QED BY <2>1 DEF Failed
<1>2. Standing' = Standing
  BY DEF Standing
<1>3. \A q \in Standing : room'[q].name = room[q].name
  BY DEF Standing
<1>4. \A q \in Failed : q \in Standing
  BY DEF Failed, Standing
<1>5. \A n \in RoomName : ListedAs(n) => ListedAs(n)'
  BY <1>1, <1>2, <1>3, <1>4 DEF ListedAs, Elements, Once
<1>6. \A n \in RoomName : Whole(n)' <=> Whole(n)
  BY DEF Whole, Elements
<1> QED BY <1>5, <1>6 DEF ListInv

\* A creation adds its line to a list that has no line of the name, if the key
\* of the name is its own.
LEMMA ListCreate ==
  ASSUME IInv, ListInv, NEW s \in Session, NEW n \in RoomName, Create(s, n)
  PROVE  ListInv'
<1> PICK r \in Room : Created(s, n, r)
  BY CreateEffect
<1>1. /\ room[r].state = "unused" /\ room'[r].state = "live" /\ room'[r].name = n
      /\ \A q \in Room \ {r} : room'[q] = room[q]
      /\ rooms_table[KeyOf[n]] = NULL /\ RoomsFree
      /\ room_names' = room_names \o Pieces[n] /\ pc' = pc /\ p_room' = p_room
      /\ rooms_dir' = rooms_dir
      /\ \A t \in Session : pc[t] \notin {"join", "list", "mutex"}
  BY DEF Created, process
<1>2. Standing' = Standing \cup {r} /\ r \notin Standing
  <2>1. \A q \in Room : q \in Standing' <=> q \in Standing \/ q = r
    BY <1>1 DEF Standing
  <2> QED BY <1>1, <2>1 DEF Standing
<1>3. \A q \in Standing : q \in Room \ {r} /\ room'[q].name = room[q].name
  BY <1>1, <1>2 DEF Standing
<1>4. Failed' = Failed /\ \A q \in Failed : q \in Standing
  <2>1. \A q \in Room : q \in Failed' <=> q \in Failed
    BY <1>1 DEF Failed
  <2> QED BY <2>1 DEF Failed, Standing
<1>5. \A q \in Standing \ Failed : room[q].name # n
  <2> TAKE q \in Standing \ Failed
  <2>1. q \in Room /\ room[q].state = "live" /\ q # NULL
    BY <1>1, ConstantsOK DEF Standing, Failed
  <2> QED BY <1>1, <2>1, TableFree
<1>6. SUFFICES ASSUME ~rooms_dir, NEW m \in RoomName, Whole(m)
               PROVE  ListedAs(m)'
  BY <1>1 DEF ListInv, Whole, Elements
<1>7. room_names \in Seq(Piece) /\ Pieces[n] \in Seq(Piece) /\ ListedAs(m)
  BY <1>6, ConstantsOK DEF IInv, TypeOK, ListInv
<1>8. m \in Piece
  BY <1>6, ConstantsOK DEF Whole
<1>9. CASE m = n
  <2>1. Pieces[n] = <<m>>
    BY <1>6, <1>9 DEF Whole
  <2>2. /\ m \in Elements(room_names \o Pieces[n])
        /\ m \notin Elements(room_names) => Once(m, room_names \o Pieces[n])
    BY <1>7, <1>8, <2>1, ConcatOnce
  <2>3. OwnKey(m) /\ (\A q \in Failed : room[q].name # m)
          => m \notin Elements(room_names)
    BY <1>5, <1>7, <1>9 DEF ListedAs
  <2>4. OwnKey(m) /\ (\A q \in Failed : room[q].name # m) => Once(m, room_names')
    BY <1>1, <2>2, <2>3
  <2>5. m \in Elements(room_names')
    BY <1>1, <2>2
  <2>6. \E q \in Standing' : room'[q].name = m
    BY <1>1, <1>2, <1>9
  <2>7. (\A q \in Failed' : room'[q].name # m) => \A q \in Failed : room[q].name # m
    BY <1>3, <1>4
  <2> QED BY <2>4, <2>5, <2>6, <2>7 DEF ListedAs, Elements, OwnKey
<1>10. CASE m # n
  <2>1. m \notin Elements(Pieces[n])
    BY <1>6, <1>10 DEF Whole
  <2>2. /\ m \in Elements(room_names \o Pieces[n]) <=> m \in Elements(room_names)
        /\ Once(m, room_names) => Once(m, room_names \o Pieces[n])
    BY <1>7, <1>8, <2>1, ConcatOnce
  <2>3. /\ m \in Elements(room_names') <=> m \in Elements(room_names)
        /\ Once(m, room_names) => Once(m, room_names')
    BY <1>1, <2>2
  <2>4. \A q \in Standing' \ Failed' : room'[q].name = m =>
          q \in Standing \ Failed /\ room[q].name = m
    BY <1>1, <1>2, <1>3, <1>4, <1>10
  <2>5. \A q \in Standing : room[q].name = m => q \in Standing' /\ room'[q].name = m
    BY <1>2, <1>3
  <2>6. (\A q \in Failed' : room'[q].name # m) => \A q \in Failed : room[q].name # m
    BY <1>3, <1>4
  <2> QED BY <1>7, <2>3, <2>4, <2>5, <2>6 DEF ListedAs, Elements, OwnKey
<1> QED BY <1>9, <1>10

\* A deletion takes the lines of the name that it is asked for, and no other
\* whole line.
LEMMA ListDelete ==
  ASSUME IInv, ListInv, NEW s \in Session, NEW n \in RoomName, DeleteMutex(s, n)
  PROVE  ListInv'
<1>0. p_room[s] \in Room
  BY DeleteMutexEffect
<1> PICK r \in Room : r = p_room[s]
  BY <1>0
<1> PICK own : own = room[r].name
  OBVIOUS
<1>1. /\ room[r].state = "torn" /\ own \in RoomName
      /\ KeyOf[n] = KeyOf[own] /\ rooms_table[KeyOf[own]] = NULL
      /\ pc[s] = "mutex" /\ rooms_mutex = s /\ pc'[s] = "idle" /\ StepOf(s)
      /\ rooms_dir' = rooms_dir
  BY DeleteMutexEffect
<1>2. \A t \in Session : pc[t] \in {"list", "mutex"} => t = s
  BY <1>1 DEF IInv, Locks, HoldsTable
<1>3. \A q \in Room, t \in Session : ~(pc'[t] = "mutex" /\ p_room'[t] = q)
  BY <1>1, <1>2 DEF StepOf
<1>4. r \in Standing /\ r \notin Failed
  BY <1>1 DEF Standing, Failed
<1>5. \A q \in Standing \ Failed : q # r => KeyOf[room[q].name] # KeyOf[own]
  <2> SUFFICES ASSUME NEW q \in Standing \ Failed, q # r
               PROVE  KeyOf[room[q].name] # KeyOf[own]
    OBVIOUS
  <2>1. room[q].state = "live" /\ q \in Room
    BY <1>2, <1>1 DEF Standing, Failed
  <2>2. ~(\E t \in Session : pc[t] = "list" /\ p_room[t] = q)
    BY <1>1, <1>2
  <2>3. rooms_table[KeyOf[room[q].name]] = q /\ q # NULL
    BY <2>1, <2>2, ConstantsOK DEF IInv, Structs
  <2> QED BY <1>1, <2>3
<1>6. SUFFICES ASSUME ~rooms_dir, NEW m \in RoomName, Whole(m)
               PROVE  ListedAs(m)'
  BY <1>1 DEF ListInv, Whole, Elements
<1>7. ListedAs(m) /\ room_names \in Seq(Piece)
  BY <1>6 DEF ListInv, IInv, TypeOK
<1>8. CASE ~RoomFree(r)
  <2>1. room' = room /\ room_names' = room_names
    BY <1>8, DeleteMutexEffect
  <2>2. Standing' = Standing
    BY <2>1 DEF Standing
  <2>3. Failed \subseteq Failed'
    BY <1>3, <2>1 DEF Failed
  <2>4. \A q \in Standing' \ Failed' : q \in Standing \ Failed
    BY <2>2, <2>3
  <2>5. (\A q \in Failed' : room'[q].name # m) => \A q \in Failed : room[q].name # m
    BY <2>1, <2>3
  <2> QED BY <1>7, <2>1, <2>2, <2>4, <2>5 DEF ListedAs, Elements, OwnKey, Once
<1>9. CASE RoomFree(r)
  <2>1. /\ room'[r].state = "freed"
        /\ \A q \in Room \ {r} : room'[q] = room[q]
        /\ room_names' = NamesWithout(n)
    BY <1>9, DeleteMutexEffect
  <2>2. Standing' = Standing \ {r}
    <3>1. \A q \in Room : q \in Standing' <=> q \in Standing \ {r}
      BY <2>1 DEF Standing
    <3> QED BY <3>1 DEF Standing
  <2>3. \A q \in Standing : q \in Room /\ (q # r => room'[q].name = room[q].name)
    BY <2>1 DEF Standing
  <2>4. \A q \in Failed : q \in Failed' /\ q \in Standing /\ q # r
    BY <1>3, <1>4, <2>1 DEF Failed, Standing
  <2>5. /\ Elements(NamesWithout(n)) = Elements(room_names) \ Extends[n]
        /\ Once(m, room_names) => Once(m, NamesWithout(n))
    BY <1>7, NamesWithoutSpec
  <2>6. m \in Extends[n] <=> m = n
    BY <1>6 DEF Whole
  <2>7. (\A q \in Failed' : room'[q].name # m) => \A q \in Failed : room[q].name # m
    BY <2>3, <2>4
  <2>8. OwnKey(m) /\ own = m => m = n
    BY <1>1 DEF OwnKey
  <2>9. CASE m = n
    <3>1. m \notin Elements(room_names')
      BY <2>1, <2>5, <2>6, <2>9
    <3>2. \A q \in Standing' \ Failed' : room'[q].name # m
      BY <1>1, <1>5, <2>2, <2>3, <2>4, <2>9
    <3>3. Once(m, room_names')
      BY <3>1 DEF Once, Elements
    <3> QED BY <3>1, <3>2, <3>3 DEF ListedAs, Elements, OwnKey
  <2>10. CASE m # n
    <3>1. /\ m \in Elements(room_names') <=> m \in Elements(room_names)
          /\ Once(m, room_names) => Once(m, room_names')
      BY <2>1, <2>5, <2>6, <2>10
    <3>2. \A q \in Standing' \ Failed' : room'[q].name = m =>
            q \in Standing \ Failed /\ room[q].name = m
      BY <2>2, <2>3, <2>4
    <3>3. OwnKey(m) => \A q \in Standing : room[q].name = m =>
                         q \in Standing' /\ room'[q].name = m
      BY <2>2, <2>3, <2>8, <2>10
    <3> QED BY <1>7, <2>7, <3>1, <3>2, <3>3 DEF ListedAs, Elements, OwnKey
  <2> QED BY <2>9, <2>10
<1> QED BY <1>8, <1>9

\* The list follows the rooms through every step.
LEMMA ListStep == IInv /\ ListInv /\ [Next]_vars => ListInv'
<1> SUFFICES ASSUME IInv, ListInv, [Next]_vars PROVE ListInv'
  OBVIOUS
<1>1. CASE Still
  <2>1. \A t \in Session, q \in Room : pc'[t] = "mutex" /\ p_room'[t] = q
                                         <=> pc[t] = "mutex" /\ p_room[t] = q
    BY <1>1 DEF Still
  <2> QED BY <1>1, <2>1, ListSame DEF Still
<1>2. CASE Die
  BY <1>2 DEF Die, ListInv
<1>3. CASE Shutdown
  <2>1. room_names' = << >> /\ \A q \in Room : room'[q].state = "unused"
    BY <1>3 DEF Shutdown, Unused
  <2>2. Standing' = {} /\ Elements(room_names') = {}
    BY <2>1 DEF Standing, Elements
  <2>3. \A n : Once(n, room_names')
    BY <2>1 DEF Once
  <2> QED BY <2>2, <2>3 DEF ListInv, ListedAs, Elements
<1>4. ASSUME NEW s \in Session, NEW n \in RoomName, Create(s, n) PROVE ListInv'
  BY <1>4, ListCreate
<1>5. ASSUME NEW s \in Session, NEW n \in RoomName, DeleteCheck(s, n)
      PROVE  ListInv'
  <2>1. /\ pc[s] = "idle" /\ pc'[s] = "list" /\ StepOf(s)
        /\ UNCHANGED <<room_names, room, process>>
    BY <1>5, DeleteCheckEffect
  <2>2. \A t \in Session, q \in Room : pc'[t] = "mutex" /\ p_room'[t] = q
                                         <=> pc[t] = "mutex" /\ p_room[t] = q
    BY <2>1 DEF StepOf
  <2> QED BY <2>1, <2>2, ListSame DEF process
<1>6. ASSUME NEW s \in Session,
             \/ \E n \in RoomName : JoinEnter(s, n)
             \/ ChatFile(s) \/ ChatSend(s) \/ LeaveRemove(s)
      PROVE  ListInv'
  <2>1. /\ SameRooms /\ StepOf(s) /\ pc[s] # "mutex" /\ pc'[s] # "mutex"
        /\ UNCHANGED <<room_names, process>>
    <3>1. CASE \E n \in RoomName : JoinEnter(s, n)  BY <3>1, JoinEnterEffect
    <3>2. CASE ChatFile(s)  BY <3>2, ChatFileEffect
    <3>3. CASE ChatSend(s)  BY <3>3, ChatSendEffect
    <3>4. CASE LeaveRemove(s)  BY <3>4, LeaveRemoveEffect
    <3> QED BY <1>6, <3>1, <3>2, <3>3, <3>4
  <2>2. \A t \in Session, q \in Room : pc'[t] = "mutex" /\ p_room'[t] = q
                                         <=> pc[t] = "mutex" /\ p_room[t] = q
    BY <2>1 DEF StepOf
  <2> QED BY <2>1, <2>2, ListSame DEF SameRooms, process
<1>7. ASSUME NEW s \in Session, DeleteList(s) PROVE ListInv'
  <2>0. p_room[s] \in Room
    BY <1>7, DeleteListEffect
  <2> PICK r \in Room : r = p_room[s]
    BY <2>0
  <2>1. /\ room[r].state = "live" /\ pc[s] = "list" /\ pc'[s] = "mutex"
        /\ StepOf(s) /\ room'[r].state = "torn" /\ room'[r].name = room[r].name
        /\ \A q \in Room \ {r} : room'[q] = room[q]
        /\ UNCHANGED <<room_names, process, p_room>>
    BY <1>7, DeleteListEffect
  <2>2. Failed' = Failed
    <3>1. r \notin Failed /\ r \notin Failed'
      BY <2>1 DEF Failed
    <3>2. ASSUME NEW q \in Room \ {r} PROVE q \in Failed' <=> q \in Failed
      <4>1. \A t \in Session : pc'[t] = "mutex" /\ p_room'[t] = q
                                 <=> pc[t] = "mutex" /\ p_room[t] = q
        BY <2>1 DEF StepOf
      <4> QED BY <2>1, <4>1 DEF Failed
    <3> QED BY <3>1, <3>2 DEF Failed
  <2>3. Standing' = Standing
    <3>1. \A q \in Room : q \in Standing' <=> q \in Standing
      BY <2>1 DEF Standing
    <3> QED BY <3>1 DEF Standing
  <2>4. \A q \in Standing : room'[q].name = room[q].name
    BY <2>1 DEF Standing
  <2>5. \A q \in Failed : q \in Standing
    BY DEF Failed, Standing
  <2>6. \A n \in RoomName : ListedAs(n) => ListedAs(n)'
    BY <2>1, <2>2, <2>3, <2>4, <2>5 DEF ListedAs, Elements, Once
  <2>7. \A n \in RoomName : Whole(n)' <=> Whole(n)
    BY DEF Whole, Elements
  <2> QED BY <2>1, <2>6, <2>7 DEF ListInv, process
<1>8. ASSUME NEW s \in Session, NEW n \in RoomName, DeleteMutex(s, n)
      PROVE  ListInv'
  BY <1>8, ListDelete
<1> QED BY <1>1, <1>2, <1>3, <1>4, <1>5, <1>6, <1>7, <1>8, Steps

\* The places of something that is in a sequence once at most.
LEMMA PlacesOnce ==
  ASSUME NEW seq, NEW x, Once(x, seq)
  PROVE  Cardinality({i \in DOMAIN seq : seq[i] = x}) <= 1
<1> DEFINE places == {i \in DOMAIN seq : seq[i] = x}
<1>1. CASE places = {}
  <2>1. Cardinality(places) = 0
    BY <1>1, FS_EmptySet
  <2> QED BY <2>1
<1>2. CASE places # {}
  <2>1. PICK i \in DOMAIN seq : seq[i] = x
    BY <1>2
  <2>2. places = {i}
    BY <2>1 DEF Once
  <2>3. Cardinality({i}) = 1
    BY FS_Singleton
  <2> QED BY <2>2, <2>3
<1> QED BY <1>1, <1>2

\* While nobody holds rooms_mutex, the list that a client is sent has the line
\* of every room of the table whose name is read whole; if the key of the name
\* is its own, it has it once, and only as long as the room is in the table or
\* after a deletion of it that failed half way.
THEOREM ListExact == Spec => []ListAgrees
<1>1. Init => ListInv
  <2> SUFFICES ASSUME Init PROVE ListInv
    OBVIOUS
  <2>1. room_names = << >> /\ \A q \in Room : room[q].state = "unused"
    BY DEF Init, Unused
  <2>2. Standing = {} /\ Elements(room_names) = {}
    BY <2>1 DEF Standing, Elements
  <2>3. \A n : Once(n, room_names)
    BY <2>1 DEF Once
  <2> QED BY <2>2, <2>3 DEF ListInv, ListedAs
<1>2. IInv /\ ListInv => ListAgrees
  <2> SUFFICES ASSUME IInv, ListInv, RoomsFree, server = "up",
                      NEW n \in RoomName, Whole(n)
               PROVE  LET places == {i \in DOMAIN room_names : room_names[i] = n}
                      IN  /\ n \in TableNames => places # {}
                          /\ OwnKey(n) =>
                               /\ places # {} => n \in TableNames \cup TornNames
                               /\ n \notin TornNames => Cardinality(places) <= 1
    BY DEF ListAgrees
  <2> DEFINE places == {i \in DOMAIN room_names : room_names[i] = n}
  <2>1. ListedAs(n)
    BY DEF ListInv, IInv, Clean
  <2>2. places # {} <=> n \in Elements(room_names)
    BY DEF Elements
  <2>3. n \in TableNames => \E r \in Standing \ Failed : room[r].name = n
    <3> SUFFICES ASSUME n \in TableNames
                 PROVE  \E r \in Standing \ Failed : room[r].name = n
      OBVIOUS
    <3>1. PICK k \in Key : rooms_table[k] # NULL /\ n = room[rooms_table[k]].name
      BY DEF TableNames, TableKeys
    <3>2. rooms_table[k] \in Room /\ Entry(k)
      BY <3>1 DEF IInv, TypeOK, Structs
    <3> QED BY <3>1, <3>2 DEF Entry, Standing, Failed
  <2>4. ASSUME NEW r \in Standing, room[r].name = n
        PROVE  n \in TableNames \cup TornNames
    <3>1. r \in Room /\ r # NULL
      BY ConstantsOK DEF Standing
    <3>2. CASE room[r].state = "torn"
      BY <2>4, <3>1, <3>2 DEF TornNames
    <3>3. CASE room[r].state = "live"
      <4>1. rooms_table[KeyOf[n]] = r
        BY <2>4, <3>1, <3>3, TableFree
      <4> QED BY <2>4, <3>1, <4>1 DEF TableNames, TableKeys
    <3> QED BY <3>2, <3>3 DEF Standing
  <2>5. n \notin TornNames => \A r \in Failed : room[r].name # n
    BY DEF TornNames, Failed
  <2>6. Once(n, room_names) => Cardinality(places) <= 1
    BY PlacesOnce
  <2> HIDE DEF places
  <2>7. /\ n \in TableNames => places # {}
        /\ OwnKey(n) => /\ places # {} => n \in TableNames \cup TornNames
                        /\ n \notin TornNames => Cardinality(places) <= 1
    BY <2>1, <2>2, <2>3, <2>4, <2>5, <2>6 DEF ListedAs
  <2> QED BY <2>7 DEF places
<1> QED BY <1>1, <1>2, ListStep, Invariance, PTL DEF Spec
=============================================================================
