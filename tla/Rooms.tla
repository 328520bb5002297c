------------------------------- MODULE Rooms -------------------------------
(***************************************************************************)
(* The chat rooms of the server: src/cr_rooms.c, src/cr_chats.c and the    *)
(* part of a session (src/cr_session_manager.c) that is logged in.         *)
(*                                                                         *)
(* A session here is a logged in one, with the account it owns (module     *)
(* Users).  rooms_mutex guards the table of rooms, the count and the list  *)
(* file; each room's room_mutex guards its members and its log.  One       *)
(* action is what a thread does between two points where another thread    *)
(* can see or change the same data.  Join holds both locks; chat and leave *)
(* give rooms_mutex back before they take room_mutex; delete looks at the  *)
(* members under rooms_mutex only.                                         *)
(***************************************************************************)
EXTENDS Integers, Sequences, FiniteSets

CONSTANTS
  Session,
  Admins,       \* the sessions whose account is an administrator's
  RoomName,
  Key,          \* what the hash table tells apart: KEY_LENGTH characters
  KeyOf,        \* the key of a name
  Piece,        \* what one fgets may read of the list of names
  Pieces,       \* Pieces[n]: what the line of n is read as
  Extends,      \* Extends[n]: the pieces that start with n
  Room,         \* room structs; a bound on the creations of one process
  MaxRooms,     \* max_rooms of config.txt
  MaxLog,       \* MAX_CHAT_FILE_SIZE, in chats
  MaxChats,     \* bound of the model on the chats of one room
  SendMayFail,  \* whether an SSL_write may fail on an SSL that is not freed
  ReadMayFail,  \* whether an SSL_read may fail, which frees the SSL
  NULL

ASSUME ConstantsOK ==
  /\ IsFiniteSet(Session) /\ Admins \subseteq Session
  /\ IsFiniteSet(Key) /\ KeyOf \in [RoomName -> Key]
  /\ Pieces \in [RoomName -> Seq(Piece)]
  /\ Extends \in [RoomName -> SUBSET Piece]
  /\ MaxRooms \in 1..20     \* checked by set_config_members (src/cr_main.c)
  /\ MaxLog \in Nat \ {0} /\ MaxChats \in Nat
  /\ SendMayFail \in BOOLEAN /\ ReadMayFail \in BOOLEAN
  /\ NULL \notin Session \cup RoomName \cup Room

Chat == [from : Session, n : 1..MaxChats]

ASSUME NullIsNothing == NULL \notin Seq(Chat)

PC == {"out",     \* not logged in
       "idle",    \* at the head of the loop, or in SSL_read
       "join",    \* holds rooms_mutex, wants room_mutex
       "chat",    \* room looked up, rooms_mutex given back, wants room_mutex
       "said",    \* holds room_mutex, its chat is in the log
       "leave",   \* as "chat", in cr_chats_leave
       "left",    \* holds room_mutex, no longer a member
       "lost",    \* the same, but was not found among the members
       "left told", "lost told",  \* and has told the others
       "list",    \* holds rooms_mutex, room out of the table, members next
       "mutex"}   \* holds rooms_mutex, members destroyed, room_mutex next

VARIABLES
  rooms_table,   \* key -> room struct or NULL
  room_count,
  room_names,    \* ROOM_NAME_LIST, in the pieces that fgets reads
  rooms_mutex,   \* who holds it, or NULL
  room,          \* the room structs: state, name, p_users, room_mutex, and
                 \* (not in the code) who said each of its chats
  logs,          \* the log file of each room name, NULL if there is none
  rooms_dir,     \* whether rooms/ exists while the server is down
  server,        \* "up" or "down"
  server_interrupt,
  pc, closing,   \* closing: out of the loop of the session manager
  chatting, p_chat_room,
  p_room,        \* the room struct a handler has looked up
  p_ssl,         \* "open" or "freed"
  inbox          \* the chats the client was sent since it joined its room

shared  == <<rooms_table, room_count, room_names, rooms_mutex, room, logs>>
process == <<rooms_dir, server, server_interrupt>>
client  == <<chatting, p_chat_room, p_ssl, inbox>>
control == <<pc, closing, p_room>>
vars    == <<shared, process, control, client>>

Unused == [state |-> "unused", name |-> NULL, p_users |-> << >>,
           room_mutex |-> NULL, chats |-> << >>]
Elements(seq) == {seq[i] : i \in DOMAIN seq}

\* h_table_return_entry: the room under the key of a name, or NULL.
Lookup(n) == rooms_table[KeyOf[n]]

\* A handler keeps the name it was asked for while it holds a room.  Nothing
\* reads that name before the last step of the handler, so it is chosen there,
\* among the names that lead to the room.
AskedFor(n, r) == KeyOf[n] = KeyOf[room[r].name]

\* Names the server still counts: those of the table, and those of rooms whose
\* deletion failed half way.
TableKeys  == {k \in Key : rooms_table[k] # NULL}
TableNames == {room[rooms_table[k]].name : k \in TableKeys}
TornNames  == {room[r].name : r \in {q \in Room : room[q].state = "torn"}}

\* cr_chats_find_user: the first place of s among the members, 0 if it has none.
Position(seq, s) ==
  CHOOSE i \in 0..Len(seq) :
    IF i = 0 THEN s \notin Elements(seq)
    ELSE seq[i] = s /\ \A j \in 1..(i - 1) : seq[j] # s
---------------------------------------------------------------------------
(* Control of a session *)

Goto(s, where) == pc' = [pc EXCEPT ![s] = where]

\* A handler has looked up room r, and goes on with it.
Hold(s, r, where) ==
  /\ p_room' = [p_room EXCEPT ![s] = r]
  /\ Goto(s, where)
  /\ UNCHANGED closing

\* A handler returns.  The loop ends if the server stops or if the result was
\* not SUCCESS.
Return(s, success) ==
  /\ p_room' = [p_room EXCEPT ![s] = NULL]
  /\ Goto(s, "idle")
  /\ closing' = [closing EXCEPT
       ![s] = closing[s] \/ ~success \/ server_interrupt = "STOP"]

\* The result of the handler is that of its packet to the client.
Reply(s) == Return(s, TRUE) \/ (SendMayFail /\ Return(s, FALSE))

\* The result of the handler is FAILURE, which stops the server.
Fail(s) == Return(s, FALSE) /\ server_interrupt' = "STOP"

Listening(s) == pc[s] = "idle" /\ ~closing[s]
InLobby(s)   == Listening(s) /\ ~chatting[s]
RoomsFree    == rooms_mutex = NULL
RoomFree(r)  == room[r].room_mutex = NULL

Login(s) ==
  /\ server = "up" /\ server_interrupt = "CONTINUE"
  /\ pc[s] = "out"
  /\ Goto(s, "idle")
  /\ UNCHANGED <<shared, process, closing, p_room, client>>
---------------------------------------------------------------------------
(* cr_chats_chat_send *)

\* Faulty: the loop ends one member early.
ListedButLast(r) == SubSeq(room[r].p_users, 1, Len(room[r].p_users) - 1)

\* The members the loop goes through, in order.
Listed(r) == room[r].p_users

\* All of them but s are written to, up to the first failure: it is exactly
\* the first n that s can have dealt with.
Reaches(r, s, n) ==
  /\ \A i \in 1..n : Listed(r)[i] # s => p_ssl[Listed(r)[i]] = "open"
  /\ n < Len(Listed(r)) => /\ Listed(r)[n + 1] # s
                           /\ SendMayFail \/ p_ssl[Listed(r)[n + 1]] = "freed"

\* The process dies; the operating system releases all but the files.
Die ==
  /\ server' = "down" /\ server_interrupt' = "STOP"
  /\ rooms_dir' = TRUE
  /\ rooms_table' = [k \in Key |-> NULL]
  /\ room_count' = 0
  /\ rooms_mutex' = NULL
  /\ room' = [r \in Room |-> Unused]
  /\ pc' = [s \in Session |-> "out"]
  /\ closing' = [s \in Session |-> FALSE]
  /\ p_room' = [s \in Session |-> NULL]
  /\ chatting' = [s \in Session |-> FALSE]
  /\ p_chat_room' = [s \in Session |-> NULL]
  /\ p_ssl' = [s \in Session |-> "open"]
  /\ inbox' = [s \in Session |-> << >>]
  /\ UNCHANGED <<room_names, logs>>

\* A session whose SSL_read failed has freed its SSL and is a member until it
\* gets the locks to leave.  Writing to it fails (Reaches), or follows NULL.
SendCrashes(s) ==
  LET r == p_room[s]
  IN  /\ (pc[s] = "join" /\ RoomFree(r)) \/ pc[s] \in {"said", "left", "lost"}
      /\ \E t \in Elements(Listed(r)) \ {s} : p_ssl[t] = "freed"
      /\ Die
---------------------------------------------------------------------------
(* List, create, join *)

\* Faulty: an early return that keeps rooms_mutex.
ListKeepsLock(s) ==
  /\ InLobby(s) /\ RoomsFree
  /\ rooms_mutex' = s
  /\ Reply(s)
  /\ UNCHANGED <<rooms_table, room_count, room_names, room, logs, process,
                 client>>

\* No rooms is a reject, else an acknowledgement and the file follow.  If the
\* write of the file is what fails, the handler returns FAILURE.
List(s) ==
  /\ InLobby(s) /\ RoomsFree
  /\ \/ Reply(s) /\ UNCHANGED server_interrupt
     \/ SendMayFail /\ room_count # 0 /\ Fail(s)
  /\ UNCHANGED <<shared, rooms_dir, server, client>>

\* Faulty: one room too many; a name that is taken.
CanCreateOneMore(n) == room_count <= MaxRooms /\ Lookup(n) = NULL
CanCreateAgain(n) == room_count < MaxRooms

CanCreate(n) == room_count < MaxRooms /\ Lookup(n) = NULL

CreateReject(s, n) ==
  /\ InLobby(s)
  /\ s \in Admins => RoomsFree /\ ~CanCreate(n)
  /\ Reply(s)
  /\ UNCHANGED <<shared, process, client>>

Create(s, n) ==
  /\ InLobby(s) /\ s \in Admins
  /\ RoomsFree /\ CanCreate(n)
  /\ \E r \in Room :
       /\ room[r] = Unused
       /\ room' = [room EXCEPT ![r].state = "live", ![r].name = n]
       /\ rooms_table' = [rooms_table EXCEPT ![KeyOf[n]] = r]
  /\ logs' = [logs EXCEPT ![n] = << >>]
  /\ room_names' = room_names \o Pieces[n]
  /\ room_count' = room_count + 1
  /\ Reply(s)
  /\ UNCHANGED <<rooms_mutex, process, client>>

JoinReject(s, n) ==
  /\ InLobby(s) /\ RoomsFree
  /\ Lookup(n) = NULL
  /\ Reply(s)
  /\ UNCHANGED <<shared, process, client>>

\* Faulty: rooms_mutex is given back before room_mutex is taken.
JoinLookupUnlocked(s, n) ==
  /\ InLobby(s) /\ RoomsFree
  /\ Lookup(n) # NULL
  /\ Hold(s, Lookup(n), "join")
  /\ UNCHANGED <<shared, process, client>>

JoinLookup(s, n) ==
  /\ InLobby(s) /\ RoomsFree
  /\ Lookup(n) # NULL
  /\ rooms_mutex' = s
  /\ Hold(s, Lookup(n), "join")
  /\ UNCHANGED <<rooms_table, room_count, room_names, room, logs, process,
                 client>>

\* The member is entered, sent the log, and announced to the others.  The
\* results of both sends are dropped.  p_chat_room is the name asked for.
EnterRoom(s, n) ==
  LET r == p_room[s]
  IN
  /\ AskedFor(n, r)
  /\ room' = [room EXCEPT ![r].p_users = Append(@, s)]
  /\ p_chat_room' = [p_chat_room EXCEPT ![s] = n]
  /\ inbox' \in {[inbox EXCEPT ![s] = log] :
                   log \in {logs[room[r].name]} \cup (IF SendMayFail THEN {<< >>} ELSE {})}
  /\ chatting' = [chatting EXCEPT ![s] = TRUE]
  /\ rooms_mutex' = NULL
  /\ Return(s, TRUE)
  /\ UNCHANGED <<rooms_table, room_count, room_names, logs, process, p_ssl>>

\* Faulty: room_mutex is not taken.
JoinEnterUnlocked(s, n) == pc[s] = "join" /\ EnterRoom(s, n)

JoinEnter(s, n) == pc[s] = "join" /\ RoomFree(p_room[s]) /\ EnterRoom(s, n)
---------------------------------------------------------------------------
(* Chat *)

\* The room is looked up and rooms_mutex given back.
ChatLookup(s) ==
  /\ Listening(s) /\ chatting[s] /\ RoomsFree
  /\ LET r == Lookup(p_chat_room[s])
         ahead == Cardinality({t \in Session : pc[t] = "chat" /\ p_room[t] = r})
     IN  IF r = NULL
         THEN Fail(s)
         ELSE /\ Len(room[r].chats) + ahead < MaxChats
              /\ Hold(s, r, "chat")
              /\ UNCHANGED server_interrupt
  /\ UNCHANGED <<shared, rooms_dir, server, client>>

\* Faulty: the older half stays.
RotatedOlder(log) == SubSeq(log, 1, MaxLog \div 2)

\* cr_chats_rotate_file: the lines that begin after half of the size stay.
Rotated(log) == SubSeq(log, MaxLog \div 2 + 2, Len(log))

\* cr_chats_chat_file.
WithChat(log, chat) ==
  LET longer == Append(log, chat)
  IN  IF Len(longer) > MaxLog THEN Rotated(longer) ELSE longer

\* Under room_mutex: the line of the log, ...
ChatFile(s) ==
  LET r == p_room[s]
      chat == [from |-> s, n |-> Len(room[r].chats) + 1]
  IN
  /\ pc[s] = "chat" /\ RoomFree(r)
  /\ room' = [room EXCEPT ![r].room_mutex = s, ![r].chats = Append(@, s)]
  /\ logs' = [logs EXCEPT ![room[r].name] = WithChat(@, chat)]
  /\ Goto(s, "said")
  /\ UNCHANGED <<rooms_table, room_count, room_names, rooms_mutex, process,
                 closing, p_room, client>>

\* ... then the update to the others, whose result is that of the handler.
ChatSend(s) ==
  LET r == p_room[s]
      chat == [from |-> s, n |-> Len(room[r].chats)]
  IN
  /\ pc[s] = "said"
  /\ \E reached \in 0..Len(Listed(r)) :
       LET heard == {Listed(r)[i] : i \in 1..reached} \ {s}
       IN  /\ Reaches(r, s, reached)
           /\ inbox' = [t \in Session |-> IF t \in heard
                                          THEN Append(inbox[t], chat)
                                          ELSE inbox[t]]
           /\ Return(s, reached = Len(Listed(r)))
  /\ room' = [room EXCEPT ![r].room_mutex = NULL]
  /\ UNCHANGED <<rooms_table, room_count, room_names, rooms_mutex, logs, process,
                 chatting, p_chat_room, p_ssl>>
---------------------------------------------------------------------------
(* Leave *)

\* cr_chats_leave fails.  A session that was ending ends without having left.
LeaveFails(s) ==
  Fail(s) /\ chatting' = [chatting EXCEPT ![s] = ~closing[s]]

\* A leave, a quit, or the end of the session (cr_sm_session_clean).
LeaveLookup(s) ==
  /\ pc[s] = "idle" /\ chatting[s] /\ RoomsFree
  /\ LET r == Lookup(p_chat_room[s])
     IN  IF r = NULL
         THEN LeaveFails(s)
         ELSE Hold(s, r, "leave") /\ UNCHANGED <<server_interrupt, chatting>>
  /\ UNCHANGED <<shared, rooms_dir, server, p_chat_room, p_ssl, inbox>>

\* Faulty: the first member goes.
MembersButFirst(r, s) == Tail(room[r].p_users)

\* cr_chats_leave_helper: the place that is found is removed.
MembersWithout(r, s) ==
  LET members == room[r].p_users
      found == Position(members, s)
  IN  IF found = 0 THEN members
      ELSE [i \in 1..(Len(members) - 1) |->
              IF i < found THEN members[i] ELSE members[i + 1]]

LeaveRemove(s) ==
  LET r == p_room[s]
  IN
  /\ pc[s] = "leave" /\ RoomFree(r)
  /\ room' = [room EXCEPT ![r].room_mutex = s, ![r].p_users = MembersWithout(r, s)]
  /\ Goto(s, IF s \in Elements(room[r].p_users) THEN "left" ELSE "lost")
  /\ inbox' = [inbox EXCEPT ![s] = << >>]
  /\ UNCHANGED <<rooms_table, room_count, room_names, rooms_mutex, logs,
                 process, closing, chatting, p_chat_room, p_room, p_ssl>>

\* The others are told: cr_chats_chat_send reads p_users.
LeaveSend(s) ==
  /\ pc[s] \in {"left", "lost"} /\ room[p_room[s]].state = "live"
  /\ Goto(s, IF pc[s] = "left" THEN "left told" ELSE "lost told")
  /\ UNCHANGED <<shared, process, closing, p_room, client>>

\* cr_rooms_delete has destroyed p_users meanwhile: NULL is followed.
LeaveCrashes(s) ==
  pc[s] \in {"left", "lost"} /\ room[p_room[s]].state = "torn" /\ Die

\* room_mutex is given back and the client is told.
LeaveDone(s) ==
  /\ pc[s] \in {"left told", "lost told"}
  /\ room' = [room EXCEPT ![p_room[s]].room_mutex = NULL]
  /\ IF pc[s] = "left told"
     THEN /\ p_chat_room' = [p_chat_room EXCEPT ![s] = NULL]
          /\ chatting' = [chatting EXCEPT ![s] = FALSE]
          /\ Reply(s)
          /\ UNCHANGED server_interrupt
     ELSE LeaveFails(s) /\ UNCHANGED p_chat_room
  /\ UNCHANGED <<rooms_table, room_count, room_names, rooms_mutex, logs,
                 rooms_dir, server, p_ssl, inbox>>
---------------------------------------------------------------------------
(* Delete *)

\* Faulty: a room that has members may go.
CanDeleteInUse(n) == Lookup(n) # NULL

CanDelete(n) == Lookup(n) # NULL /\ room[Lookup(n)].p_users = << >>

DeleteReject(s, n) ==
  /\ InLobby(s)
  /\ s \in Admins => RoomsFree /\ ~CanDelete(n)
  /\ Reply(s)
  /\ UNCHANGED <<shared, process, client>>

\* The room leaves the table.  Its mutex is not asked for.
DeleteCheck(s, n) ==
  /\ InLobby(s) /\ s \in Admins
  /\ RoomsFree /\ CanDelete(n)
  /\ rooms_table' = [rooms_table EXCEPT ![KeyOf[n]] = NULL]
  /\ rooms_mutex' = s
  /\ Hold(s, Lookup(n), "list")
  /\ UNCHANGED <<room_count, room_names, room, logs, process, client>>

\* cr_users_free_room: cll_destroy.
DeleteList(s) ==
  /\ pc[s] = "list"
  /\ room' = [room EXCEPT ![p_room[s]].state = "torn"]
  /\ Goto(s, "mutex")
  /\ UNCHANGED <<rooms_table, room_count, room_names, rooms_mutex, logs,
                 process, closing, p_room, client>>

\* Faulty: the list keeps the name.
NamesUnchanged(n) == room_names

\* cr_rooms_delete_h_file: the pieces that start with the name go.  fgets
\* reads 29 characters at most: of a name of 29 the newline stays, and a name of
\* 30 is begun by no piece.
NamesWithout(n) ==
  LET kept[i \in 0..Len(room_names)] ==
        IF i = 0 THEN << >>
        ELSE IF room_names[i] \in Extends[n] THEN kept[i - 1]
        ELSE Append(kept[i - 1], room_names[i])
  IN  kept[Len(room_names)]

\* pthread_mutex_destroy of a locked mutex fails, and what is left to do is
\* not done.  Otherwise: the log of the room and its struct, the line of the
\* name asked for, the count.
DeleteMutex(s, n) ==
  LET r == p_room[s]
  IN
  /\ pc[s] = "mutex" /\ AskedFor(n, r)
  /\ IF RoomFree(r)
     THEN /\ logs' = [logs EXCEPT ![room[r].name] = NULL]
          /\ room' = [room EXCEPT ![r].state = "freed"]
          /\ room_names' = NamesWithout(n)
          /\ room_count' = room_count - 1
          /\ Reply(s)
          /\ UNCHANGED server_interrupt
     ELSE Fail(s) /\ UNCHANGED <<logs, room, room_names, room_count>>
  /\ rooms_mutex' = NULL
  /\ UNCHANGED <<rooms_table, rooms_dir, server, client>>
---------------------------------------------------------------------------
(* The end of a session *)

\* A quit, or a packet whose answer cannot be sent: the loop ends.  When
\* SSL_read fails, it ends with the SSL freed.
LoopEnds(s) ==
  /\ Listening(s)
  /\ closing' = [closing EXCEPT ![s] = TRUE]
  /\ \/ UNCHANGED p_ssl
     \/ ReadMayFail /\ p_ssl' = [p_ssl EXCEPT ![s] = "freed"]
  /\ UNCHANGED <<shared, process, pc, p_room, chatting, p_chat_room, inbox>>

\* SSL_read times out after 3 seconds, and the server stops.
LoopStops(s) ==
  /\ Listening(s) /\ server_interrupt = "STOP"
  /\ closing' = [closing EXCEPT ![s] = TRUE]
  /\ UNCHANGED <<shared, process, pc, p_room, client>>

\* Faulty: a session whose SSL is gone ends without leaving its room.
SessionOverStaying(s) ==
  /\ pc[s] = "idle" /\ closing[s]
  /\ chatting[s] => p_ssl[s] = "freed"
  /\ Goto(s, "out")
  /\ closing' = [closing EXCEPT ![s] = FALSE]
  /\ chatting' = [chatting EXCEPT ![s] = FALSE]
  /\ p_chat_room' = [p_chat_room EXCEPT ![s] = NULL]
  /\ p_ssl' = [p_ssl EXCEPT ![s] = "open"]
  /\ UNCHANGED <<shared, process, p_room, inbox>>

\* cr_sm_session_clean, after any leave.
SessionOver(s) ==
  /\ pc[s] = "idle" /\ closing[s] /\ ~chatting[s]
  /\ Goto(s, "out")
  /\ closing' = [closing EXCEPT ![s] = FALSE]
  /\ p_chat_room' = [p_chat_room EXCEPT ![s] = NULL]
  /\ p_ssl' = [p_ssl EXCEPT ![s] = "open"]
  /\ UNCHANGED <<shared, process, p_room, chatting, inbox>>
---------------------------------------------------------------------------
(* The server process *)

Interrupt ==
  /\ server = "up"
  /\ server_interrupt' = "STOP"
  /\ UNCHANGED <<shared, rooms_dir, server, control, client>>

\* cr_listener_clean: the rooms of the table with their logs, the list, and
\* rooms/, which rmdir removes only when nothing is left in it.
Shutdown ==
  /\ server = "up" /\ server_interrupt = "STOP"
  /\ \A s \in Session : pc[s] = "out"
  /\ server' = "down"
  /\ logs' = [n \in RoomName |-> IF n \in TableNames THEN NULL ELSE logs[n]]
  /\ rooms_dir' = (\E n \in RoomName : logs'[n] # NULL)
  /\ rooms_table' = [k \in Key |-> NULL]
  /\ room' = [r \in Room |-> Unused]
  /\ room_count' = 0 /\ room_names' = << >>
  /\ UNCHANGED <<rooms_mutex, server_interrupt, control, client>>

\* cr_rooms_start: mkdir fails if rooms/ is there, and then so does the start.
StartUp ==
  /\ server = "down" /\ ~rooms_dir
  /\ server' = "up" /\ server_interrupt' = "CONTINUE"
  /\ UNCHANGED <<shared, rooms_dir, control, client>>
---------------------------------------------------------------------------
Init ==
  /\ rooms_table = [k \in Key |-> NULL]
  /\ room_count = 0 /\ room_names = << >>
  /\ rooms_mutex = NULL
  /\ room = [r \in Room |-> Unused]
  /\ logs = [n \in RoomName |-> NULL]
  /\ rooms_dir = FALSE
  /\ server = "up" /\ server_interrupt = "CONTINUE"
  /\ pc = [s \in Session |-> "out"] /\ closing = [s \in Session |-> FALSE]
  /\ p_room = [s \in Session |-> NULL]
  /\ chatting = [s \in Session |-> FALSE]
  /\ p_chat_room = [s \in Session |-> NULL]
  /\ p_ssl = [s \in Session |-> "open"]
  /\ inbox = [s \in Session |-> << >>]

\* What a client or the network starts.
Receive(s) ==
  \/ Login(s) \/ List(s) \/ ChatLookup(s) \/ LoopEnds(s)
  \/ \E n \in RoomName :
       \/ CreateReject(s, n) \/ Create(s, n)
       \/ JoinReject(s, n) \/ JoinLookup(s, n)
       \/ DeleteReject(s, n) \/ DeleteCheck(s, n)
  \/ ~closing[s] /\ LeaveLookup(s)

\* What the thread goes on to do by itself.
Proceed(s) ==
  \/ ChatFile(s) \/ ChatSend(s) \/ SendCrashes(s)
  \/ LeaveRemove(s) \/ LeaveSend(s) \/ LeaveCrashes(s) \/ LeaveDone(s)
  \/ DeleteList(s)
  \/ \E n \in RoomName : JoinEnter(s, n) \/ DeleteMutex(s, n)
  \/ LoopStops(s) \/ SessionOver(s)
  \/ closing[s] /\ LeaveLookup(s)

Next ==
  \/ \E s \in Session : Receive(s) \/ Proceed(s)
  \/ Interrupt \/ Shutdown \/ StartUp

\* A thread that can go on does, and gets a mutex that stays free.
Fairness == \A s \in Session : WF_vars(Proceed(s))

Spec == Init /\ [][Next]_vars
FairSpec == Spec /\ Fairness
---------------------------------------------------------------------------
(* Properties *)

Live(r) == room[r].state = "live" /\ Lookup(room[r].name) = r

\* From the end of join to the removal of the member in leave.
Chats(s) ==
  chatting[s] /\ pc[s] \notin {"left", "lost", "left told", "lost told"}
InRoom(s, r) == Chats(s) /\ Live(r) /\ AskedFor(p_chat_room[s], r)

\* All chats of a room; parts of a sequence.
Conversation(r) ==
  [i \in DOMAIN room[r].chats |-> [from |-> room[r].chats[i], n |-> i]]
Front(seq) == SubSeq(seq, 1, Len(seq) - 1)
LastOf(seq, n) == SubSeq(seq, Len(seq) - n + 1, Len(seq))

RoomStruct ==
  [state : {"unused", "live", "torn", "freed"}, name : RoomName \cup {NULL},
   p_users : Seq(Session), room_mutex : Session \cup {NULL},
   chats : Seq(Session)]

\* Types of the variables; the number of rooms stays within max_rooms.
TypeOK ==
  /\ rooms_table \in [Key -> Room \cup {NULL}]
  /\ room_count \in 0..MaxRooms
  /\ room_names \in Seq(Piece)
  /\ rooms_mutex \in Session \cup {NULL}
  /\ room \in [Room -> RoomStruct]
  /\ logs \in [RoomName -> Seq(Chat) \cup {NULL}]
  /\ rooms_dir \in BOOLEAN
  /\ server \in {"up", "down"} /\ server_interrupt \in {"CONTINUE", "STOP"}
  /\ pc \in [Session -> PC] /\ closing \in [Session -> BOOLEAN]
  /\ p_room \in [Session -> Room \cup {NULL}]
  /\ chatting \in [Session -> BOOLEAN]
  /\ p_chat_room \in [Session -> RoomName \cup {NULL}]
  /\ p_ssl \in [Session -> {"open", "freed"}]
  /\ inbox \in [Session -> Seq(Chat)]

\* A session that believes it is chatting is a member, once, of the room its
\* p_chat_room leads to, that room is in the table, and nobody else is a member
\* of anything: in particular no session that has ended is left behind in a
\* list of members, where its freed SSL would be written to.
Membership ==
  /\ \A s \in Session, r \in Room :
       LET places == {i \in DOMAIN room[r].p_users : room[r].p_users[i] = s}
       IN  Cardinality(places) = IF InRoom(s, r) THEN 1 ELSE 0
  /\ \A s \in Session : Chats(s) => \E r \in Room : InRoom(s, r)

\* The room that join, chat and leave have looked up is still the one in the
\* table when they lock it, although chat and leave hold no lock in between.
PointersLive ==
  \A s \in Session : pc[s] \in {"join", "chat", "said", "leave"} =>
    p_room[s] \in Room /\ Live(p_room[s])

\* While nobody holds rooms_mutex, room_count, which create compares with
\* max_rooms, is the number of rooms in the table and of those torn down half.
RoomCountExact ==
  RoomsFree => room_count = Cardinality(TableKeys)
                            + Cardinality({r \in Room : room[r].state = "torn"})

\* A name whose line fgets reads in one piece (28 characters at most), and of
\* whose line no other name makes a part or a beginning; a name that shares its
\* key with no other.
Whole(n) ==
  /\ Pieces[n] = <<n>>
  /\ \A m \in RoomName : n \in Extends[m] <=> m = n
  /\ \A m \in RoomName \ {n} : n \notin Elements(Pieces[m])
OwnKey(n) == \A m \in RoomName \ {n} : KeyOf[m] # KeyOf[n]

\* While nobody holds rooms_mutex, the list that clients are sent has every
\* room of the table.  Unless the name shares its key, it has the room once, and
\* when the room is gone its name is gone: only a deletion that failed half way
\* may leave it.  (With a shared key it stays when the room is deleted under the
\* other name, and names that are not Whole leave rests.)
ListAgrees ==
  RoomsFree /\ server = "up" =>
    \A n \in RoomName : Whole(n) =>
      LET places == {i \in DOMAIN room_names : room_names[i] = n}
      IN  /\ n \in TableNames => places # {}
          /\ OwnKey(n) =>
               /\ places # {} => n \in TableNames \cup TornNames
               /\ n \notin TornNames => Cardinality(places) <= 1

\* The log of a live room is the end of its conversation, without gaps,
\* through every rotation.
LogIsRecent ==
  \A r \in Room : Live(r) =>
    LET log == logs[room[r].name]
    IN  /\ log = LastOf(Conversation(r), Len(log))
        /\ room[r].chats # << >> => log # << >>

\* What a member was sent it was sent once and in the order of the room.
InOrder ==
  \A s \in Session : \A i, j \in DOMAIN inbox[s] :
    i < j => inbox[s][i].n < inbox[s][j].n

\* As long as no connection fails, a member has what the log has but its own
\* chats, while nobody holds room_mutex: nothing falls between the log sent by
\* join and the updates.
NothingMissed ==
  \A s \in Session, r \in Room :
    s \in Elements(room[r].p_users) /\ RoomFree(r) =>
    \A i \in DOMAIN logs[room[r].name] :
      LET chat == logs[room[r].name][i]
      IN  chat.from # s => chat \in Elements(inbox[s])

\* After SIGINT or a FAILURE every session ends, whatever it holds or waits
\* for, and so the main thread can join the workers (cr_listener_clean).
ShutdownCompletes ==
  server_interrupt = "STOP" ~> \A s \in Session : pc[s] = "out"

\* The rooms are those that module ChatRoom specifies, one under each key.  A
\* chat takes place when its broadcast ends: until then it is in the log, and
\* nobody can join.
AtomicRoom(k) ==
  LET r == rooms_table[k]
      s == room[r].room_mutex
  IN  IF r = NULL THEN NULL
      ELSE IF s # NULL /\ pc[s] = "said" THEN Front(Conversation(r))
      ELSE Conversation(r)

AtomicMembers(k) ==
  IF rooms_table[k] = NULL THEN {} ELSE Elements(room[rooms_table[k]].p_users)

Abstract == INSTANCE ChatRoom WITH
  RoomName     <- Key,
  Lossy        <- SendMayFail \/ ReadMayFail,
  conversation <- [k \in Key |-> AtomicRoom(k)],
  members      <- [k \in Key |-> AtomicMembers(k)],
  told         <- inbox

\* Joins, chats, leaves, creations and deletions look as if each happened at
\* once, however their critical sections interleave: nobody joins two rooms,
\* a room with members is not deleted, a chat reaches exactly those who are
\* members when it is sent, and a newcomer misses none after the log.
ImplementsChatRoom == Abstract!Spec
---------------------------------------------------------------------------
(* What the repository says and the program does not do *)

\* cr_rooms_clean: "Cleans rooms list file and removes room directories on
\* server shutdown".
ShutdownCleansUp == [][Shutdown => ~rooms_dir']_vars
=============================================================================
