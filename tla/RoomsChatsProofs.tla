------------------------- MODULE RoomsChatsProofs -------------------------
(***************************************************************************)
(* Theorems about the chats of module Rooms: the log of a room is the end  *)
(* of its conversation; what a member was sent is in order; as long as no  *)
(* connection fails, nothing is missing.  Each rests on the invariant of   *)
(* module RoomsProofs and one of its own.  At the end, that the rooms with *)
(* their locks, table, structs and log files implement the atomic rooms of *)
(* module ChatRoom.                                                        *)
(***************************************************************************)
EXTENDS RoomsProofs
---------------------------------------------------------------------------
(* The invariants *)

\* The chats of the log are the last of the conversation.
EndsAs(log, chats) ==
  /\ Len(log) <= Len(chats)
  /\ chats # << >> => log # << >>
  /\ \A i \in 1..Len(log) :
       LET k == Len(chats) - Len(log) + i
       IN  log[i] = [from |-> chats[k], n |-> k]

LogInv ==
  \A k \in Key : rooms_table[k] # NULL =>
    EndsAs(logs[room[rooms_table[k]].name], room[rooms_table[k]].chats)

\* Somebody has written a chat of his to the log and is still to send it; the
\* number of chats that were sent.
Said(r) == \E s \in Session : pc[s] = "said" /\ p_room[s] = r
Sent(r) == IF Said(r) THEN Len(room[r].chats) - 1 ELSE Len(room[r].chats)

Ordered(seq) == \A i, j \in DOMAIN seq : i < j => seq[i].n < seq[j].n
UpTo(seq, k) == \A i \in DOMAIN seq : seq[i].n <= k

\* What a session was sent is in order, and nothing in it is newer than what
\* has been sent in its room.
InboxOK(s) ==
  /\ Ordered(inbox[s])
  /\ ~Chats(s) => inbox[s] = << >>
  /\ Chats(s) => UpTo(inbox[s], Sent(rooms_table[KeyOf[p_chat_room[s]]]))

InboxInv == \A s \in Session : InboxOK(s)

\* Only a read that fails frees the SSL of a session.
NoneFreed == ~ReadMayFail => \A s \in Session : p_ssl[s] = "open"

\* A member has what the log has but its own chats and what is not sent yet.
HasHeard(s) ==
  LET r == rooms_table[KeyOf[p_chat_room[s]]]
      log == logs[room[r].name]
  IN  \A i \in DOMAIN log :
        log[i].from # s /\ log[i].n <= Sent(r) => log[i] \in Elements(inbox[s])

MissedInv ==
  ~SendMayFail /\ ~ReadMayFail =>
    \A s \in Session : Chats(s) => HasHeard(s)
---------------------------------------------------------------------------
(* The logs *)

\* A chat that is added to a log: the result is an end of the longer log, and
\* the chat is in it, whatever the rotation takes away (cr_chats_chat_file,
\* cr_chats_rotate_file).
LEMMA WithChatEnd ==
  ASSUME NEW log \in Seq(Chat), NEW chat \in Chat
  PROVE  LET new == WithChat(log, chat)
             shift == Len(log) + 1 - Len(new)
         IN  /\ new \in Seq(Chat) /\ Len(new) \in 1..(Len(log) + 1)
             /\ new[Len(new)] = chat
             /\ \A i \in 1..(Len(new) - 1) : /\ new[i] = log[shift + i]
                                             /\ shift + i \in 1..Len(log)
<1> DEFINE long == Append(log, chat)
           half == MaxLog \div 2
           new == WithChat(log, chat)
<1>1. /\ long \in Seq(Chat) /\ Len(long) = Len(log) + 1 /\ Len(log) \in Nat
      /\ long[Len(log) + 1] = chat
      /\ \A i \in 1..Len(log) : long[i] = log[i]
  OBVIOUS
<1>2. half \in Nat /\ 2 * half <= MaxLog /\ MaxLog \in Nat \ {0}
  BY ConstantsOK
<1>3. new = IF Len(long) > MaxLog THEN SubSeq(long, half + 2, Len(long)) ELSE long
  BY DEF WithChat, Rotated
<1> HIDE DEF long, half, new
<1>4. CASE Len(long) > MaxLog
  <2>1. /\ new \in Seq(Chat) /\ Len(new) = Len(long) - half - 1
        /\ \A i \in 1..(Len(long) - half - 1) : new[i] = long[half + 1 + i]
    BY <1>1, <1>2, <1>3, <1>4
  <2> QED BY <1>1, <1>2, <1>4, <2>1 DEF new
<1>5. CASE Len(long) <= MaxLog
  <2>1. new = long
    BY <1>1, <1>2, <1>3, <1>5
  <2> QED BY <1>1, <2>1 DEF new
<1> QED BY <1>1, <1>2, <1>4, <1>5

\* A log and a conversation both longer by the same chat still agree.
LEMMA LogsAgree ==
  ASSUME NEW log \in Seq(Chat), NEW chats \in Seq(Session), NEW s \in Session,
         EndsAs(log, chats), [from |-> s, n |-> Len(chats) + 1] \in Chat
  PROVE  EndsAs(WithChat(log, [from |-> s, n |-> Len(chats) + 1]),
                Append(chats, s))
<1> DEFINE chat == [from |-> s, n |-> Len(chats) + 1]
           new == WithChat(log, chat)
           longer == Append(chats, s)
           shift == Len(log) + 1 - Len(new)
<1>1. /\ new \in Seq(Chat) /\ Len(new) \in 1..(Len(log) + 1)
      /\ new[Len(new)] = chat
      /\ \A i \in 1..(Len(new) - 1) : /\ new[i] = log[shift + i]
                                      /\ shift + i \in 1..Len(log)
  BY WithChatEnd
<1>2. /\ Len(longer) = Len(chats) + 1 /\ Len(chats) \in Nat /\ Len(log) \in Nat
      /\ longer[Len(chats) + 1] = s
      /\ \A i \in 1..Len(chats) : longer[i] = chats[i]
  OBVIOUS
<1>3. new # << >>
  BY <1>1
<1> HIDE DEF new, longer
<1>4. ASSUME NEW i \in 1..Len(new)
      PROVE  new[i] = [from |-> longer[Len(longer) - Len(new) + i],
                       n |-> Len(longer) - Len(new) + i]
  <2>1. CASE i = Len(new)
    BY <1>1, <1>2, <2>1
  <2>2. CASE i # Len(new)
    <3> DEFINE j == shift + i
    <3>1. new[i] = log[j] /\ j \in 1..Len(log)
      BY <1>1, <2>2
    <3>2. /\ Len(longer) - Len(new) + i = Len(chats) - Len(log) + j
          /\ Len(chats) - Len(log) + j \in 1..Len(chats)
      BY <1>1, <1>2, <3>1 DEF EndsAs
    <3> HIDE DEF j
    <3>3. log[j] = [from |-> chats[Len(chats) - Len(log) + j],
                    n |-> Len(chats) - Len(log) + j]
      BY <3>1 DEF EndsAs
    <3> QED BY <1>2, <3>1, <3>2, <3>3
  <2> QED BY <2>1, <2>2
<1>5. Len(new) <= Len(longer)
  BY <1>1, <1>2 DEF EndsAs
<1>6. EndsAs(new, longer)
  BY <1>3, <1>4, <1>5 DEF EndsAs
<1> QED BY <1>6 DEF new, longer

\* The table is looked up by key in every lemma below.
USE KeyType DEF Lookup, AskedFor

\* The room that the table has under a key.
LEMMA TableRoom ==
  ASSUME IInv, NEW k \in Key, rooms_table[k] # NULL
  PROVE  LET r == rooms_table[k]
         IN  /\ r \in Room /\ Live(r) /\ room[r].name \in RoomName
             /\ KeyOf[room[r].name] = k /\ logs[room[r].name] \in Seq(Chat)
             /\ room[r].chats \in Seq(Session) /\ room[r].p_users \in Seq(Session)
<1>1. rooms_table[k] \in Room /\ Entry(k)
  BY DEF IInv, TypeOK, Structs
<1>2. room[rooms_table[k]] \in RoomStruct
  BY <1>1 DEF IInv, TypeOK
<1> QED BY <1>1, <1>2 DEF Entry, Live, RoomStruct

\* A room keeps its name, its chats and its log.
SameLog(r) ==
  /\ room'[r].name = room[r].name /\ room'[r].chats = room[r].chats
  /\ logs'[room[r].name] = logs[room[r].name]

\* Rooms that keep their chats and their log.
LEMMA SameLogs ==
  ASSUME LogInv, NEW K \in SUBSET Key,
         \A k \in K : rooms_table'[k] # NULL =>
           rooms_table'[k] = rooms_table[k] /\ SameLog(rooms_table[k])
  PROVE  \A k \in K : rooms_table'[k] # NULL =>
           EndsAs(logs'[room'[rooms_table'[k]].name], room'[rooms_table'[k]].chats)
BY DEF LogInv, SameLog

\* The log of every room of the table is an end of its conversation.
LEMMA LogStep == IInv /\ LogInv /\ [Next]_vars => LogInv'
<1> SUFFICES ASSUME IInv, LogInv, [Next]_vars PROVE LogInv'
  OBVIOUS
<1>0. ASSUME \A k \in Key : rooms_table'[k] # NULL =>
               rooms_table'[k] = rooms_table[k] /\ SameLog(rooms_table[k])
      PROVE  LogInv'
  BY <1>0, SameLogs DEF LogInv
<1>1. CASE Still
  <2>1. \A k \in Key : rooms_table[k] # NULL => rooms_table[k] \in Room
    BY DEF IInv, TypeOK
  <2> QED BY <1>0, <1>1, <2>1 DEF Still, SameLog
<1>2. CASE Die \/ Shutdown
  <2>1. \A k \in Key : rooms_table'[k] = NULL
    BY <1>2 DEF Die, Shutdown
  <2> QED BY <2>1 DEF LogInv
<1>3. ASSUME NEW s \in Session, NEW n \in RoomName, Create(s, n) PROVE LogInv'
  <2> PICK r \in Room : Created(s, n, r)
    BY <1>3, CreateEffect
  <2>1. ASSUME NEW k \in Key \ {KeyOf[n]}, rooms_table'[k] # NULL
        PROVE  rooms_table'[k] = rooms_table[k] /\ SameLog(rooms_table[k])
    <3>1. rooms_table'[k] = rooms_table[k] /\ rooms_table[k] # r
      BY DEF Created
    <3> PICK q : q = rooms_table[k]
      OBVIOUS
    <3>2. q \in Room \ {r} /\ room[q].name \in RoomName /\ KeyOf[room[q].name] = k
      BY <2>1, <3>1, TableRoom
    <3>3. room'[q] = room[q] /\ logs'[room[q].name] = logs[room[q].name]
      BY <3>2 DEF Created
    <3> QED BY <3>1, <3>3 DEF SameLog
  <2>2. \A k \in Key \ {KeyOf[n]} : rooms_table'[k] # NULL =>
          EndsAs(logs'[room'[rooms_table'[k]].name], room'[rooms_table'[k]].chats)
    BY <2>1, SameLogs
  <2>3. LET q == rooms_table'[KeyOf[n]]
        IN  logs'[room'[q].name] = << >> /\ room'[q].chats = << >>
    BY DEF Created
  <2>4. EndsAs(<< >>, << >>)
    BY DEF EndsAs
  <2> QED BY <2>2, <2>3, <2>4 DEF LogInv
<1>4. ASSUME NEW s \in Session, NEW n \in RoomName, DeleteCheck(s, n) PROVE LogInv'
  <2>1. /\ rooms_table'[KeyOf[n]] = NULL /\ UNCHANGED <<logs, room>>
        /\ \A k \in Key \ {KeyOf[n]} : rooms_table'[k] = rooms_table[k]
    BY <1>4, DeleteCheckEffect
  <2> QED BY <1>0, <2>1 DEF SameLog
<1>5. ASSUME NEW s \in Session,
             \/ \E n \in RoomName : JoinEnter(s, n)
             \/ ChatSend(s) \/ LeaveRemove(s) \/ DeleteList(s)
      PROVE  LogInv'
  <2>1. UNCHANGED <<rooms_table, logs>>
    BY <1>5 DEF JoinEnter, EnterRoom, ChatSend, LeaveRemove, DeleteList
  <2>2. \A q \in Room : /\ room'[q].chats = room[q].chats
                        /\ room'[q].name = room[q].name
    <3>1. CASE \E n \in RoomName : JoinEnter(s, n)
      BY <3>1, JoinEnterEffect DEF SameRooms
    <3>2. CASE ChatSend(s)  BY <3>2, ChatSendEffect DEF SameRooms
    <3>3. CASE LeaveRemove(s)  BY <3>3, LeaveRemoveEffect DEF SameRooms
    <3>4. CASE DeleteList(s)  BY <3>4, DeleteListEffect
    <3> QED BY <1>5, <3>1, <3>2, <3>3, <3>4
  <2>3. \A k \in Key : rooms_table[k] # NULL => rooms_table[k] \in Room
    BY DEF IInv, TypeOK
  <2> QED BY <1>0, <2>1, <2>2, <2>3 DEF SameLog
<1>6. ASSUME NEW s \in Session, NEW n \in RoomName, DeleteMutex(s, n) PROVE LogInv'
  <2> PICK r : r = p_room[s]
    OBVIOUS
  <2> PICK own : own = room[r].name
    OBVIOUS
  <2>1. /\ r \in Room /\ own \in RoomName /\ rooms_table[KeyOf[own]] = NULL
        /\ rooms_table' = rooms_table
        /\ logs' = [logs EXCEPT ![own] = NULL] \/ logs' = logs
        /\ \A q \in Room \ {r} : room'[q] = room[q]
    BY <1>6, DeleteMutexEffect
  <2>2. \A m \in RoomName \ {own} : logs'[m] = logs[m]
    BY <2>1 DEF IInv, TypeOK
  <2>3. ASSUME NEW k \in Key, rooms_table[k] # NULL PROVE SameLog(rooms_table[k])
    <3> PICK q : q = rooms_table[k]
      OBVIOUS
    <3>1. q \in Room /\ room[q].name \in RoomName /\ KeyOf[room[q].name] = k
      BY <2>3, TableRoom
    <3>2. room[q].name # own /\ q # r
      BY <2>1, <2>3, <3>1
    <3> QED BY <2>1, <2>2, <3>1, <3>2 DEF SameLog
  <2> QED BY <1>0, <2>1, <2>3
<1>7. ASSUME NEW s \in Session, ChatFile(s) PROVE LogInv'
  <2> DEFINE r == p_room[s]
             n == room[r].name
             chats == room[r].chats
             chat == [from |-> s, n |-> Len(chats) + 1]
  <2>1. /\ r \in Room /\ Live(r) /\ n \in RoomName /\ pc[s] = "chat"
        /\ room'[r].chats = Append(chats, s) /\ room'[r].name = n
        /\ \A q \in Room \ {r} : room'[q] = room[q]
        /\ logs' = [logs EXCEPT ![n] = WithChat(logs[n], chat)]
        /\ rooms_table' = rooms_table
    BY <1>7, ChatFileEffect DEF SameRooms
  <2>2. /\ rooms_table[KeyOf[n]] = r /\ r # NULL
        /\ chats \in Seq(Session) /\ logs[n] \in Seq(Chat)
    <3>1. rooms_table[KeyOf[n]] = r /\ r # NULL
      BY <2>1, ConstantsOK DEF Live
    <3> QED BY <2>1, <3>1, TableRoom
  <2>3. chat \in Chat
    <3>1. Len(chats) \in Nat /\ Len(chats) + 1 <= MaxChats
      BY <2>1, ChatFits
    <3> HIDE DEF chats
    <3> QED BY <3>1, ConstantsOK DEF Chat
  <2>4. EndsAs(logs[n], chats)
    BY <2>1, <2>2 DEF LogInv
  <2>5. \A m \in RoomName \ {n} : logs'[m] = logs[m]
    BY <2>1 DEF IInv, TypeOK
  <2>6. logs'[n] = WithChat(logs[n], chat)
    BY <2>1 DEF IInv, TypeOK
  <2> HIDE DEF r, n, chats
  <2>7. EndsAs(logs'[n], room'[r].chats)
    BY <2>1, <2>2, <2>3, <2>4, <2>6, LogsAgree
  <2>8. ASSUME NEW k \in Key \ {KeyOf[n]}, rooms_table[k] # NULL
        PROVE  SameLog(rooms_table[k])
    <3> PICK q : q = rooms_table[k]
      OBVIOUS
    <3>1. q \in Room /\ room[q].name \in RoomName /\ KeyOf[room[q].name] = k
      BY <2>8, TableRoom
    <3>2. room[q].name # n /\ q # r
      BY <3>1 DEF n
    <3> QED BY <2>1, <2>5, <3>1, <3>2 DEF SameLog
  <2>9. \A k \in Key \ {KeyOf[n]} : rooms_table'[k] # NULL =>
          EndsAs(logs'[room'[rooms_table'[k]].name], room'[rooms_table'[k]].chats)
    BY <2>1, <2>8, SameLogs
  <2> QED BY <2>1, <2>2, <2>7, <2>9 DEF LogInv
<1> QED BY <1>1, <1>2, <1>3, <1>4, <1>5, <1>6, <1>7, Steps

\* Both invariants hold throughout.
LEMMA Logs == Spec => [](IInv /\ LogInv)
<1>1. Init => LogInv
  BY DEF Init, LogInv
<1> QED BY <1>1, LogStep, Invariance, PTL DEF Spec

\* A log that agrees with a conversation is its end.
LEMMA LogIsEnd ==
  ASSUME NEW log \in Seq(Chat), NEW chats \in Seq(Session), EndsAs(log, chats),
         NEW all, all = [i \in 1..Len(chats) |-> [from |-> chats[i], n |-> i]]
  PROVE  /\ Len(all) = Len(chats) /\ Len(log) <= Len(all)
         /\ log = SubSeq(all, Len(all) - Len(log) + 1, Len(all))
<1> DEFINE S == [from : Session, n : Nat]
           k == Len(chats) - Len(log)
<1>1. /\ Len(log) <= Len(chats) /\ Len(log) \in Nat /\ Len(chats) \in Nat
      /\ k \in Nat /\ Len(chats) - k = Len(log)
  BY DEF EndsAs
<1>2. /\ all \in Seq(S) /\ Len(all) = Len(chats)
      /\ \A i \in 1..Len(chats) : all[i] = [from |-> chats[i], n |-> i]
  OBVIOUS
<1>3. ASSUME NEW i \in 1..Len(log)
      PROVE  log[i] = [from |-> chats[k + i], n |-> k + i]
  BY DEF EndsAs
<1> HIDE DEF S, k
<1> DEFINE last == SubSeq(all, k + 1, Len(chats))
<1>4. /\ last \in Seq(S) /\ Len(last) = Len(log)
      /\ \A i \in 1..Len(log) : last[i] = all[k + i]
  BY <1>1, <1>2
<1> HIDE DEF last
<1>5. ASSUME NEW i \in 1..Len(log) PROVE log[i] = last[i]
  <2>1. k + i \in 1..Len(chats)
    BY <1>1
  <2> QED BY <1>2, <1>3, <1>4, <2>1
<1>8. log = last
  BY <1>4, <1>5
<1>9. Len(all) - Len(log) = k
  BY <1>1, <1>2
<1> QED BY <1>1, <1>2, <1>8, <1>9 DEF last

\* The log of a live room is the end of its conversation, through every
\* rotation, and is not empty once somebody has spoken.
THEOREM LogsRecent == Spec => []LogIsRecent
<1>1. IInv /\ LogInv => LogIsRecent
  <2> SUFFICES ASSUME IInv, LogInv, NEW r \in Room, Live(r)
               PROVE  LET log == logs[room[r].name]
                      IN  /\ log = LastOf(Conversation(r), Len(log))
                          /\ room[r].chats # << >> => log # << >>
    BY DEF LogIsRecent
  <2> DEFINE n == room[r].name
             log == logs[n]
             chats == room[r].chats
             all == Conversation(r)
  <2>1. /\ n \in RoomName /\ rooms_table[KeyOf[n]] = r /\ r # NULL
        /\ log \in Seq(Chat) /\ chats \in Seq(Session)
    <3>1. n \in RoomName
      BY DEF Live, IInv, Structs
    <3>2. rooms_table[KeyOf[n]] = r /\ r # NULL
      BY ConstantsOK DEF Live
    <3> QED BY <3>1, <3>2, TableRoom
  <2>2. EndsAs(log, chats)
    BY <2>1 DEF LogInv
  <2>3. all = [i \in 1..Len(chats) |-> [from |-> chats[i], n |-> i]]
    BY <2>1 DEF Conversation
  <2>4. log \in Seq(Chat) /\ chats \in Seq(Session)
    BY <2>1
  <2> HIDE DEF log, chats, all
  <2>7. log = SubSeq(all, Len(all) - Len(log) + 1, Len(all))
    BY <2>2, <2>3, <2>4, LogIsEnd
  <2>5. log = LastOf(Conversation(r), Len(log))
    BY <2>7 DEF LastOf, all
  <2>6. chats # << >> => log # << >>
    BY <2>2 DEF EndsAs
  <2> QED BY <2>5, <2>6 DEF log, chats
<1> QED BY <1>1, Logs, PTL
---------------------------------------------------------------------------
(* What the members were sent *)

\* A session goes on chatting in the same room.
SameFor(t) ==
  /\ Chats(t)' <=> Chats(t)
  /\ Chats(t) =>
       /\ p_chat_room'[t] = p_chat_room[t]
       /\ LET k == KeyOf[p_chat_room[t]] IN rooms_table'[k] = rooms_table[k]

\* Nothing is sent in a room whose conversation stays as it is.
LEMMA SentSame ==
  ASSUME NEW q \in Room, room'[q].chats = room[q].chats,
         \A t \in Session : pc'[t] = "said" /\ p_room'[t] = q
                              <=> pc[t] = "said" /\ p_room[t] = q
  PROVE  Sent(q)' = Sent(q)
BY DEF Sent, Said

\* The number of chats that were sent.
LEMMA SentType ==
  ASSUME IInv, NEW q \in Room
  PROVE  /\ Len(room[q].chats) \in Nat /\ Len(room[q].chats) <= MaxChats
         /\ Sent(q) \in Nat
         /\ Sent(q) <= Len(room[q].chats)
<1>1. Len(room[q].chats) \in Nat /\ room[q].chats \in Seq(Session)
  BY DEF IInv, TypeOK, RoomStruct
<1>2. Said(q) => room[q].chats # << >>
  BY DEF Said, IInv, Bounds
<1>3. room[q].chats # << >> => Len(room[q].chats) >= 1
  BY <1>1
<1>4. Cardinality(Ahead(q)) \in Nat
  BY ConstantsOK, FS_Subset, FS_CardinalityType DEF Ahead
<1>5. Len(room[q].chats) <= MaxChats
  BY <1>1, <1>4, ConstantsOK DEF IInv, Bounds
<1> QED BY <1>1, <1>2, <1>3, <1>5 DEF Sent

\* Where nobody holds room_mutex, all that was said was sent.
LEMMA SentAll ==
  ASSUME IInv, NEW r \in Room, RoomFree(r)
  PROVE  ~Said(r) /\ Sent(r) = Len(room[r].chats)
<1>1. ~Said(r)
  BY NobodyHolds DEF Said, HoldsRoom
<1> QED BY <1>1 DEF Sent

\* Steps that send no chat, of sessions that neither join nor leave.
LEMMA Unheard ==
  ASSUME IInv,
         \/ Still
         \/ \E s \in Session, n \in RoomName :
              Create(s, n) \/ DeleteCheck(s, n) \/ DeleteMutex(s, n)
         \/ \E s \in Session : ChatFile(s) \/ DeleteList(s)
  PROVE  /\ inbox' = inbox
         /\ \A t \in Session : SameFor(t)
         /\ \A q \in Room : Sent(q)' = Sent(q)
<1> DEFINE Goal == /\ inbox' = inbox
                   /\ \A t \in Session : SameFor(t)
                   /\ \A q \in Room : Sent(q)' = Sent(q)
<1>1. CASE Still
  <2>1. \A q \in Room : Sent(q)' = Sent(q)
    BY <1>1, SentSame DEF Still
  <2> QED BY <1>1, <2>1 DEF Still, SameFor
<1>2. ASSUME NEW s \in Session, NEW n \in RoomName, Create(s, n) PROVE Goal
  <2> PICK r \in Room : Created(s, n, r)
    BY <1>2, CreateEffect
  <2>1. /\ \A q \in Room : room'[q].chats = room[q].chats
        /\ pc' = pc /\ p_room' = p_room /\ rooms_table[KeyOf[n]] = NULL
        /\ \A k \in Key \ {KeyOf[n]} : rooms_table'[k] = rooms_table[k]
        /\ UNCHANGED client
    BY DEF Created
  <2>2. \A q \in Room : Sent(q)' = Sent(q)
    BY <2>1, SentSame
  <2>3. ASSUME NEW t \in Session PROVE SameFor(t)
    <3>1. Chats(t)' <=> Chats(t)
      BY <2>1 DEF Chats, client
    <3>2. Chats(t) => KeyOf[p_chat_room[t]] \in Key \ {KeyOf[n]}
      BY <2>1 DEF IInv, Members
    <3> QED BY <2>1, <3>1, <3>2 DEF SameFor, client
  <2> QED BY <2>1, <2>2, <2>3 DEF client
<1>3. ASSUME NEW s \in Session, NEW n \in RoomName, DeleteCheck(s, n) PROVE Goal
  <2>1. /\ pc[s] = "idle" /\ pc'[s] = "list" /\ StepOf(s)
        /\ \A k \in Key \ {KeyOf[n]} : rooms_table'[k] = rooms_table[k]
        /\ \A t \in Session : Chats(t) => KeyOf[p_chat_room[t]] \in Key \ {KeyOf[n]}
        /\ ~chatting[s] /\ UNCHANGED <<room, client>>
    BY <1>3, DeleteCheckEffect
  <2>2. \A q \in Room : Sent(q)' = Sent(q)
    BY <2>1, SentSame DEF StepOf
  <2>3. \A t \in Session : Chats(t)' <=> Chats(t)
    BY <2>1 DEF Chats, StepOf, client
  <2> QED BY <2>1, <2>2, <2>3 DEF SameFor, client
<1>4. ASSUME NEW s \in Session, DeleteList(s) PROVE Goal
  <2> DEFINE r == p_room[s]
  <2>1. /\ r \in Room /\ pc[s] = "list" /\ pc'[s] = "mutex" /\ StepOf(s)
        /\ room'[r].chats = room[r].chats
        /\ \A q \in Room \ {r} : room'[q] = room[q]
        /\ UNCHANGED <<rooms_table, client>>
    BY <1>4, DeleteListEffect
  <2> HIDE DEF r
  <2>2. \A q \in Room : Sent(q)' = Sent(q)
    BY <2>1, SentSame DEF StepOf
  <2>3. \A t \in Session : Chats(t)' <=> Chats(t)
    BY <2>1 DEF Chats, StepOf, client
  <2> QED BY <2>1, <2>2, <2>3 DEF SameFor, client
<1>5. ASSUME NEW s \in Session, NEW n \in RoomName, DeleteMutex(s, n) PROVE Goal
  <2> DEFINE r == p_room[s]
  <2>1. /\ r \in Room /\ pc[s] = "mutex" /\ pc'[s] = "idle" /\ StepOf(s)
        /\ RoomFree(r) => /\ room'[r].chats = room[r].chats
                          /\ \A q \in Room \ {r} : room'[q] = room[q]
        /\ ~RoomFree(r) => UNCHANGED room
        /\ ~chatting[s]
        /\ UNCHANGED <<rooms_table, client>>
    BY <1>5, DeleteMutexEffect
  <2> HIDE DEF r
  <2>2. \A q \in Room : Sent(q)' = Sent(q)
    BY <2>1, SentSame DEF StepOf
  <2>3. \A t \in Session : Chats(t)' <=> Chats(t)
    BY <2>1 DEF Chats, StepOf, client
  <2> QED BY <2>1, <2>2, <2>3 DEF SameFor, client
<1>6. ASSUME NEW s \in Session, ChatFile(s) PROVE Goal
  <2>0. p_room[s] \in Room
    BY <1>6, ChatFileEffect
  <2> PICK r \in Room : r = p_room[s]
    BY <2>0
  <2>1. /\ r \in Room /\ RoomFree(r) /\ room[r].chats \in Seq(Session)
        /\ pc[s] = "chat" /\ pc'[s] = "said" /\ StepOf(s)
        /\ room'[r].chats = Append(room[r].chats, s)
        /\ \A q \in Room \ {r} : room'[q] = room[q]
        /\ p_room' = p_room /\ UNCHANGED <<rooms_table, client>>
    <3>1. room[r].chats \in Seq(Session)
      BY DEF IInv, TypeOK, RoomStruct
    <3> QED BY <1>6, <3>1, ChatFileEffect
  <2>2. ASSUME NEW q \in Room \ {r} PROVE Sent(q)' = Sent(q)
    BY <2>1, SentSame DEF StepOf
  <2>3. Sent(r)' = Sent(r)
    <3>1. Sent(r) = Len(room[r].chats)
      BY <2>1, SentAll
    <3>2. Said(r)'
      BY <2>1 DEF Said
    <3>3. Len(room'[r].chats) = Len(room[r].chats) + 1 /\ Len(room[r].chats) \in Nat
      BY <2>1
    <3> QED BY <3>1, <3>2, <3>3 DEF Sent
  <2>4. \A t \in Session : Chats(t)' <=> Chats(t)
    BY <2>1 DEF Chats, StepOf, client
  <2> QED BY <2>1, <2>2, <2>3, <2>4 DEF SameFor, client
<1> HIDE DEF Goal
<1>7. Goal
  BY <1>1, <1>2, <1>3, <1>4, <1>5, <1>6 DEF Goal
<1> QED BY <1>7 DEF Goal

\* A newcomer: the others and the conversations stay.
LEMMA JoinUnheard ==
  ASSUME IInv, NEW s \in Session, NEW n \in RoomName, JoinEnter(s, n)
  PROVE  /\ \A q \in Room : Sent(q)' = Sent(q)
         /\ \A t \in Session \ {s} : inbox'[t] = inbox[t] /\ SameFor(t)
         /\ Chats(s)' /\ rooms_table' = rooms_table
<1> DEFINE r == p_room[s]
<1>1. /\ r \in Room /\ pc[s] = "join" /\ pc'[s] = "idle" /\ StepOf(s)
      /\ chatting'[s] /\ room'[r].chats = room[r].chats
      /\ \A q \in Room \ {r} : room'[q] = room[q]
      /\ inbox' \in {[inbox EXCEPT ![s] = log] : log \in
           {logs[room[r].name]} \cup (IF SendMayFail THEN {<< >>} ELSE {})}
      /\ rooms_table' = rooms_table
  BY JoinEnterEffect
<1> HIDE DEF r
<1>2. \A q \in Room : Sent(q)' = Sent(q)
  BY <1>1, SentSame DEF StepOf
<1>3. \A t \in Session \ {s} : inbox'[t] = inbox[t] /\ (Chats(t)' <=> Chats(t))
  BY <1>1 DEF Chats, StepOf, IInv, TypeOK
<1>4. \A t \in Session \ {s} : SameFor(t)
  BY <1>1, <1>3 DEF SameFor, StepOf
<1> QED BY <1>1, <1>2, <1>3, <1>4 DEF Chats

\* A member that leaves: the others and the conversations stay.
LEMMA LeaveUnheard ==
  ASSUME IInv, NEW s \in Session, LeaveRemove(s)
  PROVE  /\ \A q \in Room : Sent(q)' = Sent(q)
         /\ \A t \in Session \ {s} : inbox'[t] = inbox[t] /\ SameFor(t)
         /\ ~Chats(s)' /\ inbox'[s] = << >> /\ rooms_table' = rooms_table
<1> DEFINE r == p_room[s]
<1>1. /\ r \in Room /\ pc[s] = "leave" /\ pc'[s] = "left" /\ StepOf(s)
      /\ room'[r].chats = room[r].chats
      /\ \A q \in Room \ {r} : room'[q] = room[q]
      /\ inbox' = [inbox EXCEPT ![s] = << >>]
      /\ rooms_table' = rooms_table
  BY LeaveRemoveEffect
<1> HIDE DEF r
<1>2. \A q \in Room : Sent(q)' = Sent(q)
  BY <1>1, SentSame DEF StepOf
<1>3. /\ \A t \in Session \ {s} : inbox'[t] = inbox[t] /\ (Chats(t)' <=> Chats(t))
      /\ inbox'[s] = << >>
  BY <1>1 DEF Chats, StepOf, IInv, TypeOK
<1>4. \A t \in Session \ {s} : SameFor(t)
  BY <1>1, <1>3 DEF SameFor, StepOf
<1> QED BY <1>1, <1>2, <1>3, <1>4 DEF Chats

\* A broadcast: one more chat is sent in the room of the sender.
LEMMA ChatHeard ==
  ASSUME IInv, NEW s \in Session, ChatSend(s), NEW r \in Room, p_room[s] = r
  PROVE  /\ Sent(r) = Len(room[r].chats) - 1
         /\ Sent(r)' = Len(room[r].chats)
         /\ \A q \in Room \ {r} : Sent(q)' = Sent(q)
         /\ \A t \in Session : SameFor(t)
<1>1. /\ room[r].room_mutex = s
      /\ pc[s] = "said" /\ pc'[s] = "idle" /\ StepOf(s)
      /\ room'[r].chats = room[r].chats
      /\ \A q \in Room \ {r} : room'[q] = room[q]
      /\ UNCHANGED <<rooms_table, chatting, p_chat_room>>
  BY ChatSendEffect
<1>2. Said(r)
  BY <1>1 DEF Said
<1>3. ASSUME NEW t \in Session, pc'[t] = "said", p_room'[t] = r PROVE FALSE
  <2>1. t # s /\ pc[t] = "said" /\ p_room[t] = r
    BY <1>1, <1>3 DEF StepOf
  <2>2. room[r].room_mutex = t
    BY <1>1, <2>1, OwnStruct DEF HoldsRoom
  <2> QED BY <1>1, <2>1, <2>2
<1>4. ~Said(r)'
  BY <1>3 DEF Said
<1>5. Sent(r) = Len(room[r].chats) - 1 /\ Sent(r)' = Len(room[r].chats)
  BY <1>1, <1>2, <1>4 DEF Sent
<1>6. ASSUME NEW q \in Room \ {r} PROVE Sent(q)' = Sent(q)
  <2>1. \A t \in Session : pc'[t] = "said" /\ p_room'[t] = q
                             <=> pc[t] = "said" /\ p_room[t] = q
    BY <1>1 DEF StepOf
  <2> QED BY <1>1, <2>1, SentSame
<1>7. \A t \in Session : SameFor(t)
  BY <1>1 DEF SameFor, Chats, StepOf
<1> QED BY <1>5, <1>6, <1>7

\* A log has its chats in order, up to the length of the conversation.
LEMMA LogOrdered ==
  ASSUME NEW log \in Seq(Chat), NEW chats \in Seq(Session), EndsAs(log, chats)
  PROVE  /\ Ordered(log) /\ UpTo(log, Len(chats))
         /\ \A i \in DOMAIN log : log[i].n \in Nat
<1>1. /\ DOMAIN log = 1..Len(log) /\ Len(log) \in Nat /\ Len(chats) \in Nat
      /\ Len(log) <= Len(chats)
  BY DEF EndsAs
<1>2. ASSUME NEW i \in 1..Len(log) PROVE log[i].n = Len(chats) - Len(log) + i
  <2> DEFINE k == Len(chats) - Len(log) + i
  <2>1. log[i] = [from |-> chats[k], n |-> k]
    BY DEF EndsAs
  <2> HIDE DEF k
  <2>2. log[i].n = k
    BY <2>1
  <2> QED BY <2>2 DEF k
<1> QED BY <1>1, <1>2 DEF Ordered, UpTo

\* Chats are numbered.
LEMMA ChatNumber ==
  ASSUME NEW seq \in Seq(Chat)
  PROVE  \A i \in DOMAIN seq : seq[i].n \in Nat
<1> SUFFICES ASSUME NEW i \in DOMAIN seq PROVE seq[i].n \in Nat
  OBVIOUS
<1>1. seq[i] \in Chat
  OBVIOUS
<1> QED BY <1>1 DEF Chat

\* One more chat, newer than the others.
LEMMA AppendOrdered ==
  ASSUME NEW seq \in Seq(Chat), NEW s \in Session, NEW k \in Nat,
         Ordered(seq), UpTo(seq, k - 1)
  PROVE  LET new == Append(seq, [from |-> s, n |-> k])
         IN  Ordered(new) /\ UpTo(new, k)
<1> DEFINE chat == [from |-> s, n |-> k]
           new == Append(seq, chat)
<1>1. /\ DOMAIN new = 1..(Len(seq) + 1) /\ new[Len(seq) + 1] = chat
      /\ Len(seq) \in Nat /\ DOMAIN seq = 1..Len(seq)
      /\ \A i \in 1..Len(seq) : new[i] = seq[i]
  OBVIOUS
<1>2. \A i \in 1..Len(seq) : seq[i].n \in Int
  BY <1>1, ChatNumber
<1>3. chat.n = k
  OBVIOUS
<1> HIDE DEF new, chat
<1>4. ASSUME NEW i \in 1..(Len(seq) + 1)
      PROVE  i \in 1..Len(seq) \/ i = Len(seq) + 1
  BY <1>1
<1>5. UpTo(new, k)
  BY <1>1, <1>2, <1>3, <1>4 DEF UpTo
<1>6. Ordered(new)
  <2> SUFFICES ASSUME NEW i \in 1..(Len(seq) + 1), NEW j \in 1..(Len(seq) + 1),
                      i < j
               PROVE  new[i].n < new[j].n
    BY <1>1 DEF Ordered
  <2>1. i \in 1..Len(seq)
    BY <1>1
  <2>2. CASE j \in 1..Len(seq)
    BY <1>1, <2>1, <2>2 DEF Ordered
  <2>3. CASE j = Len(seq) + 1
    BY <1>1, <1>2, <1>3, <2>1, <2>3 DEF UpTo
  <2> QED BY <1>4, <2>2, <2>3
<1> QED BY <1>5, <1>6 DEF new, chat

\* The log of the room somebody chats in.
LEMMA OwnLog ==
  ASSUME IInv, LogInv, NEW t \in Session, Chats(t)
  PROVE  LET r == rooms_table[KeyOf[p_chat_room[t]]]
             n == room[r].name
         IN  /\ p_chat_room[t] \in RoomName /\ r \in Room /\ r # NULL /\ Live(r)
             /\ n \in RoomName /\ KeyOf[n] = KeyOf[p_chat_room[t]]
             /\ t \in Elements(room[r].p_users)
             /\ logs[n] \in Seq(Chat) /\ room[r].chats \in Seq(Session)
             /\ EndsAs(logs[n], room[r].chats)
<1> PICK k : k = KeyOf[p_chat_room[t]]
  OBVIOUS
<1>1. p_chat_room[t] \in RoomName /\ k \in Key /\ rooms_table[k] # NULL
  BY DEF IInv, Members
<1> PICK r : r = rooms_table[k]
  OBVIOUS
<1>2. /\ r \in Room /\ Live(r) /\ room[r].name \in RoomName /\ KeyOf[room[r].name] = k
      /\ logs[room[r].name] \in Seq(Chat) /\ room[r].chats \in Seq(Session)
  BY <1>1, TableRoom
<1>3. EndsAs(logs[room[r].name], room[r].chats)
  BY <1>1 DEF LogInv
<1>4. t \in Elements(room[r].p_users)
  BY <1>1, <1>2 DEF IInv, Members
<1> QED BY <1>1, <1>2, <1>3, <1>4

\* Who is sent nothing stays in order.
LEMMA InboxSame ==
  ASSUME IInv, InboxInv, NEW t \in Session, SameFor(t), inbox'[t] = inbox[t],
         \A q \in Room : Sent(q)' = Sent(q)
  PROVE  InboxOK(t)'
<1>1. InboxOK(t)
  BY DEF InboxInv
<1> PICK r : r = rooms_table[KeyOf[p_chat_room[t]]]
  OBVIOUS
<1>2. Chats(t) => r \in Room
  BY DEF IInv, Members, TypeOK
<1>3. Chats(t) => rooms_table'[KeyOf[p_chat_room'[t]]] = r /\ Chats(t)'
  BY DEF SameFor
<1>4. Chats(t)' => UpTo(inbox[t], Sent(r)')
  BY <1>1, <1>2, <1>3 DEF InboxOK, SameFor
<1>5. Chats(t)' => UpTo(inbox'[t], Sent(r)')
  BY <1>4
<1> QED BY <1>1, <1>3, <1>5 DEF InboxOK, SameFor

\* Who hears a chat.
LEMMA HeardBy ==
  ASSUME IInv, NEW s \in Session, ChatSend(s), NEW r \in Room, p_room[s] = r
  PROVE  LET chat == [from |-> s, n |-> Len(room[r].chats)]
             others == Elements(room[r].p_users) \ {s}
         IN  \E heard \in SUBSET others :
               /\ inbox' = [t \in Session |-> IF t \in heard
                                              THEN Append(inbox[t], chat)
                                              ELSE inbox[t]]
               /\ heard # others =>
                    SendMayFail \/ \E t \in others : p_ssl[t] = "freed"
<1> DEFINE chat == [from |-> s, n |-> Len(room[p_room[s]].chats)]
           others == Elements(room[p_room[s]].p_users) \ {s}
<1>1. \E heard \in SUBSET others :
        /\ inbox' = [t \in Session |-> IF t \in heard
                                       THEN Append(inbox[t], chat)
                                       ELSE inbox[t]]
        /\ heard # others =>
             SendMayFail \/ \E t \in others : p_ssl[t] = "freed"
  BY ChatSendEffect
<1> QED BY <1>1

\* Everybody was sent chats in order, once, and none that is still to be sent.
LEMMA InboxStep == IInv /\ LogInv /\ InboxInv /\ [Next]_vars => InboxInv'
<1> SUFFICES ASSUME IInv, LogInv, InboxInv, [Next]_vars PROVE InboxInv'
  OBVIOUS
<1>0. Ordered(<< >>) /\ \A k : UpTo(<< >>, k)
  BY DEF Ordered, UpTo
<1>1. CASE \/ Still
           \/ \E s \in Session, n \in RoomName :
                Create(s, n) \/ DeleteCheck(s, n) \/ DeleteMutex(s, n)
           \/ \E s \in Session : ChatFile(s) \/ DeleteList(s)
  <2>1. /\ inbox' = inbox
        /\ \A t \in Session : SameFor(t)
        /\ \A q \in Room : Sent(q)' = Sent(q)
    BY <1>1, Unheard
  <2>2. \A t \in Session : InboxOK(t)'
    BY <2>1, InboxSame
  <2> QED BY <2>2 DEF InboxInv
<1>2. CASE Die \/ Shutdown
  <2>1. \A t \in Session : ~Chats(t)'
    <3>1. Empty'
      BY <1>2, DieOK, ShutdownOK
    <3> QED BY <3>1 DEF Empty, Chats
  <2>2. \A t \in Session : inbox'[t] = << >>
    <3>1. CASE Die  BY <3>1 DEF Die
    <3>2. CASE Shutdown
      <4>1. inbox' = inbox /\ \A t \in Session : pc[t] = "out"
        BY <3>2 DEF Shutdown, client
      <4>2. \A t \in Session : ~Chats(t)
        BY <4>1, AllOut
      <4> QED BY <4>1, <4>2 DEF InboxInv, InboxOK
    <3> QED BY <1>2, <3>1, <3>2
  <2> QED BY <1>0, <2>1, <2>2 DEF InboxInv, InboxOK
<1>3. ASSUME NEW s \in Session, LeaveRemove(s) PROVE InboxInv'
  <2>1. /\ \A q \in Room : Sent(q)' = Sent(q)
        /\ \A t \in Session \ {s} : inbox'[t] = inbox[t] /\ SameFor(t)
        /\ ~Chats(s)' /\ inbox'[s] = << >>
    BY <1>3, LeaveUnheard
  <2>2. \A t \in Session \ {s} : InboxOK(t)'
    BY <2>1, InboxSame
  <2>3. InboxOK(s)'
    BY <1>0, <2>1 DEF InboxOK
  <2> QED BY <2>2, <2>3 DEF InboxInv
<1>4. ASSUME NEW s \in Session, NEW n \in RoomName, JoinEnter(s, n) PROVE InboxInv'
  <2>1. /\ \A q \in Room : Sent(q)' = Sent(q)
        /\ \A t \in Session \ {s} : inbox'[t] = inbox[t] /\ SameFor(t)
        /\ Chats(s)' /\ rooms_table' = rooms_table
    BY <1>4, JoinUnheard
  <2>2. \A t \in Session \ {s} : InboxOK(t)'
    BY <2>1, InboxSame
  <2> PICK r : r = p_room[s]
    OBVIOUS
  <2> PICK log : log = logs[room[r].name]
    OBVIOUS
  <2>4. /\ r \in Room /\ RoomFree(r) /\ rooms_table[KeyOf[n]] = r /\ p_chat_room'[s] = n
        /\ inbox' \in {[inbox EXCEPT ![s] = seq] : seq \in
             {log} \cup (IF SendMayFail THEN {<< >>} ELSE {})}
    BY <1>4, JoinEnterEffect
  <2>5. rooms_table[KeyOf[n]] # NULL
    BY <2>4, ConstantsOK
  <2>6. inbox'[s] = << >> \/ inbox'[s] = log
    BY <2>4 DEF IInv, TypeOK
  <2>7. Ordered(log) /\ UpTo(log, Len(room[r].chats))
    <3>1. log \in Seq(Chat) /\ room[r].chats \in Seq(Session)
      BY <2>4, <2>5, TableRoom
    <3>2. EndsAs(log, room[r].chats)
      BY <2>4, <2>5 DEF LogInv
    <3> QED BY <3>1, <3>2, LogOrdered
  <2>8. Sent(r)' = Len(room[r].chats)
    BY <2>1, <2>4, SentAll
  <2>9. InboxOK(s)'
    <3>1. rooms_table'[KeyOf[p_chat_room'[s]]] = r
      BY <2>1, <2>4
    <3>2. UpTo(inbox'[s], Sent(r)') /\ Ordered(inbox'[s])
      BY <1>0, <2>6, <2>7, <2>8
    <3> QED BY <2>1, <3>1, <3>2 DEF InboxOK
  <2> QED BY <2>2, <2>9 DEF InboxInv
<1>5. ASSUME NEW s \in Session, ChatSend(s) PROVE InboxInv'
  <2>1. p_room[s] \in Room
    BY <1>5, ChatSendEffect
  <2> PICK r \in Room : r = p_room[s]
    BY <2>1
  <2> DEFINE chat == [from |-> s, n |-> Len(room[r].chats)]
  <2>2. /\ Sent(r) = Len(room[r].chats) - 1 /\ Sent(r)' = Len(room[r].chats)
        /\ \A q \in Room \ {r} : Sent(q)' = Sent(q)
        /\ \A t \in Session : SameFor(t)
    BY <1>5, ChatHeard
  <2> DEFINE others == Elements(room[r].p_users) \ {s}
  <2>3. PICK heard \in SUBSET others :
          /\ inbox' = [t \in Session |-> IF t \in heard
                                         THEN Append(inbox[t], chat)
                                         ELSE inbox[t]]
          /\ heard # others =>
               SendMayFail \/ \E t \in others : p_ssl[t] = "freed"
    BY <1>5, HeardBy
  <2>4. Len(room[r].chats) \in Nat
    BY SentType
  <2>5. ASSUME NEW t \in Session PROVE InboxOK(t)'
    <3> DEFINE q == rooms_table[KeyOf[p_chat_room[t]]]
    <3>1. InboxOK(t) /\ inbox[t] \in Seq(Chat)
      BY DEF InboxInv, IInv, TypeOK
    <3>2. CASE t \notin heard
      <4>1. inbox'[t] = inbox[t]
        BY <2>3, <3>2
      <4>2. CASE Chats(t)
        <5>1. q \in Room /\ Chats(t)' /\ rooms_table'[KeyOf[p_chat_room'[t]]] = q
          BY <2>2, <4>2, OwnLog DEF SameFor
        <5> PICK p \in Room : p = q
          BY <5>1
        <5>2. UpTo(inbox[t], Sent(p)) /\ Ordered(inbox[t])
          BY <3>1, <4>2 DEF InboxOK
        <5>3. Sent(p)' >= Sent(p) /\ Sent(p) \in Int /\ Sent(p)' \in Int
          BY <2>2, <2>4, SentType
        <5>4. UpTo(inbox[t], Sent(p)')
          <6>1. \A i \in DOMAIN inbox[t] : inbox[t][i].n \in Int
            BY <3>1, ChatNumber
          <6> QED BY <5>2, <5>3, <6>1 DEF UpTo
        <5> QED BY <4>1, <5>1, <5>2, <5>4 DEF InboxOK
      <4>3. CASE ~Chats(t)
        BY <2>2, <3>1, <4>1, <4>3 DEF SameFor, InboxOK
      <4> QED BY <4>2, <4>3
    <3>3. CASE t \in heard
      <4>1. Chats(t) /\ q = r
        <5>1. t \in Elements(room[r].p_users)
          BY <3>3
        <5> QED BY <5>1 DEF IInv, Members
      <4>2. Chats(t)' /\ rooms_table'[KeyOf[p_chat_room'[t]]] = r
        BY <2>2, <4>1 DEF SameFor
      <4>3. Ordered(inbox[t]) /\ UpTo(inbox[t], Len(room[r].chats) - 1)
        BY <2>2, <3>1, <4>1 DEF InboxOK
      <4>4. inbox'[t] = Append(inbox[t], chat)
        BY <2>3, <3>3
      <4>5. /\ Ordered(Append(inbox[t], chat))
            /\ UpTo(Append(inbox[t], chat), Len(room[r].chats))
        BY <2>4, <3>1, <4>3, AppendOrdered
      <4> QED BY <2>2, <4>2, <4>4, <4>5 DEF InboxOK
    <3> QED BY <3>2, <3>3
  <2> QED BY <2>5 DEF InboxInv
<1> QED BY <1>1, <1>2, <1>3, <1>4, <1>5, Steps

\* The three invariants hold throughout.
LEMMA Inboxes == Spec => [](IInv /\ LogInv /\ InboxInv)
<1>1. Init => InboxInv
  <2> SUFFICES ASSUME Init PROVE InboxInv
    OBVIOUS
  <2>1. \A s \in Session : inbox[s] = << >> /\ ~Chats(s)
    BY DEF Init, Chats
  <2> QED BY <2>1 DEF InboxInv, InboxOK, Ordered
<1> QED BY <1>1, InboxStep, Logs, PTL DEF Spec

\* What a member was sent, it was sent once and in the order of the room.
THEOREM SentInOrder == Spec => []InOrder
<1>1. InboxInv => InOrder
  BY DEF InboxInv, InboxOK, Ordered, InOrder
<1> QED BY <1>1, Inboxes, PTL

\* As long as no read fails nobody's SSL is freed while it may be written to.
LEMMA FreedStep == IInv /\ NoneFreed /\ [Next]_vars => NoneFreed'
<1> SUFFICES ASSUME IInv, NoneFreed, [Next]_vars, ~ReadMayFail, NEW t \in Session
             PROVE  p_ssl'[t] = "open"
  BY DEF NoneFreed
<1>0. p_ssl[t] = "open"
  BY DEF NoneFreed
<1>1. CASE Still
  BY <1>0, <1>1 DEF Still
<1>2. CASE Die \/ Shutdown
  BY <1>0, <1>2 DEF Die, Shutdown, client
<1>3. CASE \/ \E s \in Session, n \in RoomName :
                Create(s, n) \/ DeleteCheck(s, n) \/ JoinEnter(s, n) \/ DeleteMutex(s, n)
           \/ \E s \in Session : \/ ChatFile(s) \/ ChatSend(s)
                                 \/ LeaveRemove(s) \/ DeleteList(s)
  <2>1. UNCHANGED p_ssl
    BY <1>3 DEF Create, DeleteCheck, JoinEnter, EnterRoom, ChatFile, ChatSend,
                LeaveRemove, DeleteList, DeleteMutex, client
  <2> QED BY <1>0, <2>1
<1> QED BY <1>1, <1>2, <1>3, Steps

\* A session that stays in its room, whose log stays, has heard what it had.
LEMMA HeardSame ==
  ASSUME IInv, LogInv, NEW t \in Session, SameFor(t), Chats(t), HasHeard(t),
         inbox'[t] = inbox[t], \A q \in Room : Sent(q)' = Sent(q),
         NEW r, r = rooms_table[KeyOf[p_chat_room[t]]],
         room'[r].name = room[r].name, logs'[room[r].name] = logs[room[r].name]
  PROVE  HasHeard(t)'
<1>1. /\ rooms_table'[KeyOf[p_chat_room'[t]]] = r /\ r \in Room
  <2>1. r \in Room
    BY OwnLog
  <2> QED BY <2>1 DEF SameFor
<1>2. Sent(r)' = Sent(r)
  BY <1>1
<1>3. Elements(inbox[t])' = Elements(inbox[t])
  BY DEF Elements
<1> QED BY <1>1, <1>2, <1>3 DEF HasHeard

\* A chat in the log that is not sent yet.
LEMMA ChatFileHeard ==
  ASSUME IInv, LogInv, NEW s \in Session, ChatFile(s),
         NEW t \in Session, Chats(t)', Chats(t) => HasHeard(t)
  PROVE  HasHeard(t)'
<1>1. /\ inbox' = inbox /\ SameFor(t)
      /\ \A q \in Room : Sent(q)' = Sent(q)
  BY Unheard
<1>2. Chats(t) /\ HasHeard(t)
  BY <1>1 DEF SameFor
<1> PICK r : r = p_room[s]
  OBVIOUS
<1> PICK n : n = room[r].name
  OBVIOUS
<1>q. PICK q : q = rooms_table[KeyOf[p_chat_room[t]]]
  OBVIOUS
<1>m. PICK m : m = room[q].name
  OBVIOUS
<1> DEFINE chat == [from |-> s, n |-> Len(room[r].chats) + 1]
<1>4. /\ r \in Room /\ Live(r) /\ RoomFree(r) /\ n \in RoomName /\ pc[s] = "chat"
      /\ logs' = [logs EXCEPT ![n] = WithChat(logs[n], chat)]
      /\ \A p \in Room : room'[p].name = room[p].name
  BY ChatFileEffect DEF SameRooms
<1>5. m \in RoomName /\ q \in Room /\ q # NULL /\ Live(q) /\ logs[m] \in Seq(Chat)
  BY <1>2, <1>q, <1>m, OwnLog
<1>6. CASE m # n
  <2>1. logs'[m] = logs[m]
    BY <1>4, <1>5, <1>6 DEF IInv, TypeOK
  <2> QED BY <1>1, <1>2, <1>4, <1>5, <1>q, <1>m, <2>1, HeardSame
<1>7. CASE m = n
  <2>1. q = r
    BY <1>4, <1>5, <1>7, <1>m DEF Live
  <2>2. Sent(r) = Len(room[r].chats) /\ Len(room[r].chats) \in Nat
    BY <1>4, SentAll, SentType
  <2>3. chat \in Chat /\ chat.n = Len(room[r].chats) + 1
    <3>1. Len(room[r].chats) + 1 <= MaxChats
      BY <1>4, ChatFits
    <3> QED BY <2>2, <3>1, ConstantsOK DEF Chat
  <2>4. /\ rooms_table'[KeyOf[p_chat_room'[t]]] = r /\ Sent(r)' = Sent(r)
        /\ room'[r].name = m
    BY <1>1, <1>2, <1>4, <2>1, <1>q, <1>m DEF SameFor
  <2>5. logs'[m] = WithChat(logs[m], chat)
    BY <1>4, <1>7 DEF IInv, TypeOK
  <2> HIDE DEF chat
  <2>6. ASSUME NEW i \in DOMAIN logs'[m]
        PROVE  logs'[m][i] = chat \/ \E j \in DOMAIN logs[m] :
                                       logs'[m][i] = logs[m][j]
    <3> DEFINE new == WithChat(logs[m], chat)
               shift == Len(logs[m]) + 1 - Len(new)
    <3>1. /\ new \in Seq(Chat) /\ new[Len(new)] = chat
          /\ \A k \in 1..(Len(new) - 1) : /\ new[k] = logs[m][shift + k]
                                          /\ shift + k \in 1..Len(logs[m])
      BY <1>5, <2>3, WithChatEnd
    <3>2. new = logs'[m]
      BY <2>5
    <3> HIDE DEF new
    <3>3. i \in 1..Len(new) /\ DOMAIN logs[m] = 1..Len(logs[m])
      BY <1>5, <3>1, <3>2
    <3>4. CASE i = Len(new)
      BY <3>1, <3>2, <3>4
    <3>5. CASE i # Len(new)
      <4>1. i \in 1..(Len(new) - 1)
        BY <3>1, <3>3, <3>5
      <4>2. new[i] = logs[m][shift + i] /\ shift + i \in DOMAIN logs[m]
        BY <3>1, <3>3, <4>1
      <4> HIDE DEF shift
      <4> QED BY <3>2, <4>2
    <3> QED BY <3>4, <3>5
  <2>7. ASSUME NEW i \in DOMAIN logs'[m], logs'[m][i].from # t,
               logs'[m][i].n <= Sent(r)
        PROVE  logs'[m][i] \in Elements(inbox[t])
    <3>1. logs'[m][i] # chat
      BY <2>2, <2>3, <2>7
    <3>2. PICK j \in DOMAIN logs[m] : logs'[m][i] = logs[m][j]
      BY <2>6, <3>1
    <3> QED BY <1>2, <2>1, <2>7, <3>2, <1>q, <1>m DEF HasHeard
  <2>8. Elements(inbox[t])' = Elements(inbox[t])
    BY <1>1 DEF Elements
  <2> QED BY <2>2, <2>4, <2>7, <2>8 DEF HasHeard
<1> QED BY <1>6, <1>7

\* The chat that is sent, if no write fails.
LEMMA ChatSendHeard ==
  ASSUME IInv, LogInv, NoneFreed, ~SendMayFail, ~ReadMayFail,
         NEW s \in Session, ChatSend(s),
         NEW t \in Session, Chats(t)', Chats(t) => HasHeard(t)
  PROVE  HasHeard(t)'
<1>1. /\ p_room[s] \in Room /\ pc[s] = "said" /\ logs' = logs
      /\ rooms_table' = rooms_table /\ \A q \in Room : room'[q].name = room[q].name
  BY ChatSendEffect DEF SameRooms
<1> PICK r \in Room : r = p_room[s]
  BY <1>1
<1>p. PICK p : p = rooms_table[KeyOf[p_chat_room[t]]]
  OBVIOUS
<1>m. PICK m : m = room[p].name
  OBVIOUS
<1> DEFINE chat == [from |-> s, n |-> Len(room[r].chats)]
           others == Elements(room[r].p_users) \ {s}
<1>2. /\ Sent(r) = Len(room[r].chats) - 1
      /\ Sent(r)' = Len(room[r].chats)
      /\ \A q \in Room \ {r} : Sent(q)' = Sent(q)
      /\ SameFor(t)
  BY ChatHeard
<1>3. Chats(t) /\ HasHeard(t)
  BY <1>2 DEF SameFor
<1>4. PICK heard \in SUBSET others :
        /\ inbox' = [u \in Session |-> IF u \in heard
                                       THEN Append(inbox[u], chat)
                                       ELSE inbox[u]]
        /\ heard # others =>
             SendMayFail \/ \E u \in others : p_ssl[u] = "freed"
  BY HeardBy
<1>5. heard = others
  <2>1. \A u \in others : u \in Session
    BY DEF IInv, TypeOK, RoomStruct, Elements
  <2> QED BY <1>4, <2>1 DEF NoneFreed
<1>6. /\ p \in Room /\ t \in Elements(room[p].p_users)
      /\ logs[m] \in Seq(Chat) /\ EndsAs(logs[m], room[p].chats)
  BY <1>3, <1>p, <1>m, OwnLog
<1>7. rooms_table'[KeyOf[p_chat_room'[t]]] = p /\ room'[p].name = m
  BY <1>1, <1>2, <1>3, <1>6, <1>p, <1>m DEF SameFor
<1>8. inbox[t] \in Seq(Chat) /\ Len(room[r].chats) \in Nat
  BY SentType DEF IInv, TypeOK
<1>9. CASE p # r
  <2>1. t \notin heard
    <3>1. t \notin Elements(room[r].p_users)
      BY <1>3, <1>9, <1>p DEF IInv, Members
    <3> QED BY <1>5, <3>1
  <2>2. inbox'[t] = inbox[t]
    BY <1>4, <2>1
  <2>3. Elements(inbox[t])' = Elements(inbox[t])
    BY <2>2 DEF Elements
  <2>4. Sent(p)' = Sent(p)
    BY <1>2, <1>6, <1>9
  <2> QED BY <1>1, <1>3, <1>7, <1>p, <1>m, <2>3, <2>4 DEF HasHeard
<1>10. CASE p = r
  <2>1. Elements(inbox[t]) \subseteq Elements(inbox[t])'
        /\ (t # s => chat \in Elements(inbox[t])')
    <3>1. CASE t = s
      <4>1. inbox'[t] = inbox[t]
        BY <1>4, <3>1
      <4> QED BY <3>1, <4>1 DEF Elements
    <3>2. CASE t # s
      <4>1. t \in heard
        BY <1>5, <1>6, <1>10, <3>2
      <4>2. inbox'[t] = Append(inbox[t], chat)
        BY <1>4, <4>1
      <4>3. chat \in Chat
        <5>1. room[r].chats # << >> /\ room[r].chats \in Seq(Session)
          BY <1>1 DEF IInv, Bounds, TypeOK, RoomStruct
        <5>2. Len(room[r].chats) \in 1..MaxChats
          BY <5>1, SentType, ConstantsOK
        <5> QED BY <5>2 DEF Chat
      <4> HIDE DEF chat
      <4>4. Elements(Append(inbox[t], chat)) = Elements(inbox[t]) \cup {chat}
        BY <1>8, <4>3, AppendElements
      <4>5. Elements(inbox[t])' = Elements(Append(inbox[t], chat))
        BY <4>2 DEF Elements
      <4> QED BY <4>4, <4>5
    <3> QED BY <3>1, <3>2
  <2>2. ASSUME NEW i \in DOMAIN logs[m], logs[m][i].from # t,
               logs[m][i].n <= Len(room[r].chats)
        PROVE  logs[m][i] \in Elements(inbox[t])'
    <3>1. CASE logs[m][i].n <= Len(room[r].chats) - 1
      <4>1. logs[m][i] \in Elements(inbox[t])
        BY <1>2, <1>3, <1>10, <1>p, <1>m, <2>2, <3>1 DEF HasHeard
      <4> QED BY <2>1, <4>1
    <3>2. CASE ~(logs[m][i].n <= Len(room[r].chats) - 1)
      <4>1. logs[m][i].n = Len(room[r].chats)
        <5>1. logs[m][i].n \in Nat
          BY <1>6, ChatNumber
        <5> QED BY <1>8, <2>2, <3>2, <5>1
      <4>2. logs[m][i] = chat
        <5> PICK k : k = Len(room[r].chats) - Len(logs[m]) + i
          OBVIOUS
        <5>1. logs[m][i] = [from |-> room[r].chats[k], n |-> k]
          <6>1. i \in 1..Len(logs[m])
            BY <1>6
          <6>2. EndsAs(logs[m], room[r].chats)
            BY <1>6, <1>10
          <6> QED BY <6>1, <6>2 DEF EndsAs
        <5>2. logs[m][i].n = k
          BY <5>1
        <5>3. room[r].chats[Len(room[r].chats)] = s
          BY <1>1 DEF IInv, Bounds
        <5> QED BY <4>1, <5>1, <5>2, <5>3
      <4>3. t # s
        BY <2>2, <4>2
      <4> QED BY <2>1, <4>2, <4>3
    <3> QED BY <3>1, <3>2
  <2> QED BY <1>1, <1>2, <1>7, <1>10, <1>p, <1>m, <2>2 DEF HasHeard
<1> QED BY <1>9, <1>10

\* While no connection fails, nothing in the log is missing but what is still
\* to be sent.
LEMMA MissedStep ==
  ASSUME ~SendMayFail, ~ReadMayFail
  PROVE  IInv /\ LogInv /\ InboxInv /\ NoneFreed /\ MissedInv /\ [Next]_vars
           => MissedInv'
<1> SUFFICES ASSUME IInv, LogInv, InboxInv, NoneFreed, MissedInv, [Next]_vars,
                    NEW t \in Session, Chats(t)'
             PROVE  HasHeard(t)'
  BY DEF MissedInv
<1>0. Chats(t) => HasHeard(t)
  BY DEF MissedInv
<1>1. ASSUME \/ Still
             \/ \E s \in Session, n \in RoomName :
                  Create(s, n) \/ DeleteCheck(s, n) \/ DeleteMutex(s, n)
             \/ \E s \in Session : DeleteList(s)
      PROVE  HasHeard(t)'
  <2>1. /\ inbox' = inbox /\ SameFor(t)
        /\ \A q \in Room : Sent(q)' = Sent(q)
    BY <1>1, Unheard
  <2>2. Chats(t)
    BY <2>1 DEF SameFor
  <2> PICK q : q = rooms_table[KeyOf[p_chat_room[t]]]
    OBVIOUS
  <2> PICK m : m = room[q].name
    OBVIOUS
  <2>3. q \in Room /\ q # NULL /\ Live(q) /\ m \in RoomName
    BY <2>2, OwnLog
  <2>4. room'[q].name = room[q].name /\ logs'[m] = logs[m]
    <3>1. CASE Still
      BY <2>3, <3>1 DEF Still
    <3>2. ASSUME NEW s \in Session, NEW n \in RoomName, Create(s, n)
          PROVE  room'[q].name = room[q].name /\ logs'[m] = logs[m]
      <4> PICK r \in Room : Created(s, n, r)
        BY <3>2, CreateEffect
      <4>1. m # n /\ q # r
        BY <2>3 DEF Created, Live
      <4>2. /\ \A p \in Room \ {r} : room'[p] = room[p]
            /\ \A l \in RoomName \ {n} : logs'[l] = logs[l]
        BY DEF Created
      <4>3. room'[q] = room[q]
        BY <2>3, <4>1, <4>2
      <4>4. logs'[m] = logs[m]
        BY <2>3, <4>1, <4>2
      <4> QED BY <4>3, <4>4
    <3>3. ASSUME NEW s \in Session, NEW n \in RoomName, DeleteCheck(s, n)
          PROVE  room'[q].name = room[q].name /\ logs'[m] = logs[m]
      BY <3>3 DEF DeleteCheck
    <3>4. ASSUME NEW s \in Session, DeleteList(s)
          PROVE  room'[q].name = room[q].name /\ logs'[m] = logs[m]
      <4>1. logs' = logs
        BY <3>4 DEF DeleteList
      <4>2. room'[q].name = room[q].name
        BY <2>3, <3>4, DeleteListEffect
      <4> QED BY <4>1, <4>2
    <3>5. ASSUME NEW s \in Session, NEW n \in RoomName, DeleteMutex(s, n)
          PROVE  room'[q].name = room[q].name /\ logs'[m] = logs[m]
      <4> PICK r : r = p_room[s]
        OBVIOUS
      <4> PICK own : own = room[r].name
        OBVIOUS
      <4>1. /\ own \in RoomName /\ rooms_table[KeyOf[own]] = NULL
            /\ logs' = [logs EXCEPT ![own] = NULL] \/ logs' = logs
            /\ \A p \in Room \ {r} : room'[p] = room[p]
        BY <3>5, DeleteMutexEffect
      <4>2. m # own /\ q # r
        BY <2>3, <4>1 DEF Live
      <4> QED BY <2>3, <4>1, <4>2 DEF IInv, TypeOK
    <3> QED BY <1>1, <3>1, <3>2, <3>3, <3>4, <3>5
  <2> QED BY <1>0, <2>1, <2>2, <2>4, HeardSame
<1>2. ASSUME Die \/ Shutdown PROVE FALSE
  <2>1. Empty'
    BY <1>2, DieOK, ShutdownOK
  <2> QED BY <2>1 DEF Empty, Chats
<1>3. ASSUME NEW s \in Session, LeaveRemove(s) PROVE HasHeard(t)'
  <2>1. /\ \A q \in Room : Sent(q)' = Sent(q)
        /\ \A u \in Session \ {s} : inbox'[u] = inbox[u] /\ SameFor(u)
        /\ ~Chats(s)'
    BY <1>3, LeaveUnheard
  <2>2. t # s /\ Chats(t)
    BY <2>1 DEF SameFor
  <2> PICK q : q = rooms_table[KeyOf[p_chat_room[t]]]
    OBVIOUS
  <2>3. q \in Room
    BY <2>2, OwnLog
  <2>4. logs' = logs /\ room'[q].name = room[q].name
    BY <1>3, <2>3, LeaveRemoveEffect DEF SameRooms
  <2> QED BY <1>0, <2>1, <2>2, <2>4, HeardSame
<1>4. ASSUME NEW s \in Session, NEW n \in RoomName, JoinEnter(s, n)
      PROVE  HasHeard(t)'
  <2>1. /\ \A q \in Room : Sent(q)' = Sent(q)
        /\ \A u \in Session \ {s} : inbox'[u] = inbox[u] /\ SameFor(u)
    BY <1>4, JoinUnheard
  <2> PICK r : r = p_room[s]
    OBVIOUS
  <2> PICK log : log = logs[room[r].name]
    OBVIOUS
  <2>2. /\ logs' = logs /\ p_chat_room'[s] = n /\ r \in Room
        /\ rooms_table'[KeyOf[n]] = r
        /\ \A q \in Room : room'[q].name = room[q].name
        /\ inbox' \in {[inbox EXCEPT ![s] = seq] : seq \in
             {log} \cup (IF SendMayFail THEN {<< >>} ELSE {})}
    <3>1. /\ logs' = logs /\ p_chat_room'[s] = n /\ r \in Room
          /\ rooms_table' = rooms_table /\ rooms_table[KeyOf[n]] = r /\ SameRooms
      BY <1>4, JoinEnterEffect
    <3>2. inbox' \in {[inbox EXCEPT ![s] = seq] : seq \in
             {log} \cup (IF SendMayFail THEN {<< >>} ELSE {})}
      BY <1>4, JoinEnterEffect
    <3> QED BY <3>1, <3>2 DEF SameRooms
  <2>3. CASE t # s
    <3>1. Chats(t)
      BY <2>1, <2>3 DEF SameFor
    <3> PICK q : q = rooms_table[KeyOf[p_chat_room[t]]]
      OBVIOUS
    <3>2. q \in Room
      BY <3>1, OwnLog
    <3>3. logs' = logs /\ room'[q].name = room[q].name
      BY <2>2, <3>2
    <3> QED BY <1>0, <2>1, <2>3, <3>1, <3>3, HeardSame
  <2>4. CASE t = s
    <3>1. inbox'[s] = log
      BY <2>2 DEF IInv, TypeOK
    <3>2. \A i \in DOMAIN log : log[i] \in Elements(log)
      BY DEF Elements
    <3>3. Elements(inbox[s])' = Elements(log)
      BY <3>1 DEF Elements
    <3>4. rooms_table'[KeyOf[p_chat_room'[s]]] = r /\ logs'[room'[r].name] = log
      BY <2>2
    <3> QED BY <2>4, <3>2, <3>3, <3>4 DEF HasHeard
  <2> QED BY <2>3, <2>4
<1>5. ASSUME NEW s \in Session, ChatFile(s) PROVE HasHeard(t)'
  BY <1>0, <1>5, ChatFileHeard
<1>6. ASSUME NEW s \in Session, ChatSend(s) PROVE HasHeard(t)'
  BY <1>0, <1>6, ChatSendHeard
<1> QED BY <1>1, <1>2, <1>3, <1>4, <1>5, <1>6, Steps

\* As long as no connection fails, a member has what the log has but its own
\* chats, while nobody holds room_mutex.
THEOREM NoneMissed ==
  ASSUME ~SendMayFail, ~ReadMayFail
  PROVE  Spec => []NothingMissed
<1>1. Init => NoneFreed /\ MissedInv
  BY DEF Init, NoneFreed, MissedInv, Chats
<1>2. IInv /\ LogInv /\ MissedInv => NothingMissed
  <2> SUFFICES ASSUME IInv, LogInv, MissedInv, NEW s \in Session, NEW r \in Room,
                      s \in Elements(room[r].p_users), RoomFree(r),
                      NEW i \in DOMAIN logs[room[r].name],
                      logs[room[r].name][i].from # s
               PROVE  logs[room[r].name][i] \in Elements(inbox[s])
    BY DEF NothingMissed
  <2>1. InRoom(s, r)
    BY MemberIs
  <2> PICK n : n = room[r].name
    OBVIOUS
  <2>2. Chats(s) /\ rooms_table[KeyOf[p_chat_room[s]]] = r /\ HasHeard(s)
    BY <2>1 DEF InRoom, Live, MissedInv
  <2>3. logs[n] \in Seq(Chat) /\ EndsAs(logs[n], room[r].chats)
    BY <2>2, OwnLog
  <2>4. UpTo(logs[n], Len(room[r].chats))
    <3>1. room[r].chats \in Seq(Session)
      BY DEF IInv, TypeOK, RoomStruct
    <3> QED BY <2>3, <3>1, LogOrdered
  <2>5. Sent(r) = Len(room[r].chats)
    BY SentAll
  <2> QED BY <2>2, <2>4, <2>5 DEF HasHeard, UpTo
<1> QED BY <1>1, <1>2, FreedStep, MissedStep, Inboxes, PTL DEF Spec

---------------------------------------------------------------------------
(* The rooms are those of module ChatRoom *)

\* What has been sent in a room.
Past(r) == [i \in 1..Sent(r) |-> [from |-> room[r].chats[i], n |-> i]]

\* The conversation that module ChatRoom is shown is what has been sent.
LEMMA AtomicRoomIs ==
  ASSUME IInv, NEW k \in Key, NEW r \in Room, rooms_table[k] = r
  PROVE  /\ AtomicRoom(k) = Past(r) /\ Past(r) # NULL
         /\ Past(r) \in Seq(Chat) /\ Len(Past(r)) = Sent(r)
<1>1. /\ room[r].chats \in Seq(Session) /\ r # NULL
      /\ room[r].room_mutex \in Session \cup {NULL}
  BY ConstantsOK DEF IInv, TypeOK, RoomStruct
<1>2. /\ Len(room[r].chats) \in Nat /\ Len(room[r].chats) <= MaxChats
      /\ Sent(r) \in Nat /\ Sent(r) <= Len(room[r].chats)
  BY SentType
<1>3. ASSUME NEW i \in 1..Sent(r)
      PROVE  [from |-> room[r].chats[i], n |-> i] \in Chat
  <2>1. i \in 1..Len(room[r].chats) /\ i \in 1..MaxChats
    BY <1>2, ConstantsOK
  <2> QED BY <1>1, <2>1 DEF Chat
<1>4. Past(r) \in Seq(Chat) /\ Len(Past(r)) = Sent(r)
  BY <1>2, <1>3 DEF Past
<1>5. Past(r) # NULL
  BY <1>4, NullIsNothing
<1> DEFINE s == room[r].room_mutex
           saying == s # NULL /\ pc[s] = "said"
<1>6. Said(r) <=> saying
  <2>1. ASSUME NEW t \in Session, pc[t] = "said", p_room[t] = r PROVE saying
    <3>1. s = t
      BY <2>1, OwnStruct DEF HoldsRoom
    <3> QED BY <2>1, <3>1, ConstantsOK
  <2>2. ASSUME saying PROVE Said(r)
    <3>1. s \in Session
      BY <1>1, <2>2
    <3>2. p_room[s] = r
      BY <3>1, <2>2 DEF IInv, Locks
    <3> QED BY <2>2, <3>1, <3>2 DEF Said
  <2> QED BY <2>1, <2>2 DEF Said
<1>7. AtomicRoom(k) = IF saying THEN Front(Conversation(r)) ELSE Conversation(r)
  BY <1>1 DEF AtomicRoom
<1>8. Conversation(r) = [i \in 1..Len(room[r].chats) |->
                           [from |-> room[r].chats[i], n |-> i]]
  BY <1>1 DEF Conversation
<1> HIDE DEF saying
<1>9. CASE ~saying
  BY <1>4, <1>5, <1>6, <1>7, <1>8, <1>9 DEF Past, Sent
<1>10. CASE saying
  <2> DEFINE all == Conversation(r)
             last == Len(room[r].chats)
  <2>1. Sent(r) = last - 1 /\ last \in Nat
    BY <1>2, <1>6, <1>10 DEF Sent
  <2>2. all \in Seq([from : Session, n : Nat]) /\ Len(all) = last
    BY <1>1, <1>8
  <2>3. AtomicRoom(k) = SubSeq(all, 1, last - 1)
    BY <1>7, <1>10, <2>2 DEF Front
  <2> HIDE DEF all
  <2>4. SubSeq(all, 1, last - 1) = [i \in 1..(last - 1) |-> all[i]]
    BY <1>2, <2>1, <2>2
  <2>5. \A i \in 1..(last - 1) : all[i] = [from |-> room[r].chats[i], n |-> i]
    BY <1>8, <2>1 DEF all
  <2>6. AtomicRoom(k) = Past(r)
    BY <2>1, <2>3, <2>4, <2>5 DEF Past
  <2> QED BY <1>4, <1>5, <2>6
<1> QED BY <1>9, <1>10

\* What module ChatRoom is shown of a room of the table.
ShownAs(k, r) ==
  /\ AtomicRoom(k) = Past(r) /\ Past(r) # NULL
  /\ Past(r) \in Seq(Chat) /\ Len(Past(r)) = Sent(r)
  /\ AtomicMembers(k) = Elements(room[r].p_users)

Shown ==
  \A k \in Key :
    /\ rooms_table[k] = NULL => AtomicRoom(k) = NULL /\ AtomicMembers(k) = {}
    /\ \A r \in Room : rooms_table[k] = r => ShownAs(k, r)

\* Every key is shown as its room, before a step and after it.
LEMMA ShownOf == (IInv => Shown) /\ (IInv' => Shown')
<1>1. IInv => Shown
  <2> SUFFICES ASSUME IInv, NEW k \in Key
               PROVE  /\ rooms_table[k] = NULL =>
                           AtomicRoom(k) = NULL /\ AtomicMembers(k) = {}
                      /\ \A r \in Room : rooms_table[k] = r => ShownAs(k, r)
    BY DEF Shown
  <2>1. rooms_table[k] = NULL => AtomicRoom(k) = NULL /\ AtomicMembers(k) = {}
    BY DEF AtomicRoom, AtomicMembers
  <2>2. ASSUME NEW r \in Room, rooms_table[k] = r PROVE ShownAs(k, r)
    <3>1. AtomicMembers(k) = Elements(room[r].p_users)
      BY <2>2, ConstantsOK DEF AtomicMembers
    <3> QED BY <2>2, <3>1, AtomicRoomIs DEF ShownAs
  <2> QED BY <2>1, <2>2
<1> QED BY <1>1, PTL

\* What has been sent stays, also when a chat is added that is still to be sent.
LEMMA PastSame ==
  ASSUME IInv, NEW q \in Room, Sent(q)' = Sent(q),
         \/ room'[q].chats = room[q].chats
         \/ \E s \in Session : room'[q].chats = Append(room[q].chats, s)
  PROVE  Past(q)' = Past(q)
<1>1. /\ room[q].chats \in Seq(Session) /\ Sent(q) \in Nat
      /\ Sent(q) <= Len(room[q].chats)
  BY SentType DEF IInv, TypeOK, RoomStruct
<1>2. \A i \in 1..Sent(q) : room'[q].chats[i] = room[q].chats[i]
  BY <1>1
<1> QED BY <1>2 DEF Past

\* A key that keeps its room, its past and its members is shown the same.
LEMMA ShownSame ==
  ASSUME Shown, Shown', IInv, NEW k \in Key,
         rooms_table'[k] = rooms_table[k],
         \A q \in Room : rooms_table[k] = q =>
           /\ Past(q)' = Past(q)
           /\ Elements(room'[q].p_users) = Elements(room[q].p_users)
  PROVE  AtomicRoom(k)' = AtomicRoom(k) /\ AtomicMembers(k)' = AtomicMembers(k)
<1>1. CASE rooms_table[k] = NULL
  BY <1>1 DEF Shown
<1>2. CASE rooms_table[k] # NULL
  <2>1. rooms_table[k] \in Room
    BY <1>2 DEF IInv, TypeOK
  <2> PICK q \in Room : q = rooms_table[k]
    BY <2>1
  <2>2. ShownAs(k, q) /\ ShownAs(k, q)'
    BY DEF Shown
  <2>3. AtomicRoom(k) = Past(q) /\ AtomicRoom(k)' = Past(q)'
    BY <2>2 DEF ShownAs
  <2>4. /\ AtomicMembers(k) = Elements(room[q].p_users)
        /\ AtomicMembers(k)' = Elements(room'[q].p_users)
    BY <2>2 DEF ShownAs
  <2> QED BY <2>3, <2>4
<1> QED BY <1>1, <1>2

\* The steps that ChatRoom does not see: those within a join, a leave or a
\* deletion, and the line of a chat that is still to be sent.
LEMMA Stutters ==
  ASSUME IInv, IInv',
         \/ Still
         \/ \E s \in Session : ChatFile(s) \/ DeleteList(s)
         \/ \E s \in Session, n \in RoomName : DeleteMutex(s, n)
  PROVE  UNCHANGED Abstract!vars
<1>1. inbox' = inbox /\ \A q \in Room : Sent(q)' = Sent(q)
  BY Unheard
<1>2. /\ rooms_table' = rooms_table
      /\ \A q \in Room :
           /\ room'[q].p_users = room[q].p_users
           /\ \/ room'[q].chats = room[q].chats
              \/ \E s \in Session : room'[q].chats = Append(room[q].chats, s)
  <2>1. CASE Still
    BY <2>1 DEF Still
  <2>2. ASSUME NEW s \in Session, ChatFile(s)
        PROVE  /\ rooms_table' = rooms_table
               /\ \A q \in Room :
                    /\ room'[q].p_users = room[q].p_users
                    /\ \/ room'[q].chats = room[q].chats
                       \/ room'[q].chats = Append(room[q].chats, s)
    <3>1. p_room[s] \in Room
      BY <2>2, ChatFileEffect
    <3> PICK r \in Room : r = p_room[s]
      BY <3>1
    <3>2. /\ room'[r].p_users = room[r].p_users
          /\ room'[r].chats = Append(room[r].chats, s)
          /\ \A q \in Room \ {r} : room'[q] = room[q]
          /\ rooms_table' = rooms_table
      BY <2>2, ChatFileEffect
    <3> QED BY <3>2
  <2>3. ASSUME NEW s \in Session, DeleteList(s)
        PROVE  /\ rooms_table' = rooms_table
               /\ \A q \in Room : /\ room'[q].p_users = room[q].p_users
                                  /\ room'[q].chats = room[q].chats
    BY <2>3, DeleteListEffect
  <2>4. ASSUME NEW s \in Session, NEW n \in RoomName, DeleteMutex(s, n)
        PROVE  /\ rooms_table' = rooms_table
               /\ \A q \in Room : /\ room'[q].p_users = room[q].p_users
                                  /\ room'[q].chats = room[q].chats
    BY <2>4, DeleteMutexEffect
  <2> QED BY <2>1, <2>2, <2>3, <2>4
<1>3. \A q \in Room : Past(q)' = Past(q)
  BY <1>1, <1>2, PastSame
<1>4. \A k \in Key : /\ AtomicRoom(k)' = AtomicRoom(k)
                     /\ AtomicMembers(k)' = AtomicMembers(k)
  BY <1>2, <1>3, ShownOf, ShownSame
<1> QED BY <1>1, <1>4 DEF Abstract!vars

\* The rooms of ChatRoom are those of the table.
LEMMA RoomsShown == ASSUME IInv PROVE Abstract!Rooms = TableKeys
<1>1. ASSUME NEW k \in Key PROVE AtomicRoom(k) = NULL <=> rooms_table[k] = NULL
  <2>1. rooms_table[k] \in Room \cup {NULL}
    BY DEF IInv, TypeOK
  <2> QED BY <2>1, ShownOf DEF Shown, ShownAs
<1> QED BY <1>1 DEF Abstract!Rooms, TableKeys

\* A room that is created.
LEMMA CreateRefines ==
  ASSUME IInv, IInv', NEW s \in Session, NEW n \in RoomName, Create(s, n)
  PROVE  Abstract!Create(KeyOf[n])
<1> PICK k \in Key : k = KeyOf[n]
  OBVIOUS
<1> PICK r \in Room : Created(s, n, r)
  BY CreateEffect
<1>1. inbox' = inbox /\ \A q \in Room : Sent(q)' = Sent(q)
  BY Unheard
<1>2. ASSUME NEW j \in Key \ {k}
      PROVE  /\ AtomicRoom(j)' = AtomicRoom(j)
             /\ AtomicMembers(j)' = AtomicMembers(j)
  <2>1. rooms_table'[j] = rooms_table[j] /\ rooms_table[j] # r
    BY DEF Created
  <2>2. ASSUME NEW q \in Room, rooms_table[j] = q
        PROVE  /\ Past(q)' = Past(q)
               /\ Elements(room'[q].p_users) = Elements(room[q].p_users)
    <3>0. q \in Room \ {r}
      BY <2>1, <2>2
    <3>1. room'[q] = room[q]
      BY <3>0 DEF Created
    <3> QED BY <1>1, <3>1, PastSame
  <2> QED BY <2>1, <2>2, ShownOf, ShownSame
<1>3. AtomicRoom(k) = NULL /\ AtomicMembers(k) = {}
  BY ShownOf DEF Shown, Created
<1>4. AtomicRoom(k)' = << >> /\ AtomicMembers(k)' = {}
  <2>1. /\ rooms_table'[k] = r /\ room'[r].p_users = << >> /\ room[r].chats = << >>
    BY DEF Created
  <2>2. ShownAs(k, r)'
    BY <2>1, ShownOf DEF Shown
  <2>3. /\ AtomicRoom(k)' = Past(r)' /\ Past(r)' \in Seq(Chat)
        /\ Len(Past(r)') = Sent(r)'
        /\ AtomicMembers(k)' = Elements(room'[r].p_users)
    BY <2>2 DEF ShownAs
  <2>4. Sent(r)' = 0
    BY <1>1, <2>1, SentType
  <2>5. Elements(room'[r].p_users) = {}
    BY <2>1 DEF Elements
  <2> QED BY <2>3, <2>4, <2>5
<1>5. Abstract!Rooms = TableKeys /\ k \notin TableKeys
  BY RoomsShown DEF TableKeys, Created
<1>6. Cardinality(TableKeys) < MaxRooms
  <2>1. Cardinality(TableKeys) \in Nat /\ Cardinality(OutOfTable) \in Nat
    BY ConstantsOK, FS_Subset, FS_CardinalityType DEF IInv, Counts, TableKeys
  <2>2. room_count = Cardinality(TableKeys) + Cardinality(OutOfTable)
    BY DEF IInv, Counts
  <2>3. room_count < MaxRooms
    BY DEF Created
  <2> QED BY <2>1, <2>2, <2>3, ConstantsOK
<1>7. /\ [j \in Key |-> AtomicRoom(j)]'
           = [[j \in Key |-> AtomicRoom(j)] EXCEPT ![k] = << >>]
      /\ [j \in Key |-> AtomicMembers(j)]' = [j \in Key |-> AtomicMembers(j)]
  BY <1>2, <1>3, <1>4
<1>8. Abstract!Cardinality(TableKeys) = Cardinality(TableKeys)
  BY DEF Cardinality, Abstract!Cardinality
<1> QED BY <1>1, <1>5, <1>6, <1>7, <1>8 DEF Abstract!Create

\* A room that is deleted: it leaves the table when it has no members.
LEMMA DeleteRefines ==
  ASSUME IInv, IInv', NEW s \in Session, NEW n \in RoomName, DeleteCheck(s, n)
  PROVE  Abstract!Delete(KeyOf[n])
<1> PICK k \in Key : k = KeyOf[n]
  OBVIOUS
<1>1. inbox' = inbox /\ \A q \in Room : Sent(q)' = Sent(q)
  BY Unheard
<1>2. /\ rooms_table[k] \in Room /\ rooms_table[k] # NULL
      /\ Elements(room[rooms_table[k]].p_users) = {}
      /\ room' = room /\ rooms_table'[k] = NULL
      /\ \A j \in Key \ {k} : rooms_table'[j] = rooms_table[j]
  BY DeleteCheckEffect
<1>3. \A q \in Room : Past(q)' = Past(q)
  BY <1>1, <1>2, PastSame
<1>4. \A j \in Key \ {k} : /\ AtomicRoom(j)' = AtomicRoom(j)
                           /\ AtomicMembers(j)' = AtomicMembers(j)
  BY <1>2, <1>3, ShownOf, ShownSame
<1>5. AtomicMembers(k) = {}
  BY <1>2, ShownOf DEF Shown, ShownAs
<1>6. AtomicRoom(k)' = NULL /\ AtomicMembers(k)' = {}
  BY <1>2, ShownOf DEF Shown
<1>7. Abstract!Rooms = TableKeys /\ k \in TableKeys
  BY <1>2, RoomsShown DEF TableKeys
<1>8. /\ [j \in Key |-> AtomicRoom(j)]'
           = [[j \in Key |-> AtomicRoom(j)] EXCEPT ![k] = NULL]
      /\ [j \in Key |-> AtomicMembers(j)]' = [j \in Key |-> AtomicMembers(j)]
  BY <1>4, <1>5, <1>6
<1> QED BY <1>1, <1>5, <1>7, <1>8 DEF Abstract!Delete

\* The log that a newcomer is sent is an end of what has been sent.
LEMMA LogIsPast ==
  ASSUME IInv, LogInv, NEW k \in Key, NEW r \in Room,
         rooms_table[k] = r, RoomFree(r)
  PROVE  /\ logs[room[r].name] \in Abstract!Ends(Past(r))
         /\ << >> \in Abstract!Ends(Past(r))
         /\ logs[room[r].name] = << >> => Past(r) = << >>
<1> DEFINE all == Past(r)
           log == logs[room[r].name]
           chats == room[r].chats
<1>1. /\ log \in Seq(Chat) /\ chats \in Seq(Session) /\ EndsAs(log, chats)
  BY TableRoom, ConstantsOK DEF LogInv
<1>2. /\ all = [i \in 1..Len(chats) |-> [from |-> chats[i], n |-> i]]
      /\ all \in Seq(Chat)
  BY SentAll, AtomicRoomIs DEF Past
<1>3. chats # << >> => log # << >>
  BY <1>1 DEF EndsAs
<1> HIDE KeyType DEF all, log, chats
<1>4. /\ Len(all) = Len(chats) /\ Len(log) <= Len(all)
      /\ log = SubSeq(all, Len(all) - Len(log) + 1, Len(all))
  BY <1>1, <1>2, LogIsEnd
<1>5. log \in Abstract!Ends(all)
  <2> PICK i : i = Len(all) - Len(log) + 1
    OBVIOUS
  <2>1. i \in 1..(Len(all) + 1)
    BY <1>1, <1>2, <1>4
  <2> QED BY <1>4, <2>1 DEF Abstract!Ends
<1>6. << >> \in Abstract!Ends(all)
  <2>1. SubSeq(all, Len(all) + 1, Len(all)) = << >>
    BY <1>2
  <2>2. Len(all) + 1 \in 1..(Len(all) + 1)
    BY <1>2
  <2> QED BY <2>1, <2>2 DEF Abstract!Ends
<1>7. log = << >> => all = << >>
  BY <1>1, <1>2, <1>3, <1>4
<1> QED BY <1>5, <1>6, <1>7 DEF all, log

\* A room that is live is in the table.
LEMMA LiveKey ==
  ASSUME IInv, NEW r \in Room, Live(r)
  PROVE  \E k \in Key : rooms_table[k] = r
<1>1. room[r].name \in RoomName
  BY DEF IInv, Structs, Live
<1> QED BY <1>1, KeyType DEF Live

\* The table has a room once.
LEMMA OtherKey ==
  ASSUME IInv, NEW k \in Key, NEW r \in Room, rooms_table[k] = r
  PROVE  \A j \in Key \ {k} : rooms_table[j] # r
<1>1. r # NULL
  BY ConstantsOK
<1> QED BY <1>1, TableRoom

\* A session joins while nobody holds room_mutex: all that is in the log has
\* been sent, and what follows it will be sent to the newcomer too.
LEMMA JoinRefines ==
  ASSUME IInv, IInv', LogInv, NEW s \in Session, NEW n \in RoomName, JoinEnter(s, n)
  PROVE  Abstract!Join(s, KeyOf[n])
<1> PICK k \in Key : k = KeyOf[n]
  OBVIOUS
<1>1. p_room[s] \in Room
  BY JoinEnterEffect
<1> PICK r \in Room : r = p_room[s]
  BY <1>1
<1> PICK file : file = logs[room[r].name]
  OBVIOUS
<1>2. /\ rooms_table[k] = r /\ RoomFree(r) /\ ~Chats(s)
      /\ room'[r].p_users = Append(room[r].p_users, s)
      /\ room'[r].chats = room[r].chats
      /\ \A q \in Room \ {r} : room'[q] = room[q]
      /\ inbox' \in {[inbox EXCEPT ![s] = log] :
                       log \in {file} \cup (IF SendMayFail THEN {<< >>} ELSE {})}
      /\ rooms_table' = rooms_table
  BY JoinEnterEffect
<1>3. r # NULL /\ room[r].p_users \in Seq(Session)
  BY ConstantsOK DEF IInv, TypeOK, RoomStruct
<1>4. \A q \in Room : Past(q)' = Past(q)
  BY <1>2, JoinUnheard, PastSame
<1>5. ASSUME NEW j \in Key \ {k}
      PROVE  /\ AtomicRoom(j)' = AtomicRoom(j)
             /\ AtomicMembers(j)' = AtomicMembers(j)
  <2>1. rooms_table[j] # r
    BY <1>2, OtherKey
  <2> QED BY <1>2, <1>4, <2>1, ShownOf, ShownSame
<1>6. ShownAs(k, r) /\ ShownAs(k, r)'
  BY <1>2, ShownOf DEF Shown
<1>7. AtomicRoom(k) = Past(r) /\ AtomicRoom(k)' = Past(r) /\ Past(r) # NULL
  BY <1>4, <1>6 DEF ShownAs
<1>8. AtomicMembers(k)' = AtomicMembers(k) \cup {s}
  <2>1. Elements(Append(room[r].p_users, s)) = Elements(room[r].p_users) \cup {s}
    BY <1>3, AppendElements
  <2> QED BY <1>2, <1>6, <2>1 DEF ShownAs
<1>9. ~Abstract!Member(s)
  <2> SUFFICES ASSUME NEW j \in Key PROVE s \notin AtomicMembers(j)
    BY DEF Abstract!Member
  <2>1. CASE rooms_table[j] = NULL
    BY <2>1, ShownOf DEF Shown
  <2>2. CASE rooms_table[j] # NULL
    <3>1. rooms_table[j] \in Room
      BY <2>2 DEF IInv, TypeOK
    <3>2. s \notin Elements(room[rooms_table[j]].p_users)
      BY <1>2, <3>1 DEF IInv, Members
    <3> QED BY <3>1, <3>2, ShownOf DEF Shown, ShownAs
  <2> QED BY <2>1, <2>2
<1>10. k \in Abstract!Rooms
  BY <1>2, <1>3, RoomsShown DEF TableKeys
<1>11. \E log \in Abstract!Ends(Past(r)) :
         /\ log = << >> => SendMayFail \/ Past(r) = << >>
         /\ inbox' = [inbox EXCEPT ![s] = log]
  BY <1>2, LogIsPast
<1>12. /\ [j \in Key |-> AtomicRoom(j)]' = [j \in Key |-> AtomicRoom(j)]
       /\ [j \in Key |-> AtomicMembers(j)]'
            = [[j \in Key |-> AtomicMembers(j)]
                 EXCEPT ![k] = AtomicMembers(k) \cup {s}]
  BY <1>5, <1>7, <1>8
<1>13. Abstract!Join(s, k)
  BY <1>7, <1>9, <1>10, <1>11, <1>12 DEF Abstract!Join
<1> QED BY <1>13

\* A member leaves.
LEMMA LeaveRefines ==
  ASSUME IInv, IInv', NEW s \in Session, LeaveRemove(s)
  PROVE  \E k \in Key : Abstract!Leave(s, k)
<1>1. p_room[s] \in Room
  BY LeaveRemoveEffect
<1> PICK r \in Room : r = p_room[s]
  BY <1>1
<1>0. Live(r)
  BY LeaveRemoveEffect
<1>k. PICK k \in Key : rooms_table[k] = r
  BY <1>0, LiveKey
<1>2. /\ s \in Elements(room[r].p_users)
      /\ Elements(room'[r].p_users) = Elements(room[r].p_users) \ {s}
      /\ room'[r].chats = room[r].chats
      /\ \A q \in Room \ {r} : room'[q] = room[q]
      /\ inbox' = [inbox EXCEPT ![s] = << >>]
      /\ rooms_table' = rooms_table
  BY LeaveRemoveEffect
<1>4. \A q \in Room : Past(q)' = Past(q)
  BY <1>2, LeaveUnheard, PastSame
<1>5. ASSUME NEW j \in Key \ {k}
      PROVE  /\ AtomicRoom(j)' = AtomicRoom(j)
             /\ AtomicMembers(j)' = AtomicMembers(j)
  <2>1. rooms_table[j] # r
    BY <1>k, OtherKey
  <2> QED BY <1>2, <1>4, <1>k, <2>1, ShownOf, ShownSame
<1>6. ShownAs(k, r) /\ ShownAs(k, r)'
  BY <1>2, <1>k, ShownOf DEF Shown
<1>7. /\ AtomicRoom(k)' = AtomicRoom(k) /\ s \in AtomicMembers(k)
      /\ AtomicMembers(k)' = AtomicMembers(k) \ {s}
  BY <1>2, <1>4, <1>6 DEF ShownAs
<1>8. /\ [j \in Key |-> AtomicRoom(j)]' = [j \in Key |-> AtomicRoom(j)]
      /\ [j \in Key |-> AtomicMembers(j)]'
           = [[j \in Key |-> AtomicMembers(j)]
                EXCEPT ![k] = AtomicMembers(k) \ {s}]
  BY <1>5, <1>7
<1>9. Abstract!Leave(s, k)
  BY <1>2, <1>7, <1>8 DEF Abstract!Leave
<1> QED BY <1>9

\* What has been sent when a broadcast ends is one chat more, the sender's.
LEMMA PastLonger ==
  ASSUME IInv, NEW s \in Session, ChatSend(s), NEW r \in Room, p_room[s] = r
  PROVE  /\ Past(r)' = Append(Past(r), [from |-> s, n |-> Sent(r) + 1])
         /\ Sent(r) + 1 = Len(room[r].chats)
<1> DEFINE k == Sent(r)
           chats == room[r].chats
           chat == [from |-> s, n |-> k + 1]
<1>1. /\ Sent(r) = Len(chats) - 1 /\ Sent(r)' = Len(chats)
      /\ room'[r].chats = chats /\ pc[s] = "said"
  <2>1. Sent(r) = Len(chats) - 1 /\ Sent(r)' = Len(chats)
    BY ChatHeard
  <2>2. room'[r].chats = chats /\ pc[s] = "said"
    BY ChatSendEffect
  <2> QED BY <2>1, <2>2
<1>2. k \in Nat /\ Len(chats) = k + 1 /\ chats[k + 1] = s
  BY <1>1, SentType DEF IInv, Bounds
<1>3. Past(r) = [i \in 1..k |-> [from |-> chats[i], n |-> i]]
  BY DEF Past
<1>4. Past(r)' = [i \in 1..(k + 1) |-> [from |-> chats[i], n |-> i]]
  BY <1>1, <1>2 DEF Past
<1>5. chats \in Seq(Session)
  BY DEF IInv, TypeOK, RoomStruct
<1> HIDE DEF k, chats
<1>6. Past(r) \in Seq([from : Session, n : Nat]) /\ Len(Past(r)) = k
  <2>1. \A i \in 1..k : chats[i] \in Session
    BY <1>2, <1>5
  <2> QED BY <1>2, <1>3, <2>1
<1>7. Append(Past(r), chat) = [i \in 1..(k + 1) |-> IF i <= k THEN Past(r)[i] ELSE chat]
  BY <1>2, <1>6
<1>8. \A i \in 1..(k + 1) :
        (IF i <= k THEN Past(r)[i] ELSE chat) = [from |-> chats[i], n |-> i]
  BY <1>2, <1>3
<1>9. Past(r)' = Append(Past(r), chat)
  BY <1>4, <1>7, <1>8
<1> QED BY <1>2, <1>9 DEF k, chats

\* A chat takes place when its broadcast ends: it is added to what has been
\* sent, and those who hear it, all if no connection fails, are the members.
LEMMA ChatRefines ==
  ASSUME IInv, IInv', NoneFreed, NEW s \in Session, ChatSend(s)
  PROVE  \E k \in Key : Abstract!Chat(s, k)
<1>1. p_room[s] \in Room
  BY ChatSendEffect
<1> PICK r \in Room : r = p_room[s]
  BY <1>1
<1>0. Live(r)
  BY ChatSendEffect
<1>k. PICK k \in Key : rooms_table[k] = r
  BY <1>0, LiveKey
<1>2. /\ pc[s] = "said"
      /\ room'[r].p_users = room[r].p_users
      /\ room'[r].chats = room[r].chats
      /\ \A q \in Room \ {r} : room'[q] = room[q]
      /\ rooms_table' = rooms_table
  BY ChatSendEffect
<1> PICK chat : chat = [from |-> s, n |-> Sent(r) + 1]
  OBVIOUS
<1> PICK members : members = Elements(room[r].p_users)
  OBVIOUS
<1>4. Past(r)' = Append(Past(r), chat) /\ Sent(r) + 1 = Len(room[r].chats)
  BY PastLonger
<1>5. ASSUME NEW j \in Key \ {k}
      PROVE  /\ AtomicRoom(j)' = AtomicRoom(j)
             /\ AtomicMembers(j)' = AtomicMembers(j)
  <2>1. rooms_table[j] # r
    BY <1>k, OtherKey
  <2>2. \A q \in Room \ {r} : Past(q)' = Past(q)
    BY <1>2, ChatHeard, PastSame
  <2> QED BY <1>2, <1>k, <2>1, <2>2, ShownOf, ShownSame
<1>6. ShownAs(k, r) /\ ShownAs(k, r)'
  BY <1>2, <1>k, ShownOf DEF Shown
<1>7. /\ AtomicRoom(k)' = Append(AtomicRoom(k), chat)
      /\ AtomicMembers(k) = members /\ AtomicMembers(k)' = members
      /\ Len(AtomicRoom(k)) = Sent(r)
  BY <1>2, <1>4, <1>6 DEF ShownAs
<1>8. s \in members
  BY <1>2, OwnStruct
<1>9. \E heard \in SUBSET (members \ {s}) :
        /\ ~(SendMayFail \/ ReadMayFail) => heard = members \ {s}
        /\ inbox' = [t \in Session |-> IF t \in heard THEN Append(inbox[t], chat)
                                                      ELSE inbox[t]]
  <2>1. PICK heard \in SUBSET (Elements(room[r].p_users) \ {s}) :
          /\ inbox' = [t \in Session |->
                         IF t \in heard
                         THEN Append(inbox[t], [from |-> s, n |-> Len(room[r].chats)])
                         ELSE inbox[t]]
          /\ heard # Elements(room[r].p_users) \ {s} =>
               SendMayFail \/ \E t \in Elements(room[r].p_users) \ {s} :
                                p_ssl[t] = "freed"
    BY HeardBy
  <2>2. \A t \in members : t \in Session
    BY DEF IInv, TypeOK, RoomStruct, Elements
  <2>3. ~(SendMayFail \/ ReadMayFail) => heard = members \ {s}
    BY <2>1, <2>2 DEF NoneFreed
  <2> QED BY <1>4, <2>1, <2>3
<1>10. /\ [j \in Key |-> AtomicRoom(j)]'
            = [[j \in Key |-> AtomicRoom(j)]
                 EXCEPT ![k] = Append(AtomicRoom(k), chat)]
       /\ [j \in Key |-> AtomicMembers(j)]'
            = [j \in Key |-> AtomicMembers(j)]
  BY <1>5, <1>7
<1>11. Abstract!Chat(s, k)
  <2> DEFINE conversation == [j \in Key |-> AtomicRoom(j)]
             membership == [j \in Key |-> AtomicMembers(j)]
  <2>1. /\ conversation[k] = AtomicRoom(k) /\ membership[k] = members
        /\ chat = [from |-> s, n |-> Len(conversation[k]) + 1]
    BY <1>7
  <2>2. /\ conversation' = [conversation EXCEPT ![k] = Append(conversation[k], chat)]
        /\ membership' = membership
    BY <1>10, <2>1
  <2> HIDE DEF conversation, membership
  <2> DEFINE Happens(new, in) ==
               /\ s \in in
               /\ conversation' = [conversation EXCEPT ![k] = Append(conversation[k], new)]
               /\ \E heard \in SUBSET (in \ {s}) :
                    /\ ~(SendMayFail \/ ReadMayFail) => heard = in \ {s}
                    /\ inbox' = [t \in Session |-> IF t \in heard
                                                   THEN Append(inbox[t], new)
                                                   ELSE inbox[t]]
               /\ membership' = membership
  <2>3. Happens(chat, members)
    BY <1>8, <1>9, <2>2
  <2> HIDE DEF Happens
  <2>4. Happens([from |-> s, n |-> Len(conversation[k]) + 1], membership[k])
    BY <2>1, <2>3
  <2> QED BY <2>4 DEF Abstract!Chat, Happens, conversation, membership
<1> QED BY <1>11

\* The end of the process, by a crash or by a shutdown when all have left.
LEMMA EndRefines ==
  ASSUME IInv, IInv', InboxInv, Die \/ Shutdown
  PROVE  Abstract!End
<1>1. \A k \in Key : rooms_table'[k] = NULL
  BY DEF Die, Shutdown
<1>2. \A k \in Key : AtomicRoom(k)' = NULL /\ AtomicMembers(k)' = {}
  BY <1>1, ShownOf DEF Shown
<1>3. inbox' = [s \in Session |-> << >>]
  <2>1. CASE Die  BY <2>1 DEF Die
  <2>2. CASE Shutdown
    <3>1. inbox' = inbox /\ \A s \in Session : pc[s] = "out"
      BY <2>2 DEF Shutdown, client
    <3>2. \A s \in Session : inbox[s] = << >>
      BY <3>1, AllOut DEF InboxInv, InboxOK
    <3> QED BY <3>1, <3>2 DEF IInv, TypeOK
  <2> QED BY <2>1, <2>2
<1> QED BY <1>2, <1>3 DEF Abstract!End

\* The rooms look as if joins, chats, leaves, creations and deletions each
\* happened at once: every step is one of module ChatRoom, or changes nothing
\* that it shows.
THEOREM ImplementsRooms == Spec => ImplementsChatRoom
<1>1. Init => Abstract!Init /\ NoneFreed
  <2> SUFFICES ASSUME Init PROVE Abstract!Init /\ NoneFreed
    OBVIOUS
  <2>1. \A k \in Key : AtomicRoom(k) = NULL /\ AtomicMembers(k) = {}
    BY DEF Init, AtomicRoom, AtomicMembers
  <2> QED BY <2>1 DEF Init, NoneFreed, Abstract!Init
<1>2. /\ IInv /\ IInv' /\ LogInv /\ InboxInv /\ NoneFreed /\ [Next]_vars
      => [Abstract!Next]_(Abstract!vars)
  <2> SUFFICES ASSUME IInv, IInv', LogInv, InboxInv, NoneFreed, [Next]_vars
               PROVE  Abstract!Next \/ UNCHANGED Abstract!vars
    OBVIOUS
  <2>1. CASE \/ Still
             \/ \E s \in Session : ChatFile(s) \/ DeleteList(s)
             \/ \E s \in Session, n \in RoomName : DeleteMutex(s, n)
    BY <2>1, Stutters
  <2>2. CASE Die \/ Shutdown
    BY <2>2, EndRefines DEF Abstract!Next
  <2>3. CASE \E s \in Session, n \in RoomName : Create(s, n) \/ DeleteCheck(s, n)
    BY <2>3, CreateRefines, DeleteRefines DEF Abstract!Next
  <2>4. CASE \E s \in Session, n \in RoomName : JoinEnter(s, n)
    BY <2>4, JoinRefines DEF Abstract!Next
  <2>5. CASE \E s \in Session : ChatSend(s) \/ LeaveRemove(s)
    BY <2>5, ChatRefines, LeaveRefines DEF Abstract!Next
  <2> QED BY <2>1, <2>2, <2>3, <2>4, <2>5, Steps
<1> QED BY <1>1, <1>2, FreedStep, Inboxes, PTL
        DEF Spec, ImplementsChatRoom, Abstract!Spec
=============================================================================
