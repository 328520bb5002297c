----------------------------- MODULE ClientProofs -----------------------------
(***************************************************************************)
(* Theorems about module Client, for every set of texts and every bound:   *)
(* its type invariant, that client and server agree, that the monitor      *)
(* lives, and that a chat is hidden only when an equal one was printed.    *)
(***************************************************************************)
EXTENDS Client, TLAPS

---------------------------------------------------------------------------
(* The inductive invariant *)

\* What the server sends, and what reads leave of it.
Packet ==
  {Ack(r) : r \in Commands \cup {"quit"}} \cup {Reject(r) : r \in Commands}
    \cup {Fail, Data} \cup {Update(n) : n \in Nat} \cup {<<"rest", b>> : b \in BOOLEAN}

\* What the client sends.
Request == Commands \cup {"chat", "quit"}

Types ==
  /\ status \in {"connected", "logged_in", "chatting"}
  /\ session \in {"connected", "logged_in", "chatting", "closed"}
  /\ monitor \in {"select", "ready", "dead"}
  /\ monitor_running \in BOOLEAN /\ shutdown_event \in BOOLEAN
  /\ pc \in {"idle", "prompt", "wait", "collect", "stuck", "postloop", "join", "quit",
             "done"}
  /\ cmd \in Commands \cup {NULL}
  /\ received \in Seq(Packet) /\ toClient \in Seq(Packet)
  /\ toServer \in Seq(Request)
  /\ misread \in Nat
  /\ sent \in Seq(Text) /\ last_msg_recvd \in Text \cup {NULL}
  /\ shown \subseteq DOMAIN sent

\* A command is only sent in the state that allows it, and nothing follows a quit.
Control ==
  /\ pc = "prompt" => cmd \in Prompting
  /\ pc \in {"prompt", "wait", "collect"} => cmd \in Commands /\ Allowed(cmd)
  /\ pc \in {"wait", "collect"} => (pc = "collect" <=> cmd \in {"list", "join"})
  /\ \A i \in DOMAIN toServer :
       toServer[i] = "quit" => pc \in {"quit", "done"} /\ i = Len(toServer)
  /\ pc # "collect" => received = << >>
  /\ pc \in {"join", "quit", "done"} => ~monitor_running

IsUpdate(p) == p[1] = "update"

\* Chats are on the way in the order in which they were sent.
Numbered ==
  /\ \A i \in DOMAIN toClient : IsUpdate(toClient[i]) => toClient[i][2] \in DOMAIN sent
  /\ \A i \in DOMAIN received : IsUpdate(received[i]) => received[i][2] \in DOMAIN sent
  /\ \A i, j \in DOMAIN toClient :
       i < j /\ IsUpdate(toClient[i]) /\ IsUpdate(toClient[j])
         => toClient[i][2] < toClient[j][2]

\* The client sends its quit in any case, the server a second answer.
Limits ==
  /\ pc \notin {"quit", "done"} => Len(toServer) <= MaxInFlight
  /\ Len(toServer) <= MaxInFlight + 1 /\ Len(toClient) <= MaxInFlight + 1
  /\ \A i \in DOMAIN toClient : toClient[i][1] = "rest" => i = 1

AllUpdates(seq, n) == \A i \in 1..n : IsUpdate(seq[i])
AllChats(n) == \A i \in 1..n : toServer[i] = "chat"
Streams == session = "chatting"

\* No request: the client's chats are on the way there, those of others here.
Resting ==
  /\ status = session
  /\ AllChats(Len(toServer)) /\ AllUpdates(toClient, Len(toClient))
  /\ toServer # << >> \/ toClient # << >> => Streams

\* A command is on its way, behind chats.
Asked ==
  /\ status = session /\ received = << >>
  /\ toServer # << >> /\ toServer[Len(toServer)] = cmd
  /\ AllChats(Len(toServer) - 1) /\ AllUpdates(toClient, Len(toClient))
  /\ Len(toServer) > 1 \/ toClient # << >> => Streams

Answers(p) == p = Ack(cmd) \/ (cmd # "leave" /\ p = Reject(cmd))

\* Its answer is on the way, behind chats only if the command is a leave.
Told ==
  /\ pc = "wait" /\ toServer = << >> /\ toClient # << >> /\ ~Streams
  /\ LET answer == toClient[Len(toClient)]
     IN  Answers(answer) /\ session = StatusAfter(answer)
  /\ AllUpdates(toClient, Len(toClient) - 1)
  /\ Len(toClient) > 1 => cmd = "leave"

\* The answer of a list or of a join comes first; chats follow that of a join.
Telling ==
  /\ pc = "collect" /\ toServer = << >> /\ received \o toClient # << >>
  /\ LET answer == IF received # << >> THEN received[1] ELSE toClient[1]
     IN  Answers(answer) /\ session = StatusAfter(answer)
  /\ \A i \in DOMAIN received : IsUpdate(received[i]) => Streams
  /\ \A i \in DOMAIN toClient : IsUpdate(toClient[i]) => Streams

\* No chat that can be decoded is lost: it is printed, repeats one that is, or
\* is still to be read.
Repeated(n) == \E m \in shown : m < n /\ sent[m] = sent[n]
Accounted ==
  \A n \in DOMAIN sent :
    \/ n \in shown \/ Repeated(n) \/ sent[n] \in Undecodable
    \/ \E i \in DOMAIN toClient : toClient[i] = Update(n)
    \/ \E i \in DOMAIN received : received[i] = Update(n)

\* The last chat printed is older than all that are on the way.
LastShown ==
  last_msg_recvd # NULL =>
    \E m \in shown :
      /\ sent[m] = last_msg_recvd
      /\ \A i \in DOMAIN toClient : IsUpdate(toClient[i]) => m < toClient[i][2]

InSync ==
  /\ pc \in {"idle", "prompt", "postloop", "join"} => Resting
  /\ pc \in {"wait", "collect"} => Asked \/ Told \/ Telling
  /\ Accounted

\* Once the connection is gone there is nothing that a read of one byte could take.
Drained ==
  /\ ~Awaiting /\ status # "chatting" => toClient = << >>
  /\ status = "chatting" =>
       \A i \in DOMAIN toClient : toClient[i] = Ack("leave") => i = Len(toClient)
  /\ pc = "wait" /\ cmd # "leave" =>
       Len(toClient) <= 1 /\ \A i \in DOMAIN toClient : toClient[i][1] \in {"ack", "reject"}

\* Until a command misreads its answer or ends with an exception, and until the
\* client quits.
Sync ==
  misread = 0 /\ pc \notin {"quit", "done", "stuck"} =>
    IF Closed THEN Drained ELSE InSync

IInv == Types /\ Control /\ Numbered /\ Limits /\ LastShown /\ Sync /\ MonitorLives
---------------------------------------------------------------------------
(* Packets *)

\* What the kinds of packets have in common.
LEMMA PacketFacts ==
  /\ \A p \in Packet : IsUpdate(p) => p[2] \in Nat /\ p = Update(p[2])
  /\ \A n \in Nat : /\ Update(n) \in Packet /\ IsUpdate(Update(n))
                    /\ Update(n)[2] = n /\ Update(n)[1] # "rest"
  /\ \A c \in Commands \cup {"quit"} : Ack(c) \in Packet /\ Ack(c)[1] = "ack"
  /\ \A c \in Commands : Reject(c) \in Packet /\ Reject(c)[1] = "reject"
  /\ Fail \in Packet /\ Fail[1] = "reject"
  /\ Data \in Packet /\ Data[1] = "data"
<1>1. \A n \in Nat : /\ Update(n) \in Packet /\ IsUpdate(Update(n))
                     /\ Update(n)[2] = n /\ Update(n)[1] # "rest"
  BY DEF Packet, Update, IsUpdate
<1>2. \A c \in Commands \cup {"quit"} : Ack(c) \in Packet /\ Ack(c)[1] = "ack"
  BY DEF Packet, Ack
<1>3. \A c \in Commands : Reject(c) \in Packet /\ Reject(c)[1] = "reject"
  BY DEF Packet, Reject
<1>4. Fail \in Packet /\ Fail[1] = "reject" /\ Data \in Packet /\ Data[1] = "data"
  BY DEF Packet, Fail, Data
<1>5. ASSUME NEW p \in Packet, IsUpdate(p)
      PROVE  p[2] \in Nat /\ p = Update(p[2])
  <2>1. PICK n \in Nat : p = Update(n)
    BY <1>5 DEF Packet, Ack, Reject, Fail, Data, Update, IsUpdate
  <2> QED BY <2>1 DEF Update
<1> QED BY <1>1, <1>2, <1>3, <1>4, <1>5

\* A read leaves nothing of a packet, or its rest.
LEMMA RestFacts ==
  ASSUME NEW p \in Packet
  PROVE  /\ Rest(p) \in Packet /\ Rest(p)[1] = "rest"
         /\ \A rest \in Rests(p) :
              \/ rest = << >>
              \/ /\ p[1] \notin {"ack", "reject"}
                 /\ \E q \in Packet : rest = <<q>> /\ q[1] = "rest"
<1>1. \A b \in BOOLEAN : <<"rest", b>> \in Packet /\ <<"rest", b>>[1] = "rest"
  BY DEF Packet
<1>2. Rest(p) \in Packet /\ Rest(p)[1] = "rest"
  <2>1. (p[1] \notin {"ack", "reject"}) \in BOOLEAN
    OBVIOUS
  <2> QED BY <1>1, <2>1 DEF Rest
<1>3. p[1] \in {"ack", "reject", "data", "update", "rest"}
  BY DEF Packet, Ack, Reject, Fail, Data, Update
<1>4. ASSUME NEW rest \in Rests(p), rest # << >>
      PROVE  /\ p[1] \notin {"ack", "reject"}
             /\ \E q \in Packet : rest = <<q>> /\ q[1] = "rest"
  <2>1. p[1] \notin {"ack", "reject"}
    BY <1>4 DEF Rests
  <2>2. rest = <<Rest(p)>> \/ (rest = <<p>> /\ p[1] = "rest")
    BY <1>3, <1>4, <2>1 DEF Rests
  <2> QED BY <1>2, <2>1, <2>2
<1> QED BY <1>2, <1>4

\* A read takes the next packet, or its beginning.
Later(t, s) ==
  \E d \in {0, 1} :
    /\ Len(t) = Len(s) - d
    /\ \A i \in 1..Len(t) : (t[i][1] = "rest" /\ i = 1) \/ t[i] = s[i + d]

LEMMA TailLater ==
  ASSUME NEW s \in Seq(Packet), s # << >>
  PROVE  /\ Tail(s) \in Seq(Packet) /\ Len(Tail(s)) = Len(s) - 1
         /\ \A i \in 1..Len(Tail(s)) : Tail(s)[i] = s[i + 1]
         /\ Later(Tail(s), s)
<1>1. /\ Tail(s) \in Seq(Packet) /\ Len(Tail(s)) = Len(s) - 1
      /\ \A i \in 1..Len(Tail(s)) : Tail(s)[i] = s[i + 1]
  OBVIOUS
<1> QED BY <1>1 DEF Later

LEMMA ReadLater ==
  ASSUME NEW s \in Seq(Packet), s # << >>,
         NEW rest, rest = << >> \/ \E q \in Packet : rest = <<q>> /\ q[1] = "rest"
  PROVE  rest \o Tail(s) \in Seq(Packet) /\ Later(rest \o Tail(s), s)
<1>1. CASE rest = << >>
  <2>1. rest \o Tail(s) = Tail(s)
    BY <1>1, TailLater
  <2> QED BY <2>1, TailLater
<1>2. ASSUME NEW q \in Packet, rest = <<q>>, q[1] = "rest"
      PROVE  rest \o Tail(s) \in Seq(Packet) /\ Later(rest \o Tail(s), s)
  <2> DEFINE t == <<q>> \o Tail(s)
  <2>1. /\ t \in Seq(Packet) /\ Len(t) = Len(s) - 0
        /\ \A i \in 1..Len(t) : (t[i] = q /\ i = 1) \/ t[i] = s[i + 0]
    OBVIOUS
  <2>2. Later(t, s)
    BY <1>2, <2>1 DEF Later
  <2> QED BY <1>2, <2>1, <2>2
<1> QED BY <1>1, <1>2

\* What is true of the packets on the way is true of those that a read leaves.
LEMMA LaterFacts ==
  ASSUME IInv, NEW t \in Seq(Packet), Later(t, toClient)
  PROVE  /\ \A i \in DOMAIN t : IsUpdate(t[i]) => t[i][2] \in DOMAIN sent
         /\ \A i, j \in DOMAIN t :
              i < j /\ IsUpdate(t[i]) /\ IsUpdate(t[j]) => t[i][2] < t[j][2]
         /\ Len(t) <= MaxInFlight + 1
         /\ \A i \in DOMAIN t : t[i][1] = "rest" => i = 1
         /\ \A m \in shown :
              (\A i \in DOMAIN toClient : IsUpdate(toClient[i]) => m < toClient[i][2])
                => \A i \in DOMAIN t : IsUpdate(t[i]) => m < t[i][2]
<1> USE DEF IInv
<1>1. toClient \in Seq(Packet) /\ Len(toClient) <= MaxInFlight + 1 /\ MaxInFlight \in Nat
  BY BoundsOK DEF Types, Limits
<1>2. PICK d \in {0, 1} :
        /\ Len(t) = Len(toClient) - d
        /\ \A i \in 1..Len(t) : (t[i][1] = "rest" /\ i = 1) \/ t[i] = toClient[i + d]
  BY DEF Later
<1>3. Len(t) <= MaxInFlight + 1
  BY <1>1, <1>2
<1>4. \A i \in DOMAIN t : i \in 1..Len(t) /\ i \in Nat /\ i + d \in DOMAIN toClient
  BY <1>1, <1>2
<1>5. \A i \in DOMAIN t : IsUpdate(t[i]) => t[i] = toClient[i + d]
  BY <1>2, <1>4 DEF IsUpdate
<1>6. \A i \in DOMAIN t : IsUpdate(t[i]) => t[i][2] \in DOMAIN sent
  BY <1>4, <1>5 DEF Numbered
<1>7. \A i, j \in DOMAIN t :
        i < j /\ IsUpdate(t[i]) /\ IsUpdate(t[j]) => t[i][2] < t[j][2]
  BY <1>4, <1>5 DEF Numbered
<1>8. ASSUME NEW i \in DOMAIN t, t[i][1] = "rest"
      PROVE  i = 1
  <2>1. CASE t[i] = toClient[i + d]
    <3>1. i + d = 1
      BY <1>4, <1>8, <2>1 DEF Limits
    <3> QED BY <1>4, <3>1
  <2> QED BY <1>2, <1>4, <2>1
<1>9. ASSUME NEW m \in shown,
             \A i \in DOMAIN toClient : IsUpdate(toClient[i]) => m < toClient[i][2]
      PROVE  \A i \in DOMAIN t : IsUpdate(t[i]) => m < t[i][2]
  BY <1>4, <1>5, <1>9
<1> QED BY <1>3, <1>6, <1>7, <1>8, <1>9

\* A chat that was read is not on the way again.
LEMMA StillRead ==
  ASSUME IInv, ReadUndecodable, NEW t \in Seq(Packet), Later(t, toClient)
  PROVE  \E n \in DOMAIN sent :
           sent[n] \in Undecodable /\ \A i \in DOMAIN t : t[i] # Update(n)
<1>1. PICK n \in DOMAIN sent :
        sent[n] \in Undecodable /\ \A i \in DOMAIN toClient : toClient[i] # Update(n)
  BY DEF ReadUndecodable
<1>2. PICK d \in {0, 1} :
        /\ Len(t) = Len(toClient) - d
        /\ \A i \in 1..Len(t) : (t[i][1] = "rest" /\ i = 1) \/ t[i] = toClient[i + d]
  BY DEF Later
<1>3. toClient \in Seq(Packet) /\ n \in Nat
  BY DEF IInv, Types
<1>4. \A i \in DOMAIN t : i \in 1..Len(t) /\ i + d \in DOMAIN toClient
  BY <1>2, <1>3
<1>5. Update(n)[1] # "rest"
  BY <1>3, PacketFacts
<1> QED BY <1>1, <1>2, <1>4, <1>5

\* What commands know while they hold the mutex.
LEMMA CommandFacts ==
  ASSUME IInv, misread = 0, ~Closed
  PROVE  /\ pc \in {"idle", "prompt", "postloop", "join"} => Resting
         /\ pc \in {"wait", "collect"} => Asked \/ Told \/ Telling
         /\ pc \notin {"quit", "done", "stuck"} => Accounted
BY DEF IInv, Sync, InSync, Types

\* A read by the monitor leaves every part of the invariant but the ones about
\* what has been printed and who is in step.
LEMMA ReadKeeps ==
  ASSUME IInv, toClient' \in Seq(Packet), Later(toClient', toClient),
         UNCHANGED <<received, sent, toServer>>,
         pc' \in {"quit", "done"} <=> pc \in {"quit", "done"}
  PROVE  Numbered' /\ Limits'
<1>1. Numbered'
  BY LaterFacts DEF IInv, Numbered
<1>2. Limits'
  BY LaterFacts DEF IInv, Limits
<1> QED BY <1>1, <1>2
---------------------------------------------------------------------------
(* Commands *)

LEMMA Appended ==
  ASSUME NEW S, NEW s \in Seq(S), NEW x \in S, NEW t, t = Append(s, x)
  PROVE  /\ t \in Seq(S) /\ t # << >> /\ Len(t) = Len(s) + 1 /\ t[Len(t)] = x
         /\ DOMAIN t = 1..(Len(s) + 1) /\ DOMAIN s = 1..Len(s) /\ Len(s) \in Nat
         /\ \A i \in 1..Len(s) : t[i] = s[i]
OBVIOUS

LEMMA Requests == "chat" \in Request /\ "quit" \in Request /\ Commands \subseteq Request
BY DEF Request

LEMMA StatusAfterTyped ==
  ASSUME Types, NEW answer
  PROVE  StatusAfter(answer) \in {"connected", "logged_in", "chatting"}
BY DEF StatusAfter, Types

LEMMA AskStep ==
  ASSUME IInv, NEW c \in Commands, Ask(c) \/ GiveUp
  PROVE  IInv'
<1>1. /\ \/ pc = "idle" /\ pc' = "prompt" /\ cmd' = c /\ Allowed(c) /\ c \in Prompting
         \/ pc = "prompt" /\ pc' \in {"idle", "stuck"} /\ cmd' = NULL
      /\ Types /\ Control
      /\ UNCHANGED <<received, monitor, monitor_running, shutdown_event, last_msg_recvd,
                     session, sent, status, shown, toServer, toClient, misread>>
  BY DEF Ask, GiveUp, monitorVars, serverVars, IInv
<1>2. Types'
  BY <1>1 DEF Types
<1>3. Control'
  <2>1. pc' = "prompt" => cmd' = c /\ Allowed(c)' /\ c \in Prompting
    BY <1>1 DEF Allowed
  <2>2. \A i \in DOMAIN toServer : toServer[i] # "quit"
    BY <1>1 DEF Control
  <2> QED BY <1>1, <2>1, <2>2 DEF Control
<1>4. Numbered' /\ LastShown' /\ MonitorLives' /\ Limits'
  BY <1>1 DEF IInv, Numbered, LastShown, MonitorLives, ReadUndecodable, Limits
<1>5. Sync'
  BY <1>1 DEF IInv, Sync, InSync, Drained, Resting, Accounted, Repeated, Awaiting, Closed,
              AllChats, AllUpdates, Streams
<1> QED BY <1>2, <1>3, <1>4, <1>5 DEF IInv

LEMMA SendStep ==
  ASSUME IInv, NEW c \in Commands, Send(c)
  PROVE  IInv'
<1> USE DEF Send, commandVars, monitorVars, serverVars
<1>1. /\ pc \in {"idle", "prompt"} /\ Allowed(c) /\ Len(toServer) < MaxInFlight
      /\ Types /\ Control
  BY DEF IInv, Control
<1>2. \/ toServer' = toServer
      \/ ~Closed /\ toServer' = Append(toServer, c) /\ pc' \in {"wait", "collect"} /\ cmd' = c
  BY DEF Hears
<1>3. Types'
  <2>1. toServer' \in Seq(Request)
    <3>1. toServer \in Seq(Request)
      BY <1>1 DEF Types
    <3>2. \A x \in Request : Append(toServer, x) \in Seq(Request)
      BY <3>1
    <3>3. c \in Request
      BY Requests
    <3> HIDE DEF Send
    <3> QED BY <1>2, <3>1, <3>2, <3>3
  <2>2. received' \in Seq(Packet)
    <3>1. received \in Seq(Packet) /\ << >> \in Seq(Packet)
      BY <1>1 DEF Types
    <3>2. received' = received \/ received' = << >>
      OBVIOUS
    <3> QED BY <3>1, <3>2
  <2>3. pc' \in {"wait", "collect", "postloop"} /\ cmd' \in Commands \cup {NULL}
    BY <1>1 DEF Looping, Types
  <2>4. UNCHANGED <<status, session, monitor, monitor_running, shutdown_event, toClient,
                    misread, sent, last_msg_recvd, shown>>
    OBVIOUS
  <2> HIDE DEF Send
  <2> QED BY <1>1, <2>1, <2>2, <2>3, <2>4 DEF Types
<1>4. Control'
  <2>1. pc' \in {"wait", "collect"} =>
          cmd' = c /\ (pc' = "collect" <=> c \in {"list", "join"})
    BY <1>1 DEF Looping
  <2>2. \A i \in DOMAIN toServer' : toServer'[i] # "quit"
    <3>1. \A i \in DOMAIN toServer : toServer[i] # "quit"
      BY <1>1 DEF Control
    <3>2. c # "quit" /\ toServer \in Seq(Request) /\ c \in Request
      BY <1>1, Requests DEF Commands, Types
    <3>3. CASE toServer' = Append(toServer, c)
      <4> HIDE DEF Send
      <4> QED BY <3>1, <3>2, <3>3
    <3> QED BY <1>2, <3>1, <3>3
  <2>3. pc' # "collect" => received' = << >>
    BY <1>1 DEF Control
  <2>4. pc' \notin {"join", "quit", "done"}
    BY <1>1 DEF Looping
  <2>5. Allowed(c)'
    BY <1>1 DEF Allowed
  <2> QED BY <1>1, <2>1, <2>2, <2>3, <2>4, <2>5 DEF Control
<1>5. Numbered'
  <2>1. received' = received \/ received' = << >>
    OBVIOUS
  <2> QED BY <2>1 DEF IInv, Numbered
<1>6. Limits'
  BY <1>1, <1>2, BoundsOK DEF IInv, Limits, Types
<1>7. LastShown' /\ MonitorLives'
  BY DEF IInv, LastShown, MonitorLives, ReadUndecodable
<1>8. ASSUME misread = 0, ~Closed
      PROVE  InSync'
  <2>1. Resting /\ Accounted /\ received = << >>
    BY <1>1, <1>8, CommandFacts DEF Control
  <2>2. Accounted'
    BY <2>1 DEF Accounted, Repeated
  <2>3. pc' \in {"wait", "collect"} /\ cmd' = c /\ received' = << >>
        /\ toServer' = Append(toServer, c)
    BY <1>8 DEF Looping, Hears
  <2>4. Asked'
    <3>1. /\ toServer' # << >> /\ toServer'[Len(toServer')] = c
          /\ Len(toServer') - 1 = Len(toServer)
          /\ \A i \in 1..Len(toServer) : toServer'[i] = toServer[i]
      <4>1. toServer \in Seq(Request) /\ c \in Request
        BY <1>1, Requests DEF Types
      <4> HIDE DEF Send
      <4> QED BY <2>3, <4>1
    <3>2. Len(toServer') > 1 => toServer # << >>
      BY <1>1, <2>3 DEF Types
    <3> QED BY <2>1, <2>3, <3>1, <3>2 DEF Resting, Asked, AllChats, AllUpdates, Streams
  <2> QED BY <2>2, <2>3, <2>4 DEF InSync
<1>9. ASSUME misread = 0, Closed
      PROVE  Drained'
  <2>1. Drained
    BY <1>1, <1>9 DEF IInv, Sync
  <2>2. pc' = "wait" => cmd' = c
    OBVIOUS
  <2>3. status # "chatting" => toClient = << >>
    BY <1>1, <2>1 DEF Drained, Awaiting
  <2>4. status = "chatting" => c = "leave"
    BY <1>1 DEF Allowed, Commands
  <2> QED BY <2>1, <2>2, <2>3, <2>4 DEF Drained, Awaiting
<1>10. Sync'
  BY <1>1, <1>8, <1>9 DEF Sync, Types, Closed
<1> QED BY <1>3, <1>4, <1>5, <1>6, <1>7, <1>10 DEF IInv

LEMMA SendChatStep ==
  ASSUME IInv, SendChat
  PROVE  IInv'
<1> USE DEF SendChat, monitorVars, serverVars
<1>1. /\ pc = "idle" /\ status = "chatting" /\ pc' \in {"idle", "postloop"}
      /\ Len(toServer) < MaxInFlight /\ Types /\ Control
  BY DEF IInv, Allowed
<1>2. \/ toServer' = toServer
      \/ ~Closed /\ toServer' = Append(toServer, "chat")
  BY DEF Hears
<1>3. Types'
  <2>1. toServer' \in Seq(Request)
    <3>1. toServer \in Seq(Request)
      BY <1>1 DEF Types
    <3>2. \A x \in Request : Append(toServer, x) \in Seq(Request)
      BY <3>1
    <3> QED BY <1>2, <3>1, <3>2, Requests
  <2> QED BY <1>1, <2>1 DEF Types
<1>4. Control'
  <2>1. \A i \in DOMAIN toServer : toServer[i] # "quit"
    BY <1>1 DEF Control
  <2>2. \A i \in DOMAIN toServer' : toServer'[i] # "quit"
    <3>1. toServer \in Seq(Request) /\ "chat" \in Request
      BY <1>1, Requests DEF Types
    <3> HIDE DEF SendChat
    <3> QED BY <1>2, <2>1, <3>1
  <2> QED BY <1>1, <2>2 DEF Control
<1>5. Numbered' /\ LastShown' /\ MonitorLives'
  BY DEF IInv, Numbered, LastShown, MonitorLives, ReadUndecodable
<1>6. Limits'
  BY <1>1, <1>2, BoundsOK DEF IInv, Limits, Types
<1>7. ASSUME misread = 0, ~Closed
      PROVE  InSync'
  <2>1. Resting /\ Accounted
    BY <1>1, <1>7, CommandFacts
  <2>2. toServer' = Append(toServer, "chat")
    BY <1>7 DEF Hears
  <2>3. AllChats(Len(toServer))'
    BY <1>1, <2>1, <2>2 DEF Resting, AllChats, Types
  <2>4. Resting'
    BY <1>1, <2>1, <2>3 DEF Resting, AllUpdates, Streams
  <2> QED BY <1>1, <2>1, <2>4 DEF InSync, Accounted, Repeated
<1>8. ASSUME misread = 0, Closed
      PROVE  Drained'
  BY <1>1, <1>8 DEF IInv, Sync, Drained, Awaiting
<1>9. Sync'
  BY <1>1, <1>7, <1>8 DEF Sync, Types, Closed
<1> QED BY <1>3, <1>4, <1>5, <1>6, <1>9 DEF IInv

LEMMA StopStep ==
  ASSUME IInv, Stop \/ StopMonitor
  PROVE  IInv'
<1> USE DEF Stop, StopMonitor, monitorVars, serverVars
<1>1. /\ pc \in {"idle", "postloop"} /\ pc' \in {"postloop", "join"}
      /\ Types /\ Control
      /\ UNCHANGED <<cmd, received, shutdown_event, last_msg_recvd, status, shown,
                     toServer, toClient, misread, session, sent, monitor>>
  BY DEF IInv
<1>2. Types' /\ Control'
  <2>1. monitor_running' \in {monitor_running, FALSE}
    OBVIOUS
  <2>2. pc' = "join" => monitor_running' = FALSE
    BY <1>1
  <2>3. Types'
    BY <1>1, <2>1 DEF Types
  <2>4. Control'
    <3> HIDE DEF Stop, StopMonitor
    <3> QED BY <1>1, <2>2 DEF Control
  <2> QED BY <2>3, <2>4
<1>3. Numbered' /\ LastShown' /\ Limits'
  BY <1>1 DEF IInv, Numbered, LastShown, Limits
<1>4. MonitorLives'
  BY DEF IInv, MonitorLives, ReadUndecodable
<1>5. Sync'
  BY <1>1 DEF IInv, Sync, InSync, Drained, Resting, Accounted, Repeated, Awaiting, Closed,
              AllChats, AllUpdates, Streams
<1> QED BY <1>2, <1>3, <1>4, <1>5 DEF IInv

LEMMA QuitStep ==
  ASSUME IInv, Quit \/ QuitAnswered
  PROVE  IInv'
<1> USE DEF Quit, QuitAnswered, monitorVars, serverVars
<1>1. /\ pc \in {"join", "quit"} /\ pc' \in {"quit", "done"} /\ Types /\ Control
      /\ UNCHANGED <<cmd, received, monitor_running, shutdown_event, last_msg_recvd,
                     shown, toClient, misread, session, sent, monitor>>
      /\ status' \in {status, "connected"}
  BY DEF IInv
<1>2. toServer' = toServer \/ (toServer' = Append(toServer, "quit") /\ pc = "join")
  BY DEF Hears
<1>3. Types'
  <2>1. toServer' \in Seq(Request)
    <3>1. toServer \in Seq(Request)
      BY <1>1 DEF Types
    <3>2. \A x \in Request : Append(toServer, x) \in Seq(Request)
      BY <3>1
    <3> QED BY <1>2, <3>1, <3>2, Requests
  <2> QED BY <1>1, <2>1 DEF Types
<1>4. Control'
  <2>1. \A i \in DOMAIN toServer' : toServer'[i] = "quit" => i = Len(toServer')
    <3>1. toServer \in Seq(Request) /\ "quit" \in Request
      BY <1>1, Requests DEF Types
    <3>2. \A i \in DOMAIN toServer : toServer[i] = "quit" => i = Len(toServer)
      BY <1>1 DEF Control
    <3>3. pc = "join" => \A i \in DOMAIN toServer : toServer[i] # "quit"
      BY <1>1 DEF Control
    <3> HIDE DEF Quit, QuitAnswered
    <3> QED BY <1>2, <3>1, <3>2, <3>3
  <2> QED BY <1>1, <2>1 DEF Control
<1>5. Numbered' /\ LastShown' /\ MonitorLives'
  BY <1>1 DEF IInv, Numbered, LastShown, MonitorLives, ReadUndecodable
<1>6. Limits'
  BY <1>1, <1>2, BoundsOK DEF IInv, Limits, Types
<1>7. Sync'
  BY <1>1 DEF Sync
<1> QED BY <1>3, <1>4, <1>5, <1>6, <1>7 DEF IInv
---------------------------------------------------------------------------
(* Answers *)

LEMMA TailOfOne ==
  ASSUME NEW s \in Seq(Packet), Len(s) <= 1, s # << >>
  PROVE  Tail(s) = << >>
OBVIOUS

LEMMA RestingEmpty ==
  /\ status = session /\ toServer = << >> /\ toClient = << >> => Resting
  /\ (status = session /\ toServer = << >> /\ toClient = << >>)' => Resting'
<1>1. status = session /\ toServer = << >> /\ toClient = << >> => Resting
  <2>1. Len(<< >>) = 0 /\ 1..0 = {}
    OBVIOUS
  <2> QED BY <2>1 DEF Resting, AllChats, AllUpdates
<1> QED BY <1>1, PTL

LEMMA AnsweredFacts ==
  ASSUME IInv, NEW a, Answered(a) \/ NoDisconnect(a)
  PROVE  /\ status' \in {"connected", "logged_in", "chatting"}
         /\ cmd' = NULL /\ misread' \in Nat
         /\ misread' = 0 => misread = 0
         /\ \/ pc' = "idle" /\ status' = StatusAfter(a)
            \/ pc' = "stuck" /\ Closed
         /\ misread' = 0 => Closed \/ a \in {Ack(cmd), Reject(cmd)}
<1>1. Types
  BY DEF IInv
<1>2. CASE Answered(a)
  <2>1. misread' = misread + (IF a \in {Ack(cmd), Reject(cmd)} \/ Closed THEN 0 ELSE 1)
    BY <1>2 DEF Answered
  <2>2. /\ misread' \in Nat
        /\ misread' = 0 => misread = 0 /\ (Closed \/ a \in {Ack(cmd), Reject(cmd)})
    BY <1>1, <2>1 DEF Types
  <2> QED BY <1>1, <1>2, <2>2, StatusAfterTyped DEF Answered
<1>3. CASE NoDisconnect(a)
  BY <1>1, <1>3 DEF NoDisconnect, Raise, Types
<1> QED BY <1>2, <1>3

LEMMA RecvAnswerStep ==
  ASSUME IInv, RecvAnswer
  PROVE  IInv'
<1> DEFINE a == Head(toClient)
<1>1. /\ pc = "wait" /\ toClient # << >> /\ Types /\ Control
      /\ UNCHANGED <<received, monitor, monitor_running, shutdown_event, last_msg_recvd,
                     session, sent, shown, toServer>>
      /\ \E rest \in Rests(a) : toClient' = rest \o Tail(toClient)
  BY DEF IInv, RecvAnswer, monitorVars, serverVars
<1>2. /\ status' \in {"connected", "logged_in", "chatting"}
      /\ cmd' = NULL /\ misread' \in Nat
      /\ misread' = 0 => misread = 0
      /\ \/ pc' = "idle" /\ status' = StatusAfter(a)
         \/ pc' = "stuck" /\ Closed
      /\ misread' = 0 => Closed \/ a \in {Ack(cmd), Reject(cmd)}
  BY AnsweredFacts DEF RecvAnswer
<1>3. toClient \in Seq(Packet) /\ a \in Packet /\ a = toClient[1]
  <2>1. toClient \in Seq(Packet)
    BY <1>1 DEF Types
  <2> QED BY <1>1, <2>1
<1>4. PICK rest : /\ toClient' = rest \o Tail(toClient)
                  /\ \/ rest = << >>
                     \/ /\ a[1] \notin {"ack", "reject"}
                        /\ \E q \in Packet : rest = <<q>> /\ q[1] = "rest"
  BY <1>1, <1>3, RestFacts
<1> HIDE DEF a
<1>5. toClient' \in Seq(Packet) /\ Later(toClient', toClient)
  BY <1>1, <1>3, <1>4, ReadLater
<1>6. Types'
  BY <1>1, <1>2, <1>5 DEF Types
<1>7. Control'
  BY <1>1, <1>2 DEF Control
<1>8. Numbered' /\ Limits'
  BY <1>1, <1>2, <1>5, ReadKeeps
<1>9. LastShown'
  BY <1>1, <1>5, LaterFacts DEF IInv, LastShown
<1>10. MonitorLives'
  <2>1. ReadUndecodable => ReadUndecodable'
    BY <1>1, <1>5, StillRead DEF ReadUndecodable
  <2> QED BY <1>1, <1>2, <2>1 DEF IInv, MonitorLives
<1>11. a[1] \in {"ack", "reject"} /\ Len(toClient) <= 1 => toClient' = << >>
  <2>1. Len(toClient) <= 1 => Tail(toClient) = << >>
    BY <1>1, <1>3, TailOfOne
  <2>2. Tail(toClient) \in Seq(Packet)
    BY <1>1, <1>3, TailLater
  <2>3. << >> \o Tail(toClient) = Tail(toClient)
    BY <2>2
  <2> QED BY <1>4, <2>1, <2>3
<1>12. ASSUME misread' = 0, ~Closed
       PROVE  InSync'
  <2>1. misread = 0 /\ a \in {Ack(cmd), Reject(cmd)} /\ cmd \in Commands /\ received = << >>
    BY <1>1, <1>2, <1>12 DEF Control
  <2>2. a[1] \in {"ack", "reject"} /\ ~IsUpdate(a)
    BY <2>1, PacketFacts DEF IsUpdate
  <2>3. Accounted /\ (Asked \/ Told \/ Telling)
    BY <1>1, <1>12, <2>1, CommandFacts
  <2>4. Len(toClient) \in Nat /\ Len(toClient) >= 1 /\ DOMAIN toClient = 1..Len(toClient)
    BY <1>1, <1>3
  <2>5. Told
    <3>1. ~Asked
      BY <1>3, <2>2, <2>4 DEF Asked, AllUpdates
    <3> QED BY <1>1, <2>3, <3>1 DEF Telling
  <2>6. Len(toClient) = 1
    BY <1>3, <2>2, <2>4, <2>5 DEF Told, AllUpdates
  <2>7. toClient' = << >>
    BY <1>11, <2>2, <2>6
  <2>8. session = status'
    BY <1>2, <1>3, <1>12, <2>5, <2>6 DEF Told
  <2>9. Resting'
    <3>1. toServer' = << >> /\ status' = session'
      BY <1>1, <2>5, <2>8 DEF Told
    <3> QED BY <2>7, <3>1, RestingEmpty
  <2>10. Accounted'
    <3>1. \A n \in DOMAIN sent : n \in Nat
      BY <1>1 DEF Types
    <3>2. \A n \in DOMAIN sent : \A i \in DOMAIN toClient : toClient[i] # Update(n)
      BY <1>3, <2>2, <2>4, <2>6, <3>1, PacketFacts
    <3> QED BY <1>1, <2>3, <3>2 DEF Accounted, Repeated
  <2> QED BY <1>2, <2>9, <2>10 DEF InSync
<1>13. ASSUME misread = 0, Closed, pc' = "idle"
       PROVE  Drained'
  <2>1. Drained /\ Allowed(cmd) /\ cmd \in Commands
    BY <1>1, <1>13 DEF IInv, Sync, Control
  <2>2. CASE cmd # "leave"
    <3>1. Len(toClient) <= 1 /\ a[1] \in {"ack", "reject"}
      BY <1>1, <1>3, <2>1, <2>2 DEF Drained
    <3>2. toClient' = << >>
      BY <1>11, <3>1
    <3> QED BY <1>2, <1>13, <3>2 DEF Drained
  <2>3. CASE cmd = "leave"
    <3>1. status = "chatting"
      BY <2>1, <2>3 DEF Allowed, Commands
    <3>2. \A i \in DOMAIN toClient : toClient[i] = Ack("leave") => i = Len(toClient)
      BY <2>1, <3>1 DEF Drained
    <3>3. CASE a = Ack("leave")
      <4>1. a[1] = "ack" /\ Len(toClient) = 1
        <5>1. 1 \in DOMAIN toClient
          BY <1>1, <1>3
        <5>2. Ack("leave")[1] = "ack"
          BY PacketFacts DEF Commands
        <5> QED BY <1>3, <3>2, <3>3, <5>1, <5>2
      <4>2. toClient' = << >>
        BY <1>11, <4>1
      <4> QED BY <1>2, <1>13, <4>2 DEF Drained
    <3>4. CASE a # Ack("leave")
      <4>1. status' = "chatting"
        BY <1>2, <1>13, <2>3, <3>1, <3>4 DEF StatusAfter
      <4>2. ASSUME NEW i \in DOMAIN toClient', toClient'[i] = Ack("leave")
            PROVE  i = Len(toClient')
        <5>1. PICK d \in {0, 1} :
                /\ Len(toClient') = Len(toClient) - d
                /\ \A k \in 1..Len(toClient') :
                     (toClient'[k][1] = "rest" /\ k = 1) \/ toClient'[k] = toClient[k + d]
          BY <1>5 DEF Later
        <5>2. toClient'[i][1] # "rest"
          BY <4>2, PacketFacts DEF Commands
        <5>3. i \in 1..Len(toClient') /\ i + d \in DOMAIN toClient
          BY <1>3, <1>5, <5>1
        <5>4. i + d = Len(toClient)
          BY <3>2, <4>2, <5>1, <5>2, <5>3
        <5> QED BY <1>3, <5>1, <5>3, <5>4
      <4> QED BY <1>2, <1>13, <4>1, <4>2 DEF Drained
    <3> QED BY <3>3, <3>4
  <2> QED BY <2>2, <2>3
<1>14. Sync'
  BY <1>1, <1>2, <1>12, <1>13 DEF Sync, Closed
<1> QED BY <1>6, <1>7, <1>8, <1>9, <1>10, <1>14 DEF IInv

LEMMA RecvEndStep ==
  ASSUME IInv, RecvEnd
  PROVE  IInv'
<1>1. /\ pc = "wait" /\ toClient = << >> /\ Closed /\ Types /\ Control
      /\ UNCHANGED <<received, monitor, monitor_running, shutdown_event, last_msg_recvd,
                     session, sent, shown, toServer, toClient>>
  BY DEF IInv, RecvEnd, monitorVars, serverVars
<1>2. /\ status' \in {"connected", "logged_in", "chatting"} /\ pc' \in {"idle", "stuck", "postloop"}
      /\ cmd' = NULL /\ misread' \in Nat
      /\ misread' = 0 => misread = 0
  <2>1. CASE Answered(NULL) \/ NoDisconnect(NULL)
    BY <2>1, AnsweredFacts
  <2>2. CASE ~(Answered(NULL) \/ NoDisconnect(NULL))
    BY <1>1, <2>2 DEF RecvEnd, Types
  <2> QED BY <2>1, <2>2
<1>3. Types' /\ Control'
  BY <1>1, <1>2 DEF Types, Control
<1>4. Numbered' /\ LastShown' /\ MonitorLives' /\ Limits'
  BY <1>1, <1>2 DEF IInv, Numbered, LastShown, MonitorLives, ReadUndecodable, Limits
<1>5. Sync'
  BY <1>1, <1>2 DEF Sync, Closed, Drained
<1> QED BY <1>3, <1>4, <1>5 DEF IInv

LEMMA CollectStep ==
  ASSUME IInv, Collect
  PROVE  IInv'
<1>1. /\ pc = "collect" /\ toClient # << >> /\ Types /\ Control
      /\ received' = Append(received, toClient[1]) /\ toClient' = Tail(toClient)
      /\ UNCHANGED <<pc, cmd, monitor, monitor_running, shutdown_event, last_msg_recvd,
                     session, sent, status, shown, toServer, misread>>
  <2>1. toClient \in Seq(Packet) /\ toClient # << >>
    BY DEF IInv, Types, Collect
  <2>2. Head(toClient) = toClient[1]
    BY <2>1
  <2> QED BY <2>2 DEF IInv, Collect, monitorVars, serverVars
<1>2. /\ toClient \in Seq(Packet) /\ toClient[1] \in Packet /\ received \in Seq(Packet)
      /\ Len(toClient) \in Nat /\ Len(toClient) >= 1 /\ DOMAIN toClient = 1..Len(toClient)
  BY <1>1 DEF Types
<1>3. /\ toClient' \in Seq(Packet) /\ Len(toClient') = Len(toClient) - 1
      /\ \A i \in 1..Len(toClient') : toClient'[i] = toClient[i + 1]
      /\ Later(toClient', toClient)
  BY <1>1, <1>2, TailLater
<1>4. /\ received' \in Seq(Packet) /\ received' # << >> /\ Len(received') = Len(received) + 1
      /\ received'[Len(received')] = toClient[1] /\ Len(received) \in Nat
      /\ DOMAIN received' = 1..(Len(received) + 1) /\ DOMAIN received = 1..Len(received)
      /\ \A i \in 1..Len(received) : received'[i] = received[i]
  BY <1>1, <1>2, Appended
<1>5. Types' /\ Control'
  <2>1. Types'
    BY <1>1, <1>3, <1>4 DEF Types
  <2>2. Allowed(cmd)' = Allowed(cmd)
    BY <1>1 DEF Allowed
  <2>3. Control'
    BY <1>1, <2>2 DEF Control
  <2> QED BY <2>1, <2>3
<1>6. \A i \in DOMAIN received' :
        (i \in DOMAIN received /\ received'[i] = received[i]) \/ received'[i] = toClient[1]
  BY <1>4
<1>7. Numbered'
  <2>1. 1 \in DOMAIN toClient
    BY <1>2
  <2>2. \A i \in DOMAIN received' : IsUpdate(received'[i]) => received'[i][2] \in DOMAIN sent
    BY <1>6, <2>1 DEF IInv, Numbered
  <2> QED BY <1>1, <1>3, <2>2, LaterFacts DEF Numbered
<1>8. Limits'
  BY <1>1, <1>3, LaterFacts DEF IInv, Limits
<1>9. LastShown' /\ MonitorLives'
  <2>1. ReadUndecodable => ReadUndecodable'
    BY <1>1, <1>3, StillRead DEF ReadUndecodable
  <2>2. LastShown'
    BY <1>1, <1>3, LaterFacts DEF IInv, LastShown
  <2> QED BY <1>1, <2>1, <2>2 DEF IInv, MonitorLives
<1>10. ASSUME misread = 0, ~Closed
       PROVE  InSync'
  <2>1. Accounted /\ (Asked \/ Told \/ Telling)
    BY <1>1, <1>10, CommandFacts
  <2>2. cmd \in {"list", "join"} /\ status = "logged_in"
    BY <1>1 DEF Control, Allowed
  <2>3. Telling
    <3>1. ~Asked
      BY <1>1, <2>2 DEF Asked, Streams
    <3> QED BY <1>1, <2>1, <3>1 DEF Told
  <2>4. Telling'
    <3>1. received'[1] = IF received # << >> THEN received[1] ELSE toClient[1]
      BY <1>2, <1>4
    <3>2. received' \o toClient' # << >>
      BY <1>3, <1>4
    <3>3. \A i \in DOMAIN received' : IsUpdate(received'[i]) => Streams
      BY <1>2, <1>6, <2>3 DEF Telling
    <3>4. \A i \in DOMAIN toClient' : IsUpdate(toClient'[i]) => Streams
      <4>1. \A i \in DOMAIN toClient' : i \in 1..Len(toClient') /\ i + 1 \in DOMAIN toClient
        BY <1>2, <1>3
      <4> QED BY <1>3, <2>3, <4>1 DEF Telling
    <3>5. Streams' = Streams
      BY <1>1 DEF Streams
    <3>6. \A a : /\ StatusAfter(a)' = StatusAfter(a)
                 /\ Answers(a)' = Answers(a)
      BY <1>1 DEF StatusAfter, Answers
    <3> QED BY <1>1, <1>4, <2>3, <3>1, <3>2, <3>3, <3>4, <3>5, <3>6 DEF Telling
  <2>5. Accounted'
    <3>1. ASSUME NEW p \in Packet, \E i \in DOMAIN toClient : toClient[i] = p
          PROVE  \/ \E i \in DOMAIN toClient' : toClient'[i] = p
                 \/ \E i \in DOMAIN received' : received'[i] = p
      <4>1. PICK i \in DOMAIN toClient : toClient[i] = p
        BY <3>1
      <4>2. CASE i = 1
        BY <1>4, <4>1, <4>2
      <4>3. CASE i # 1
        <5>1. i - 1 \in 1..Len(toClient') /\ DOMAIN toClient' = 1..Len(toClient')
          BY <1>2, <1>3, <4>3
        <5>2. toClient'[i - 1] = p
          BY <1>2, <1>3, <4>1, <5>1
        <5> QED BY <5>1, <5>2
      <4> QED BY <4>2, <4>3
    <3>2. ASSUME NEW p, \E i \in DOMAIN received : received[i] = p
          PROVE  \E i \in DOMAIN received' : received'[i] = p
      BY <1>4, <3>2
    <3>3. \A n \in DOMAIN sent : Update(n) \in Packet
      BY <1>1, PacketFacts DEF Types
    <3> QED BY <1>1, <2>1, <3>1, <3>2, <3>3 DEF Accounted, Repeated
  <2> QED BY <1>1, <2>4, <2>5 DEF InSync
<1>11. ASSUME misread = 0, Closed
       PROVE  Drained'
  <2>1. Drained
    BY <1>1, <1>11 DEF IInv, Sync
  <2>2. Allowed(cmd) /\ cmd \in {"list", "join"}
    BY <1>1 DEF Control
  <2>3. status # "chatting"
    BY <2>2 DEF Allowed
  <2> QED BY <1>1, <2>3 DEF Drained, Awaiting
<1>12. Sync'
  BY <1>1, <1>10, <1>11 DEF Sync, Closed
<1> QED BY <1>5, <1>7, <1>8, <1>9, <1>12 DEF IInv

\* What a join prints has been sent.
LEMMA HistoryFacts ==
  ASSUME IInv
  PROVE  /\ History(received) \subseteq DOMAIN sent
         /\ \A n \in Nat : (\E i \in DOMAIN received : received[i] = Update(n))
                             => n \in History(received)
<1>1. \A i \in DOMAIN received : IsUpdate(received[i]) => received[i][2] \in DOMAIN sent
  BY DEF IInv, Numbered
<1>2. History(received) \subseteq DOMAIN sent
  BY <1>1 DEF History, IsUpdate
<1>3. \A n \in Nat : Update(n)[1] = "update" /\ Update(n)[2] = n
  BY DEF Update
<1> QED BY <1>2, <1>3 DEF History

LEMMA CollectEndsStep ==
  ASSUME IInv, CollectEnds
  PROVE  IInv'
<1> DEFINE a == IF received = << >> THEN NULL ELSE received[1]
<1>1. /\ pc = "collect" /\ toClient = << >> /\ Types /\ Control
      /\ received' = << >>
      /\ UNCHANGED <<monitor, monitor_running, shutdown_event, last_msg_recvd,
                     session, sent, toServer, toClient>>
  BY DEF IInv, CollectEnds, monitorVars, serverVars
<1>2. \/ /\ Answered(a)
         /\ a = Ack(cmd) => ~Garbled(received)
         /\ shown' = IF cmd = "join" /\ status' = "chatting"
                     THEN shown \cup History(received) ELSE shown
      \/ NoDisconnect(a) /\ UNCHANGED shown
      \/ Raise /\ UNCHANGED shown
      \/ /\ Closed /\ pc' = "postloop" /\ cmd' = NULL
         /\ UNCHANGED <<status, misread, shown>>
  BY DEF CollectEnds
<1> HIDE DEF a
<1>3. /\ status' \in {"connected", "logged_in", "chatting"} /\ pc' \in {"idle", "stuck", "postloop"}
      /\ cmd' = NULL /\ misread' \in Nat
      /\ misread' = 0 => misread = 0
      /\ misread' = 0 /\ ~Closed /\ pc' # "stuck" =>
           status' = StatusAfter(a) /\ pc' = "idle" /\ a \in {Ack(cmd), Reject(cmd)}
  <2>1. CASE Answered(a) \/ NoDisconnect(a)
    BY <2>1, AnsweredFacts
  <2>2. CASE ~(Answered(a) \/ NoDisconnect(a))
    BY <1>1, <1>2, <2>2 DEF Types, Raise
  <2> QED BY <2>1, <2>2
<1>4. shown \subseteq shown' /\ shown' \subseteq DOMAIN sent
  BY <1>1, <1>2, HistoryFacts DEF Types
<1>5. Types' /\ Control'
  <2>1. << >> \in Seq(Packet)
    OBVIOUS
  <2> QED BY <1>1, <1>3, <1>4, <2>1 DEF Types, Control
<1>6. Numbered' /\ LastShown' /\ MonitorLives' /\ Limits'
  <2>1. DOMAIN << >> = {}
    OBVIOUS
  <2> QED BY <1>1, <1>3, <1>4, <2>1
      DEF IInv, Numbered, LastShown, MonitorLives, ReadUndecodable, Limits
<1>7. ASSUME misread' = 0, ~Closed, pc' # "stuck"
      PROVE  InSync'
  <2>1. /\ misread = 0 /\ status' = StatusAfter(a) /\ pc' = "idle"
        /\ a \in {Ack(cmd), Reject(cmd)} /\ cmd \in {"list", "join"} /\ cmd \in Commands
        /\ status = "logged_in"
    BY <1>1, <1>3, <1>7 DEF Control, Allowed
  <2>2. received # << >> /\ a = received[1]
    BY <2>1, NullIsNothing DEF a
  <2>3. Telling /\ Accounted
    BY <1>1, <1>7, <2>1, <2>2, CommandFacts DEF Asked, Told
  <2>4. session = status' /\ toServer = << >>
    BY <2>1, <2>2, <2>3 DEF Telling
  <2>5. Resting'
    BY <1>1, <2>4, RestingEmpty
  <2>6. ASSUME NEW n \in DOMAIN sent, NEW i \in DOMAIN received, received[i] = Update(n)
        PROVE  n \in shown'
    <3>1. n \in Nat
      BY <1>1 DEF Types
    <3>2. IsUpdate(received[i])
      BY <2>6, <3>1, PacketFacts
    <3>3. status' = "chatting"
      BY <2>3, <2>4, <3>2 DEF Telling, Streams
    <3>4. cmd = "join"
      BY <2>1, <3>3 DEF StatusAfter
    <3>5. shown' = shown \cup History(received)
      BY <1>2, <1>7, <2>1, <3>3, <3>4 DEF NoDisconnect, Raise
    <3> QED BY <2>6, <3>1, <3>5, HistoryFacts
  <2>7. Accounted'
    <3>1. \A n \in DOMAIN sent : n \in shown' \/ Repeated(n) \/ sent[n] \in Undecodable
      BY <1>1, <1>4, <2>3, <2>6 DEF Accounted
    <3>2. \A n \in DOMAIN sent : Repeated(n) => Repeated(n)'
      BY <1>1, <1>4 DEF Repeated
    <3> QED BY <1>1, <3>1, <3>2 DEF Accounted
  <2> QED BY <2>1, <2>5, <2>7 DEF InSync
<1>8. Sync'
  <2>1. Drained'
    BY <1>1, <1>3 DEF Drained
  <2> QED BY <1>1, <1>7, <2>1 DEF Sync, Closed
<1> QED BY <1>5, <1>6, <1>8 DEF IInv
---------------------------------------------------------------------------
(* The monitor *)

LEMMA SelectStep ==
  ASSUME IInv, Select
  PROVE  IInv'
<1>1. /\ monitor' \in {"ready", "dead"} /\ (monitor' = "dead" => ~monitor_running)
      /\ UNCHANGED <<pc, cmd, received, monitor_running, shutdown_event, last_msg_recvd,
                     session, sent, status, shown, toServer, toClient, misread>>
  BY DEF Select, commandVars, serverVars
<1>2. Types' /\ Control'
  BY <1>1 DEF IInv, Types, Control, Allowed
<1>3. Numbered' /\ LastShown' /\ MonitorLives' /\ Limits'
  BY <1>1 DEF IInv, Numbered, LastShown, MonitorLives, ReadUndecodable, Limits
<1>4. Sync'
  <2>1. /\ Drained' = Drained /\ InSync' = InSync /\ Closed' = Closed
    BY <1>1 DEF Drained, Awaiting, InSync, Resting, Asked, Told, Telling, Accounted, Repeated,
                Closed, AllChats, AllUpdates, Streams, Answers, StatusAfter
  <2> QED BY <1>1, <2>1 DEF IInv, Sync
<1> QED BY <1>2, <1>3, <1>4 DEF IInv

LEMMA HandleChatStep ==
  ASSUME IInv, Take, status = "chatting", HandleChat
  PROVE  IInv'
<1> DEFINE p == toClient[1]
<1>1. /\ ~Locked /\ toClient # << >> /\ toClient' = Tail(toClient)
      /\ monitor' \in {"select", "dead"}
      /\ Types /\ Control
      /\ UNCHANGED <<pc, cmd, received, session, sent, status, toServer, misread,
                     monitor_running, shutdown_event>>
  BY DEF IInv, Take, HandleChat, commandVars, serverVars
<1>2. /\ toClient \in Seq(Packet) /\ p \in Packet /\ p = Head(toClient)
      /\ Len(toClient) \in Nat /\ Len(toClient) >= 1 /\ DOMAIN toClient = 1..Len(toClient)
  <2>1. toClient \in Seq(Packet)
    BY <1>1 DEF Types
  <2> QED BY <1>1, <2>1
<1>3. /\ toClient' \in Seq(Packet) /\ Len(toClient') = Len(toClient) - 1
      /\ \A i \in 1..Len(toClient') : toClient'[i] = toClient[i + 1]
      /\ DOMAIN toClient' = 1..Len(toClient')
      /\ Later(toClient', toClient)
  BY <1>1, <1>2, TailLater
<1>4. \/ /\ IsUpdate(p) /\ sent[p[2]] \in Undecodable
         /\ monitor' = "dead" /\ UNCHANGED <<shown, last_msg_recvd>>
      \/ /\ IsUpdate(p) /\ sent[p[2]] \notin Undecodable /\ sent[p[2]] # last_msg_recvd
         /\ monitor' = "select"
         /\ shown' = shown \cup {p[2]} /\ last_msg_recvd' = sent[p[2]]
      \/ /\ ~IsUpdate(p) \/ sent[p[2]] = last_msg_recvd
         /\ monitor' = "select" /\ UNCHANGED <<shown, last_msg_recvd>>
  <2> DEFINE q == Head(toClient)
  <2>1. \/ /\ IsUpdate(q) /\ sent[q[2]] \in Undecodable
           /\ monitor' = "dead" /\ UNCHANGED <<shown, last_msg_recvd>>
        \/ /\ IsUpdate(q) /\ sent[q[2]] \notin Undecodable \cup {last_msg_recvd}
           /\ monitor' = "select"
           /\ shown' = shown \cup {q[2]} /\ last_msg_recvd' = sent[q[2]]
        \/ /\ ~IsUpdate(q) \/ sent[q[2]] = last_msg_recvd
           /\ monitor' = "select" /\ UNCHANGED <<shown, last_msg_recvd>>
    BY DEF HandleChat, IsUpdate
  <2>2. q = p
    BY <1>2
  <2> HIDE DEF p, q
  <2> QED BY <2>1, <2>2
<1> HIDE DEF p
<1>5. IsUpdate(p) => p[2] \in DOMAIN sent /\ p[2] \in Nat /\ p = Update(p[2])
  <2>1. 1 \in DOMAIN toClient /\ p = toClient[1]
    BY <1>2 DEF p
  <2> QED BY <1>2, <2>1, PacketFacts DEF IInv, Numbered
<1>6. \A n \in DOMAIN sent : n \in Nat /\ sent[n] \in Text
  BY <1>1 DEF Types
<1>7. \A i \in DOMAIN toClient' : i + 1 \in DOMAIN toClient /\ 1 \in DOMAIN toClient
                                  /\ 1 < i + 1
  BY <1>2, <1>3
<1>8. Types'
  <2>1. shown' \subseteq DOMAIN sent /\ last_msg_recvd' \in Text \cup {NULL}
    BY <1>1, <1>4, <1>5, <1>6 DEF Types
  <2> QED BY <1>1, <1>3, <2>1 DEF Types
<1>9. Control'
  <2>1. Allowed(cmd)' = Allowed(cmd)
    BY <1>1 DEF Allowed
  <2> QED BY <1>1, <2>1 DEF Control
<1>10. Numbered' /\ Limits'
  BY <1>1, <1>3, ReadKeeps
<1>11. LastShown'
  <2>1. CASE /\ IsUpdate(p)
             /\ shown' = shown \cup {p[2]} /\ last_msg_recvd' = sent[p[2]]
    <3>1. shown' = shown \cup {p[2]} /\ last_msg_recvd' = sent[p[2]]
      BY <2>1
    <3>2. \A i \in DOMAIN toClient' : IsUpdate(toClient'[i]) => p[2] < toClient'[i][2]
      BY <1>3, <1>7, <2>1 DEF IInv, Numbered, p
    <3> QED BY <1>1, <3>1, <3>2 DEF LastShown
  <2>2. CASE UNCHANGED <<shown, last_msg_recvd>>
    BY <1>1, <1>3, <2>2, LaterFacts DEF IInv, LastShown
  <2> QED BY <1>4, <2>1, <2>2
<1>12. MonitorLives'
  <2> SUFFICES ASSUME monitor' = "dead"  PROVE ReadUndecodable'
    BY DEF MonitorLives
  <2>1. IsUpdate(p) /\ sent[p[2]] \in Undecodable /\ p[2] \in DOMAIN sent
    BY <1>4, <1>5
  <2>2. ASSUME NEW i \in DOMAIN toClient', toClient'[i] = Update(p[2])  PROVE FALSE
    <3>1. toClient[i + 1] = p /\ toClient[1] = p
      BY <1>3, <1>5, <2>1, <2>2 DEF p
    <3> QED BY <1>5, <1>7, <2>1, <3>1 DEF IInv, Numbered
  <2> QED BY <1>1, <2>1, <2>2 DEF ReadUndecodable
<1>13. ASSUME misread = 0, ~Closed, pc \notin {"quit", "done", "stuck"}
       PROVE  InSync'
  <2>1. pc \in {"idle", "prompt", "postloop", "join"} /\ Resting /\ Accounted /\ received = << >>
    BY <1>1, <1>13, CommandFacts DEF Types, Control, Locked, Awaiting
  <2>2. Resting'
    <3>1. \A i \in 1..Len(toClient') : IsUpdate(toClient'[i])
      BY <1>3, <1>7, <1>2, <2>1 DEF Resting, AllUpdates
    <3> QED BY <1>1, <2>1, <3>1 DEF Resting, AllChats, AllUpdates, Streams
  <2>3. ASSUME NEW n \in DOMAIN sent
        PROVE  \/ n \in shown' \/ Repeated(n)' \/ sent[n] \in Undecodable
               \/ \E i \in DOMAIN toClient' : toClient'[i] = Update(n)
    <3>1. CASE n \in shown \/ Repeated(n)
      BY <1>1, <1>4, <3>1 DEF Repeated
    <3>2. CASE p = Update(n)
      <4>1. IsUpdate(p) /\ p[2] = n
        BY <1>6, <3>2, PacketFacts
      <4>2. CASE sent[n] # last_msg_recvd /\ sent[n] \notin Undecodable
        BY <1>4, <4>1, <4>2
      <4>3. CASE sent[n] = last_msg_recvd
        <5>1. last_msg_recvd # NULL
          BY <1>6, <4>3, NullIsNothing
        <5>2. 1 \in DOMAIN toClient /\ toClient[1] = p
          BY <1>2 DEF p
        <5>3. PICK m \in shown :
                /\ sent[m] = last_msg_recvd
                /\ \A i \in DOMAIN toClient : IsUpdate(toClient[i]) => m < toClient[i][2]
          BY <5>1 DEF IInv, LastShown
        <5>4. m < n
          BY <4>1, <5>2, <5>3
        <5>5. m \in shown' /\ sent' = sent
          BY <1>1, <1>4, <5>3
        <5> QED BY <4>3, <5>3, <5>4, <5>5 DEF Repeated
      <4> QED BY <4>2, <4>3
    <3>3. CASE \E i \in DOMAIN toClient : toClient[i] = Update(n) /\ i # 1
      <4>1. PICK i \in DOMAIN toClient : toClient[i] = Update(n) /\ i # 1
        BY <3>3
      <4>2. i - 1 \in DOMAIN toClient' /\ (i - 1) + 1 = i
        BY <1>2, <1>3, <4>1
      <4> QED BY <1>3, <4>1, <4>2
    <3>4. \A i \in DOMAIN received : FALSE
      BY <2>1
    <3> QED BY <2>1, <3>1, <3>2, <3>3, <3>4 DEF Accounted, p
  <2> QED BY <1>1, <2>1, <2>2, <2>3 DEF InSync, Accounted
<1>14. ASSUME misread = 0, Closed, pc \notin {"quit", "done", "stuck"}
       PROVE  Drained'
  <2>1. Drained
    BY <1>14 DEF IInv, Sync
  <2>2. status' = "chatting" /\ pc' # "wait"
    BY <1>1 DEF Locked, Awaiting
  <2>3. \A i \in DOMAIN toClient' : toClient'[i] = Ack("leave") => i = Len(toClient')
    <3>1. \A i \in DOMAIN toClient : toClient[i] = Ack("leave") => i = Len(toClient)
      BY <2>1 DEF Drained
    <3> QED BY <1>2, <1>3, <1>7, <3>1
  <2> QED BY <2>2, <2>3 DEF Drained
<1>15. Sync'
  BY <1>1, <1>13, <1>14 DEF Sync, Closed
<1> QED BY <1>8, <1>9, <1>10, <1>11, <1>12, <1>15 DEF IInv

\* While the client is not chatting and no command waits, there is nothing to
\* read: the read of one byte cannot come in between.
LEMMA ReadByteStep ==
  ASSUME IInv, Take, status # "chatting", ReadByte
  PROVE  IInv'
<1>1. /\ ~Locked /\ toClient # << >> /\ monitor' = "dead"
      /\ toClient' = <<Rest(Head(toClient))>> \o Tail(toClient)
      /\ Types /\ Control
      /\ UNCHANGED <<pc, cmd, received, session, sent, status, toServer, misread,
                     monitor_running, shutdown_event, last_msg_recvd, shown>>
  BY DEF IInv, Take, ReadByte, commandVars, serverVars
<1>2. toClient \in Seq(Packet) /\ Head(toClient) \in Packet
  <2>1. toClient \in Seq(Packet)
    BY <1>1 DEF Types
  <2> QED BY <1>1, <2>1
<1>3. Rest(Head(toClient)) \in Packet /\ Rest(Head(toClient))[1] = "rest"
  BY <1>2, RestFacts
<1>4. toClient' \in Seq(Packet) /\ Later(toClient', toClient)
  BY <1>1, <1>2, <1>3, ReadLater
<1>5. Types'
  BY <1>1, <1>4 DEF Types
<1>6. Control'
  <2>1. Allowed(cmd)' = Allowed(cmd)
    BY <1>1 DEF Allowed
  <2> QED BY <1>1, <2>1 DEF Control
<1>7. Numbered' /\ Limits'
  BY <1>1, <1>4, ReadKeeps
<1>8. LastShown'
  BY <1>1, <1>4, LaterFacts DEF IInv, LastShown
<1>9. misread = 0 => pc \in {"quit", "done"}
  <2> SUFFICES ASSUME misread = 0, pc \notin {"quit", "done"}  PROVE FALSE
    OBVIOUS
  <2>1. CASE Closed
    BY <1>1, <2>1 DEF IInv, Sync, Drained, Locked
  <2>2. CASE ~Closed
    <3>1. Resting
      BY <1>1, <2>2, CommandFacts DEF Types, Locked, Awaiting
    <3> QED BY <1>1, <3>1 DEF Resting, Streams
  <2> QED BY <2>1, <2>2
<1>10. MonitorLives' /\ Sync'
  BY <1>1, <1>9 DEF MonitorLives, ReadUndecodable, Sync, Control
<1> QED BY <1>5, <1>6, <1>7, <1>8, <1>10 DEF IInv

LEMMA NothingReadStep ==
  ASSUME IInv, Take, Disconnection \/ Again
  PROVE  IInv'
<1>1. /\ monitor' \in {"select", "dead"} /\ (monitor' = "dead" => shutdown_event')
      /\ monitor_running' \in {monitor_running, FALSE}
      /\ shutdown_event' \in {shutdown_event, TRUE}
      /\ UNCHANGED <<pc, cmd, received, last_msg_recvd,
                     session, sent, status, shown, toServer, toClient, misread>>
  BY DEF Take, Disconnection, Again, commandVars, serverVars
<1>2. Types' /\ Control'
  <2>1. Types'
    <3>1. Types /\ monitor_running' \in BOOLEAN /\ shutdown_event' \in BOOLEAN
      BY <1>1 DEF IInv, Types
    <3> QED BY <1>1, <3>1 DEF Types
  <2>2. Allowed(cmd)' = Allowed(cmd)
    BY <1>1 DEF Allowed
  <2>3. pc \in {"join", "quit", "done"} => ~monitor_running'
    BY <1>1 DEF IInv, Control
  <2>4. Control'
    BY <1>1, <2>2, <2>3 DEF IInv, Control
  <2> QED BY <2>1, <2>4
<1>3. Numbered' /\ LastShown' /\ MonitorLives' /\ Limits'
  BY <1>1 DEF IInv, Numbered, LastShown, MonitorLives, ReadUndecodable, Limits
<1>4. Sync'
  <2>1. /\ Drained' = Drained /\ InSync' = InSync /\ Closed' = Closed
    BY <1>1 DEF Drained, Awaiting, InSync, Resting, Asked, Told, Telling, Accounted, Repeated,
                Closed, AllChats, AllUpdates, Streams, Answers, StatusAfter
  <2> QED BY <1>1, <2>1 DEF IInv, Sync
<1> QED BY <1>2, <1>3, <1>4 DEF IInv

LEMMA TakeStep ==
  ASSUME IInv, Take
  PROVE  IInv'
<1>1. \/ status = "chatting" /\ HandleChat
      \/ status # "chatting" /\ ReadByte
      \/ Disconnection \/ Again
  BY DEF Take
<1> QED BY <1>1, HandleChatStep, ReadByteStep, NothingReadStep
---------------------------------------------------------------------------
(* The session on the server *)

\* What a request can lead to.
LEMMA OutcomeFacts ==
  ASSUME NEW s \in {"connected", "logged_in", "chatting"}, NEW r \in Request,
         NEW o \in Outcomes(s, r)
  PROVE  /\ o.session \in {"connected", "logged_in", "chatting", "closed"}
         /\ \/ o.answers = << >>
            \/ \E p \in Packet : /\ o.answers = <<p>> \/ o.answers = <<p, Data>>
                                 /\ p[1] \in {"ack", "reject"}
         /\ r = "chat" /\ s = "chatting" => o.session = s /\ o.answers = << >>
<1>1. CASE r = "quit"
  BY <1>1, PacketFacts DEF Outcomes
<1>2. CASE r = "chat"
  BY <1>2, PacketFacts DEF Outcomes
<1>3. CASE r \in Commands
  <2>1. r \in {"login", "register", "admin", "list", "join", "logout", "leave"}
    BY <1>3 DEF Commands
  <2>2. /\ Ack(r) \in Packet /\ Ack(r)[1] = "ack"
        /\ Reject(r) \in Packet /\ Reject(r)[1] = "reject"
        /\ Fail \in Packet /\ Fail[1] = "reject"
    BY <1>3, PacketFacts
  <2>3. \/ o.answers = <<Fail>> /\ o.session = s
        \/ o.answers = <<Reject(r)>> /\ o.session = s
        \/ /\ o.answers = <<Ack(r)>> \/ o.answers = <<Ack(r), Data>>
           /\ o.session \in {"connected", "logged_in", "chatting"}
    BY <2>1 DEF Outcomes
  <2> QED BY <2>1, <2>2, <2>3
<1> QED BY <1>1, <1>2, <1>3 DEF Request

\* A command that client and server agree about is acknowledged or rejected.
LEMMA OutcomeOfAllowed ==
  ASSUME NEW c \in Commands, Allowed(c), status = session, cmd = c,
         NEW o \in Outcomes(session, c)
  PROVE  \E p \in {Ack(c), Reject(c)} :
           /\ Answers(p) /\ o.session = StatusAfter(p)
           /\ o.answers = <<p>> \/ (c \in {"list", "join"} /\ o.answers = <<p, Data>>)
           /\ c # "join" => o.session # "chatting"
           /\ o.session # "closed"
<1>1. \/ c \in {"login", "register"} /\ session = "connected"
      \/ c \in {"admin", "list", "join", "logout"} /\ session = "logged_in"
      \/ c = "leave" /\ session = "chatting"
  BY DEF Allowed, Commands
<1>2. /\ \A d \in Commands : Ack(c) # Reject(d)
      /\ \A d \in Commands : d # c => Ack(c) # Ack(d) /\ Reject(c) # Reject(d)
  BY DEF Ack, Reject
<1>3. CASE c = "login"
  BY <1>1, <1>2, <1>3 DEF Outcomes, StatusAfter, Answers
<1>4. CASE c = "register"
  BY <1>1, <1>2, <1>4 DEF Outcomes, StatusAfter, Answers
<1>5. CASE c = "admin"
  BY <1>1, <1>2, <1>5 DEF Outcomes, StatusAfter, Answers
<1>6. CASE c = "list"
  BY <1>1, <1>2, <1>6 DEF Outcomes, StatusAfter, Answers
<1>7. CASE c = "join"
  BY <1>1, <1>2, <1>7 DEF Outcomes, StatusAfter, Answers
<1>8. CASE c = "logout"
  BY <1>1, <1>2, <1>8 DEF Outcomes, StatusAfter, Answers
<1>9. CASE c = "leave"
  BY <1>1, <1>2, <1>9 DEF Outcomes, StatusAfter, Answers
<1> QED BY <1>1, <1>3, <1>4, <1>5, <1>6, <1>7, <1>8, <1>9

\* The packets t are the packets s and, behind them, answers.
WithAnswers(t, s) ==
  /\ t \in Seq(Packet) /\ Len(t) <= Len(s) + 2 /\ Len(s) <= Len(t)
  /\ \A i \in 1..Len(s) : t[i] = s[i]
  /\ \A i \in 1..Len(t) : i \notin 1..Len(s) => t[i][1] \in {"ack", "reject", "data"}

LEMMA ServeStep ==
  ASSUME IInv, Serve
  PROVE  IInv'
<1>1. /\ ~Closed /\ toServer # << >> /\ Len(toClient) < MaxInFlight /\ Types /\ Control
      /\ toServer' = Tail(toServer)
      /\ UNCHANGED <<pc, cmd, received, monitor, monitor_running, shutdown_event,
                     last_msg_recvd, status, shown, sent, misread>>
  BY DEF IInv, Serve, commandVars, monitorVars
<1>2. /\ toServer \in Seq(Request) /\ toClient \in Seq(Packet)
      /\ session \in {"connected", "logged_in", "chatting"}
      /\ Len(toServer) \in Nat /\ Len(toClient) \in Nat /\ MaxInFlight \in Nat
  BY <1>1, BoundsOK DEF Types, Closed
<1> PICK r : r = toServer[1]
  OBVIOUS
<1>3. /\ r \in Request /\ Head(toServer) = r /\ Len(toServer) >= 1
      /\ toServer' \in Seq(Request) /\ Len(toServer') = Len(toServer) - 1
      /\ \A i \in 1..Len(toServer') : toServer'[i] = toServer[i + 1]
      /\ DOMAIN toServer = 1..Len(toServer) /\ DOMAIN toServer' = 1..Len(toServer')
  BY <1>1, <1>2
<1>4. PICK o \in Outcomes(session, r) :
        session' = o.session /\ toClient' = toClient \o o.answers
  BY <1>3 DEF Serve
<1>5. /\ session' \in {"connected", "logged_in", "chatting", "closed"}
      /\ \/ o.answers = << >>
         \/ \E p \in Packet : /\ o.answers = <<p>> \/ o.answers = <<p, Data>>
                              /\ p[1] \in {"ack", "reject"}
      /\ r = "chat" /\ session = "chatting" => session' = session /\ o.answers = << >>
  BY <1>2, <1>3, <1>4, OutcomeFacts
<1>6. WithAnswers(toClient', toClient)
  <2>1. Data \in Packet /\ Data[1] = "data"
    BY PacketFacts
  <2>2. CASE o.answers = << >>
    BY <1>2, <1>4, <2>2 DEF WithAnswers
  <2>3. ASSUME NEW p \in Packet, p[1] \in {"ack", "reject"}, o.answers = <<p>>
        PROVE  WithAnswers(toClient', toClient)
    <3>1. toClient' = toClient \o <<p>>
      BY <1>4, <2>3
    <3>2. /\ toClient' \in Seq(Packet) /\ Len(toClient') = Len(toClient) + 1
          /\ \A i \in 1..Len(toClient) : toClient'[i] = toClient[i]
          /\ toClient'[Len(toClient) + 1] = p
      BY <1>2, <3>1
    <3> QED BY <1>2, <2>3, <3>2 DEF WithAnswers
  <2>4. ASSUME NEW p \in Packet, p[1] \in {"ack", "reject"}, o.answers = <<p, Data>>
        PROVE  WithAnswers(toClient', toClient)
    <3>1. toClient' = toClient \o <<p, Data>>
      BY <1>4, <2>4
    <3>2. /\ toClient' \in Seq(Packet) /\ Len(toClient') = Len(toClient) + 2
          /\ \A i \in 1..Len(toClient) : toClient'[i] = toClient[i]
          /\ toClient'[Len(toClient) + 1] = p /\ toClient'[Len(toClient) + 2] = Data
      BY <1>2, <2>1, <3>1
    <3> QED BY <1>2, <2>1, <2>4, <3>2 DEF WithAnswers
  <2> QED BY <1>5, <2>2, <2>3, <2>4
<1> USE DEF WithAnswers
<1>7. \A i \in DOMAIN toClient' : IsUpdate(toClient'[i]) \/ toClient'[i][1] = "rest" =>
        i \in DOMAIN toClient /\ toClient'[i] = toClient[i]
  BY <1>2, <1>6 DEF IsUpdate
<1>8. Types'
  BY <1>1, <1>3, <1>5, <1>6 DEF Types
<1>9. Control'
  <2>1. Allowed(cmd)' = Allowed(cmd)
    BY <1>1 DEF Allowed
  <2>2. \A i \in DOMAIN toServer' : toServer'[i] = "quit" =>
          pc \in {"quit", "done"} /\ i = Len(toServer')
    <3>1. \A i \in DOMAIN toServer' : i + 1 \in DOMAIN toServer /\ i \in Nat
      BY <1>2, <1>3
    <3>2. \A i \in DOMAIN toServer : toServer[i] = "quit" =>
            pc \in {"quit", "done"} /\ i = Len(toServer)
      BY <1>1 DEF Control
    <3> QED BY <1>2, <1>3, <3>1, <3>2
  <2> QED BY <1>1, <2>1, <2>2 DEF Control
<1>10. Numbered' /\ LastShown'
  <2>1. Numbered'
    BY <1>1, <1>7 DEF IInv, Numbered, IsUpdate
  <2>2. LastShown'
    BY <1>1, <1>7 DEF IInv, LastShown, IsUpdate
  <2> QED BY <2>1, <2>2
<1>11. Limits'
  <2>1. \A i \in DOMAIN toClient' : toClient'[i][1] = "rest" => i = 1
    BY <1>7 DEF IInv, Limits
  <2>2. Len(toClient') <= MaxInFlight + 1
    BY <1>1, <1>2, <1>6
  <2>3. /\ Len(toServer') <= MaxInFlight + 1
        /\ pc \notin {"quit", "done"} => Len(toServer') <= MaxInFlight
    BY <1>2, <1>3 DEF IInv, Limits
  <2> QED BY <1>1, <2>1, <2>2, <2>3 DEF Limits
<1>12. MonitorLives'
  <2>1. ASSUME ReadUndecodable  PROVE ReadUndecodable'
    <3>1. PICK n \in DOMAIN sent :
            /\ sent[n] \in Undecodable
            /\ \A i \in DOMAIN toClient : toClient[i] # Update(n)
      BY <2>1 DEF ReadUndecodable
    <3>2. IsUpdate(Update(n))
      BY <1>1, PacketFacts DEF Types
    <3>3. \A i \in DOMAIN toClient' : toClient'[i] # Update(n)
      BY <1>7, <3>1, <3>2
    <3> QED BY <1>1, <3>1, <3>3 DEF ReadUndecodable
  <2> QED BY <1>1, <2>1 DEF IInv, MonitorLives
<1>13. ASSUME misread = 0, pc \notin {"quit", "done", "stuck"}
       PROVE  ~Closed' /\ InSync'
  <2>1. /\ pc \in {"idle", "prompt", "postloop", "join"} => Resting
        /\ pc \in {"wait", "collect"} => Asked
        /\ Accounted /\ pc \in {"idle", "prompt", "postloop", "join", "wait", "collect"}
    BY <1>1, <1>13, CommandFacts DEF Types, Told, Telling
  <2>2. Accounted'
    <3>1. \A n \in Nat, i \in DOMAIN toClient :
            toClient[i] = Update(n) => i \in DOMAIN toClient' /\ toClient'[i] = Update(n)
      BY <1>2, <1>6
    <3>2. \A n \in DOMAIN sent : n \in Nat
      BY <1>1 DEF Types
    <3> QED BY <1>1, <2>1, <3>1, <3>2 DEF Accounted, Repeated
  <2>3. CASE Resting /\ pc \in {"idle", "prompt", "postloop", "join"}
    <3>1. r = "chat" /\ session = "chatting"
      BY <1>1, <1>2, <1>3, <2>3 DEF Resting, AllChats, Streams
    <3>2. session' = session /\ toClient' = toClient
      BY <1>2, <1>4, <1>5, <3>1
    <3>3. \A i \in 1..Len(toServer') : toServer'[i] = "chat"
      BY <1>2, <1>3, <2>3 DEF Resting, AllChats
    <3>4. Resting'
      BY <1>1, <2>3, <3>1, <3>2, <3>3 DEF Resting, AllChats, AllUpdates, Streams
    <3> QED BY <1>1, <2>2, <2>3, <3>1, <3>2, <3>4 DEF InSync, Closed
  <2>4. CASE Asked /\ pc \in {"wait", "collect"} /\ Len(toServer) > 1
    <3>1. r = "chat" /\ session = "chatting"
      BY <1>2, <1>3, <2>4 DEF Asked, AllChats, Streams
    <3>2. session' = session /\ toClient' = toClient
      BY <1>2, <1>4, <1>5, <3>1
    <3>3. /\ toServer' # << >> /\ toServer'[Len(toServer')] = cmd
          /\ \A i \in 1..(Len(toServer') - 1) : toServer'[i] = "chat"
      BY <1>2, <1>3, <2>4 DEF Asked, AllChats
    <3>4. Asked'
      BY <1>1, <2>4, <3>1, <3>2, <3>3 DEF Asked, AllChats, AllUpdates, Streams
    <3> QED BY <1>1, <2>2, <2>4, <3>1, <3>2, <3>4 DEF InSync, Closed
  <2>5. CASE Asked /\ pc \in {"wait", "collect"} /\ Len(toServer) = 1
    <3>1. r = cmd /\ cmd \in Commands /\ Allowed(cmd) /\ status = session /\ received = << >>
      BY <1>1, <1>3, <2>5 DEF Asked, Control
    <3>2. PICK p \in {Ack(cmd), Reject(cmd)} :
            /\ Answers(p) /\ o.session = StatusAfter(p)
            /\ o.answers = <<p>> \/ (cmd \in {"list", "join"} /\ o.answers = <<p, Data>>)
            /\ cmd # "join" => o.session # "chatting"
            /\ o.session # "closed"
      BY <1>4, <3>1, OutcomeOfAllowed
    <3>3. p \in Packet /\ p[1] \in {"ack", "reject"}
      BY <3>1, PacketFacts
    <3>4. toServer' = << >>
      BY <1>2, <1>3, <2>5
    <3>5. session' = StatusAfter(p)' /\ Answers(p)' /\ ~Closed'
      BY <1>1, <1>4, <3>2 DEF StatusAfter, Answers, Closed
    <3>6. \A i \in 1..Len(toClient) : IsUpdate(toClient[i])
      BY <2>5 DEF Asked, AllUpdates
    <3>7. CASE pc = "wait"
      <4>1. cmd \notin {"list", "join"} /\ o.answers = <<p>> /\ session' # "chatting"
        BY <1>1, <1>4, <3>2, <3>7 DEF Control
      <4>2. /\ toClient' # << >> /\ Len(toClient') = Len(toClient) + 1
            /\ toClient'[Len(toClient')] = p
        BY <1>2, <1>4, <3>3, <4>1
      <4>3. Len(toClient') > 1 => cmd = "leave"
        <5>1. Len(toClient') > 1 => session = "chatting"
          BY <1>2, <2>5, <4>2 DEF Asked, Streams
        <5> QED BY <3>1, <5>1 DEF Allowed, Commands
      <4>4. \A i \in 1..(Len(toClient') - 1) : IsUpdate(toClient'[i])
        BY <1>2, <1>6, <3>6, <4>2
      <4>5. Told'
        BY <1>1, <3>4, <3>5, <3>7, <4>1, <4>2, <4>3, <4>4 DEF Told, AllUpdates, Streams
      <4> QED BY <1>1, <2>2, <2>5, <3>5, <4>5 DEF InSync
    <3>8. CASE pc = "collect"
      <4>1. cmd \in {"list", "join"} /\ status = "logged_in"
        BY <1>1, <3>1, <3>8 DEF Control, Allowed
      <4>2. toClient = << >>
        BY <2>5, <3>1, <4>1 DEF Asked, Streams
      <4>3. toClient' = <<p>> \/ toClient' = <<p, Data>>
        <5>1. Data \in Packet
          BY PacketFacts
        <5> QED BY <1>4, <3>2, <3>3, <4>2, <5>1
      <4>4. /\ received' = << >> /\ toClient' # << >> /\ toClient'[1] = p
            /\ received' \o toClient' # << >>
        BY <1>1, <1>6, <3>1, <4>3
      <4>5. \A i \in DOMAIN toClient' : ~IsUpdate(toClient'[i])
        BY <1>6, <1>7, <4>2
      <4>6. Telling'
        BY <1>1, <3>4, <3>5, <3>8, <4>4, <4>5 DEF Telling
      <4> QED BY <1>1, <2>2, <2>5, <3>5, <4>6 DEF InSync
    <3> QED BY <2>5, <3>7, <3>8
  <2> QED BY <1>2, <1>3, <2>1, <2>3, <2>4, <2>5
<1>14. Sync'
  BY <1>1, <1>13 DEF Sync
<1> QED BY <1>8, <1>9, <1>10, <1>11, <1>12, <1>14 DEF IInv

LEMMA OtherChatsStep ==
  ASSUME IInv, OtherChats
  PROVE  IInv'
<1>1. /\ session = "chatting" /\ Len(toClient) < MaxInFlight /\ Types /\ Control /\ ~Closed
      /\ toClient' = Append(toClient, Update(Len(sent) + 1))
      /\ \E text \in Text : sent' = Append(sent, text)
      /\ UNCHANGED <<pc, cmd, received, monitor, monitor_running, shutdown_event,
                     last_msg_recvd, session, status, shown, toServer, misread>>
  BY DEF IInv, OtherChats, Closed, commandVars, monitorVars
<1> PICK k : k = Len(sent) + 1
  OBVIOUS
<1>2. /\ sent \in Seq(Text) /\ Len(sent) \in Nat /\ k \in Nat
      /\ DOMAIN sent = 1..Len(sent) /\ MaxInFlight \in Nat
      /\ toClient \in Seq(Packet) /\ Update(k) \in Packet
      /\ IsUpdate(Update(k)) /\ Update(k)[2] = k /\ Update(k)[1] # "rest"
  BY <1>1, BoundsOK, PacketFacts DEF Types
<1>3. /\ toClient' \in Seq(Packet) /\ toClient' # << >> /\ Len(toClient') = Len(toClient) + 1
      /\ toClient'[Len(toClient')] = Update(k) /\ Len(toClient) \in Nat
      /\ DOMAIN toClient' = 1..(Len(toClient) + 1) /\ DOMAIN toClient = 1..Len(toClient)
      /\ \A i \in 1..Len(toClient) : toClient'[i] = toClient[i]
  BY <1>1, <1>2, Appended
<1>4. /\ sent' \in Seq(Text) /\ DOMAIN sent' = DOMAIN sent \cup {k} /\ k \notin DOMAIN sent
      /\ \A n \in DOMAIN sent : sent'[n] = sent[n] /\ n < k
  BY <1>1, <1>2
<1>5. \A i \in DOMAIN toClient' :
        \/ i \in DOMAIN toClient /\ toClient'[i] = toClient[i]
        \/ i = Len(toClient) + 1 /\ toClient'[i] = Update(k)
  BY <1>3
<1>6. Types'
  BY <1>1, <1>3, <1>4 DEF Types
<1>7. Control'
  <2>1. Allowed(cmd)' = Allowed(cmd)
    BY <1>1 DEF Allowed
  <2> QED BY <1>1, <2>1 DEF Control
<1>8. Numbered'
  <2>1. \A i \in DOMAIN toClient : IsUpdate(toClient[i]) => toClient[i][2] \in DOMAIN sent
    BY DEF IInv, Numbered
  <2>2. \A i \in DOMAIN toClient' : IsUpdate(toClient'[i]) => toClient'[i][2] \in DOMAIN sent'
    BY <1>2, <1>4, <1>5, <2>1
  <2>3. \A i \in DOMAIN received : IsUpdate(received[i]) => received[i][2] \in DOMAIN sent'
    BY <1>4 DEF IInv, Numbered
  <2>4. ASSUME NEW i \in DOMAIN toClient', NEW j \in DOMAIN toClient', i < j,
               IsUpdate(toClient'[i]), IsUpdate(toClient'[j])
        PROVE  toClient'[i][2] < toClient'[j][2]
    <3>1. i \in DOMAIN toClient /\ toClient'[i] = toClient[i]
      BY <1>3, <1>5, <2>4
    <3>2. CASE j \in DOMAIN toClient /\ toClient'[j] = toClient[j]
      BY <2>4, <3>1, <3>2 DEF IInv, Numbered
    <3>3. CASE toClient'[j] = Update(k)
      BY <1>2, <1>4, <2>1, <2>4, <3>1, <3>3
    <3> QED BY <1>5, <3>2, <3>3
  <2> QED BY <1>1, <2>2, <2>3, <2>4 DEF Numbered
<1>9. LastShown'
  <2> SUFFICES ASSUME last_msg_recvd # NULL
               PROVE  \E m \in shown :
                        /\ sent'[m] = last_msg_recvd
                        /\ \A i \in DOMAIN toClient' :
                             IsUpdate(toClient'[i]) => m < toClient'[i][2]
    BY <1>1 DEF LastShown
  <2>1. PICK m \in shown :
          /\ sent[m] = last_msg_recvd
          /\ \A i \in DOMAIN toClient : IsUpdate(toClient[i]) => m < toClient[i][2]
    BY DEF IInv, LastShown
  <2>2. m \in DOMAIN sent
    BY <1>1 DEF Types
  <2>3. \A i \in DOMAIN toClient' : IsUpdate(toClient'[i]) => m < toClient'[i][2]
    BY <1>2, <1>4, <1>5, <2>1, <2>2
  <2> QED BY <1>4, <2>1, <2>2, <2>3
<1>10. Limits'
  <2>1. \A i \in DOMAIN toClient' : toClient'[i][1] = "rest" => i = 1
    BY <1>2, <1>5 DEF IInv, Limits
  <2>2. Len(toClient') <= MaxInFlight + 1
    BY <1>1, <1>2, <1>3
  <2> QED BY <1>1, <2>1, <2>2 DEF IInv, Limits
<1>11. MonitorLives'
  <2>1. ASSUME ReadUndecodable  PROVE ReadUndecodable'
    <3>1. PICK n \in DOMAIN sent :
            /\ sent[n] \in Undecodable
            /\ \A i \in DOMAIN toClient : toClient[i] # Update(n)
      BY <2>1 DEF ReadUndecodable
    <3>2. Update(n)[2] = n /\ n # k
      BY <1>1, <1>4, <3>1, PacketFacts DEF Types
    <3>3. \A i \in DOMAIN toClient' : toClient'[i] # Update(n)
      BY <1>2, <1>5, <3>1, <3>2
    <3> QED BY <1>4, <3>1, <3>3 DEF ReadUndecodable
  <2> QED BY <1>1, <2>1 DEF IInv, MonitorLives
<1>12. ASSUME misread = 0, pc \notin {"quit", "done", "stuck"}
       PROVE  InSync'
  <2>1. /\ pc \in {"idle", "prompt", "postloop", "join"} => Resting
        /\ pc \in {"wait", "collect"} => Asked \/ Telling
        /\ Accounted
    BY <1>1, <1>12, CommandFacts DEF Told, Streams
  <2>2. Resting => Resting'
    <3> SUFFICES ASSUME Resting  PROVE Resting'
      OBVIOUS
    <3>1. \A i \in 1..Len(toClient') : IsUpdate(toClient'[i])
      BY <1>2, <1>3, <1>5 DEF Resting, AllUpdates
    <3> QED BY <1>1, <3>1 DEF Resting, AllChats, AllUpdates, Streams
  <2>3. Asked => Asked'
    <3> SUFFICES ASSUME Asked  PROVE Asked'
      OBVIOUS
    <3>1. \A i \in 1..Len(toClient') : IsUpdate(toClient'[i])
      BY <1>2, <1>3, <1>5 DEF Asked, AllUpdates
    <3> QED BY <1>1, <3>1 DEF Asked, AllChats, AllUpdates, Streams
  <2>4. Telling => Telling'
    <3> SUFFICES ASSUME Telling  PROVE Telling'
      OBVIOUS
    <3>1. /\ received # << >> \/ toClient # << >>
          /\ received = << >> => toClient'[1] = toClient[1]
      <4>1. received # << >> \/ toClient # << >>
        BY DEF Telling
      <4> QED BY <1>2, <1>3, <4>1
    <3>2. received' \o toClient' # << >>
      BY <1>1, <1>3 DEF Types
    <3>3. \A a : StatusAfter(a)' = StatusAfter(a) /\ Answers(a)' = Answers(a)
      BY <1>1 DEF StatusAfter, Answers
    <3>4. Streams /\ Streams'
      BY <1>1 DEF Streams
    <3>5. LET answer == IF received # << >> THEN received[1] ELSE toClient[1]
          IN  Answers(answer) /\ session = StatusAfter(answer)
      BY DEF Telling
    <3> QED BY <1>1, <3>1, <3>2, <3>3, <3>4, <3>5 DEF Telling
  <2>5. Accounted'
    <3>1. ASSUME NEW n \in DOMAIN sent
          PROVE  \/ n \in shown \/ Repeated(n)' \/ sent[n] \in Undecodable
                 \/ \E i \in DOMAIN toClient' : toClient'[i] = Update(n)
                 \/ \E i \in DOMAIN received : received[i] = Update(n)
      <4>1. CASE Repeated(n)
        <5>1. shown \subseteq DOMAIN sent
          BY <1>1 DEF Types
        <5> QED BY <1>1, <1>4, <4>1, <5>1 DEF Repeated
      <4>2. CASE \E i \in DOMAIN toClient : toClient[i] = Update(n)
        BY <1>3, <4>2
      <4> QED BY <2>1, <4>1, <4>2 DEF Accounted
    <3>2. \E i \in DOMAIN toClient' : toClient'[i] = Update(k)
      BY <1>3
    <3> QED BY <1>1, <1>4, <3>1, <3>2 DEF Accounted
  <2> QED BY <1>1, <2>1, <2>2, <2>3, <2>4, <2>5 DEF InSync
<1>13. Sync'
  BY <1>1, <1>12 DEF Sync, Closed
<1> QED BY <1>6, <1>7, <1>8, <1>9, <1>10, <1>11, <1>13 DEF IInv

LEMMA CloseStep ==
  ASSUME IInv, Close
  PROVE  IInv'
<1>1. /\ ~Closed /\ session' = "closed" /\ toServer' = << >> /\ Types /\ Control
      /\ UNCHANGED <<pc, cmd, received, monitor, monitor_running, shutdown_event,
                     last_msg_recvd, sent, status, shown, toClient, misread>>
  BY DEF IInv, Close, commandVars, monitorVars
<1>2. << >> \in Seq(Request) /\ Len(<< >>) = 0 /\ DOMAIN << >> = {}
  OBVIOUS
<1>3. Types'
  BY <1>1, <1>2 DEF Types
<1>4. Control'
  <2>1. Allowed(cmd)' = Allowed(cmd)
    BY <1>1 DEF Allowed
  <2> QED BY <1>1, <1>2, <2>1 DEF Control
<1>5. Numbered' /\ LastShown' /\ MonitorLives'
  BY <1>1 DEF IInv, Numbered, LastShown, MonitorLives, ReadUndecodable
<1>6. Limits'
  BY <1>1, <1>2, BoundsOK DEF IInv, Limits
<1>7. ASSUME misread = 0, pc \notin {"quit", "done", "stuck"}
      PROVE  Drained'
  <2>1. /\ pc \in {"idle", "prompt", "postloop", "join"} => Resting
        /\ pc \in {"wait", "collect"} => Asked \/ Told \/ Telling
    BY <1>1, <1>7, CommandFacts
  <2>2. /\ toClient \in Seq(Packet) /\ Len(toClient) \in Nat
        /\ DOMAIN toClient = 1..Len(toClient)
    BY <1>1 DEF Types
  <2>3. ~Awaiting => Resting
    BY <1>1, <1>7, <2>1 DEF Types, Awaiting
  <2>4. Awaiting => cmd \in Commands /\ Allowed(cmd) /\ (pc = "collect" => status = "logged_in")
    BY <1>1 DEF Control, Awaiting, Allowed
  <2>5. ~Awaiting /\ status # "chatting" => toClient = << >>
    BY <2>3 DEF Resting, Streams
  <2>6. ASSUME status = "chatting", NEW i \in DOMAIN toClient, toClient[i] = Ack("leave")
        PROVE  i = Len(toClient)
    <3>1. ~IsUpdate(toClient[i])
      BY <2>6, PacketFacts DEF IsUpdate, Commands
    <3>2. Resting \/ Asked \/ Told
      BY <2>1, <2>3, <2>4, <2>6 DEF Awaiting, Telling
    <3> QED BY <2>2, <3>1, <3>2 DEF Resting, Asked, Told, AllUpdates
  <2>7. ASSUME pc = "wait", cmd # "leave"
        PROVE  Len(toClient) <= 1 /\ \A i \in DOMAIN toClient : toClient[i][1] \in {"ack", "reject"}
    <3>1. cmd \in Commands /\ status # "chatting"
      BY <2>4, <2>7 DEF Awaiting, Allowed, Commands
    <3>2. CASE Asked
      <4>1. toClient = << >>
        BY <3>1, <3>2 DEF Asked, Streams
      <4> QED BY <2>2, <4>1
    <3>3. CASE Told
      <4>1. Len(toClient) = 1
        BY <2>2, <2>7, <3>3 DEF Told
      <4>2. toClient[1] \in {Ack(cmd), Reject(cmd)}
        BY <3>3, <4>1 DEF Told, Answers
      <4> QED BY <2>2, <3>1, <4>1, <4>2, PacketFacts
    <3> QED BY <2>1, <2>7, <3>2, <3>3 DEF Telling
  <2>8. Awaiting' = Awaiting
    BY <1>1 DEF Awaiting
  <2> QED BY <1>1, <2>5, <2>6, <2>7, <2>8 DEF Drained
<1>8. Sync'
  BY <1>1, <1>7 DEF Sync, Closed
<1> QED BY <1>3, <1>4, <1>5, <1>6, <1>8 DEF IInv

---------------------------------------------------------------------------
(* Theorems *)

LEMMA InitStep ==
  ASSUME Init
  PROVE  IInv
<1>1. /\ DOMAIN << >> = {} /\ << >> \in Seq(Packet) /\ << >> \in Seq(Request)
      /\ << >> \in Seq(Text) /\ Len(<< >>) = 0
  OBVIOUS
<1>2. Types /\ Control
  BY <1>1 DEF Init, Types, Control
<1>3. Numbered /\ LastShown /\ MonitorLives
  BY <1>1 DEF Init, Numbered, LastShown, MonitorLives, ReadUndecodable
<1>4. Limits
  BY <1>1, BoundsOK DEF Init, Limits
<1>5. Sync
  <2>1. ~Closed /\ Accounted
    BY <1>1 DEF Init, Closed, Accounted
  <2>2. Resting
    BY RestingEmpty DEF Init
  <2> QED BY <2>1, <2>2 DEF Init, Sync, InSync
<1> QED BY <1>2, <1>3, <1>4, <1>5 DEF IInv

LEMMA StutterStep ==
  ASSUME IInv, UNCHANGED vars
  PROVE  IInv'
<1>1. UNCHANGED <<pc, cmd, received, monitor, monitor_running, shutdown_event,
                  last_msg_recvd, session, sent, status, shown, toServer, toClient,
                  misread>>
  BY DEF vars, commandVars, monitorVars, serverVars
<1>2. Types' /\ Control'
  BY <1>1 DEF IInv, Types, Control, Allowed
<1>3. Numbered' /\ LastShown' /\ MonitorLives' /\ Limits'
  BY <1>1 DEF IInv, Numbered, LastShown, MonitorLives, ReadUndecodable, Limits
<1>4. Sync'
  BY <1>1 DEF IInv, Sync, Drained, Awaiting, InSync, Resting, Asked, Told, Telling, Accounted,
              Repeated, Closed, AllChats, AllUpdates, Streams, Answers, StatusAfter
<1> QED BY <1>2, <1>3, <1>4 DEF IInv

LEMMA Step ==
  ASSUME IInv, [Next]_vars
  PROVE  IInv'
<1>1. ASSUME NEW c \in Commands, Send(c)  PROVE IInv'
  BY <1>1, SendStep
<1>15. ASSUME NEW c \in Commands, Ask(c) \/ GiveUp  PROVE IInv'
  BY <1>15, AskStep
<1>16. CASE GiveUp
  <2>1. "list" \in Commands
    BY DEF Commands
  <2> QED BY <1>15, <1>16, <2>1
<1>2. CASE SendChat  BY <1>2, SendChatStep
<1>3. CASE Stop \/ StopMonitor  BY <1>3, StopStep
<1>4. CASE RecvAnswer  BY <1>4, RecvAnswerStep
<1>5. CASE RecvEnd  BY <1>5, RecvEndStep
<1>6. CASE Collect  BY <1>6, CollectStep
<1>7. CASE CollectEnds  BY <1>7, CollectEndsStep
<1>8. CASE Select  BY <1>8, SelectStep
<1>9. CASE Take  BY <1>9, TakeStep
<1>10. CASE Quit \/ QuitAnswered  BY <1>10, QuitStep
<1>11. CASE Serve  BY <1>11, ServeStep
<1>12. CASE OtherChats  BY <1>12, OtherChatsStep
<1>13. CASE Close  BY <1>13, CloseStep
<1>14. CASE UNCHANGED vars  BY <1>14, StutterStep
<1> QED BY <1>1, <1>2, <1>3, <1>4, <1>5, <1>6, <1>7, <1>8, <1>9, <1>10, <1>11, <1>12,
           <1>13, <1>14, <1>15, <1>16 DEF Next

\* The inductive invariant: whoever holds the mutex knows what is on the way,
\* as long as no command has taken for its answer what is none.
THEOREM Invariance == Spec => []IInv
<1>1. Init => IInv
  BY InitStep
<1>2. IInv /\ [Next]_vars => IInv'
  BY Step
<1> QED BY <1>1, <1>2, PTL DEF Spec

\* The states, the bounds on what is on the way, the place of the rest of a
\* packet, and that only chats that were sent are printed: cr_state and the
\* threads of cr_client.py.
THEOREM ClientTypes == Spec => []TypeOK
<1>1. IInv => TypeOK
  <2> SUFFICES ASSUME IInv  PROVE TypeOK
    OBVIOUS
  <2>1. Types /\ Control /\ Limits
    BY DEF IInv
  <2>2. pc = "wait" => cmd \in {"login", "register", "admin", "logout", "leave"}
    BY <2>1 DEF Control, Commands
  <2> QED BY <2>1, <2>2 DEF TypeOK, Types, Control, Limits
<1> QED BY <1>1, Invariance, PTL

\* Client and server agree on the state of the session whenever nothing is on
\* the way and no command has misread its answer: update_state and the
\* handlers of cr_session_manager.c.
THEOREM StatesAgree == Spec => []Agreement
<1>1. IInv => Agreement
  BY DEF IInv, Sync, InSync, Resting, Agreement, Quiet
<1> QED BY <1>1, Invariance, PTL

\* The monitor ends only when it is told to, has seen the connection go or has
\* read a chat that it could not decode: no command leaves anything that its
\* read of one byte could take.
THEOREM MonitorStays == Spec => []MonitorLives
<1>1. IInv => MonitorLives
  BY DEF IInv
<1> QED BY <1>1, Invariance, PTL

\* A chat that was not printed repeats one that was, unless it could not be
\* decoded: what _handle_chats leaves out, whether it came to the monitor or
\* behind the log of a join.
THEOREM OnlyRepeatedHidden == Spec => []HiddenIsRepeated
<1>1. IInv => HiddenIsRepeated
  <2> SUFFICES ASSUME IInv, Quiet, misread = 0, NEW n \in DOMAIN sent \ shown
               PROVE  \/ sent[n] \in Undecodable
                      \/ \E m \in shown : m < n /\ sent[m] = sent[n]
    BY DEF HiddenIsRepeated
  <2>1. Accounted /\ received = << >> /\ toClient = << >>
    BY DEF IInv, Sync, InSync, Quiet, Control
  <2>2. DOMAIN << >> = {}
    OBVIOUS
  <2> QED BY <2>1, <2>2 DEF Accounted, Repeated
<1> QED BY <1>1, Invariance, PTL

=============================================================================
