------------------------------- MODULE Client -------------------------------
(***************************************************************************)
(* The Python client, chatroomclient/cr_client.py, and its session on the  *)
(* server.  Two threads of the client use one TLS socket: the commands,    *)
(* which hold ssl_mutex from _pre_cmd_lock to _post_cmd_release, and       *)
(* _monitor_socket, which waits in select without the mutex and reads with *)
(* it.                                                                     *)
(*                                                                         *)
(* A read returns at most one packet (a TLS record), or the first bytes of *)
(* one: what is left of it is no longer seen by select.  The command       *)
(* "admin" stands for admin, admin_remove, deluser, addroom and delroom.   *)
(*                                                                         *)
(* An exception that leaves a command is printed by cmd2, which then runs  *)
(* no _post_cmd_release: the mutex stays locked, and the next command      *)
(* waits for it for ever (pc = "stuck").                                   *)
(***************************************************************************)
EXTENDS Integers, Sequences

CONSTANTS
  Text,          \* of the chats of others
  Undecodable,   \* those of them that a packet cuts within a character
  MaxInFlight,   \* bound on the packets on the way, in each direction
  MaxUpdates,    \* bound of the model on the chats of others
  MaxMisread,    \* bound of the model: the user gives up after so many misreads
  NULL

VARIABLES
  pc, cmd, received,  \* of the command thread
  status,             \* cr_state: "connected", "logged_in" or "chatting"
  monitor,            \* "select", "ready" (select has returned) or "dead"
  monitor_running, shutdown_event,
  last_msg_recvd,
  shown,              \* the numbers of the chats of others that were printed
  toServer, toClient, \* requests and packets on the way
  session,            \* the state of the session on the server, or "closed"
  sent,               \* history: the chats sent to this client
  misread             \* history: how many commands took as their answer what was not

commandVars == <<pc, cmd, received>>
monitorVars == <<monitor, monitor_running, shutdown_event, last_msg_recvd>>
serverVars  == <<session, sent>>
vars == <<commandVars, monitorVars, serverVars, status, shown, toServer, toClient,
          misread>>

ASSUME BoundsOK ==
  MaxInFlight \in Nat /\ MaxUpdates \in Nat /\ MaxMisread \in Nat

ASSUME TextsOK == Undecodable \subseteq Text

Commands == {"login", "register", "admin", "list", "join", "logout", "leave"}

\* Those that ask the user for names and passwords.
Prompting == {"login", "register", "admin", "join"}

Ack(request) == <<"ack", request>>
Reject(request) == <<"reject", request>>
Fail == <<"reject", "fail">>
Data == <<"data">>             \* a list of rooms, or the log of a room
Update(n) == <<"update", n>>

ASSUME NullIsNothing ==
  NULL \notin Text /\ \A c \in Commands : NULL \notin {Ack(c), Reject(c)}

Rest(packet) == <<"rest", packet[1] \notin {"ack", "reject"}>>

\* What a recv of four bytes leaves of a packet.
Rests(packet) ==
  CASE packet[1] \in {"ack", "reject"} -> {<< >>}
    [] packet[1] \in {"data", "update"} -> {<<Rest(packet)>>}
    [] packet = <<"rest", FALSE>> -> {<< >>}
    [] OTHER -> {<< >>, <<packet>>}

\* Faulty: the log is left to be read.
LoopingList == {"list"}

Looping == {"list", "join"}

\* The commands that are not refused at once.
Allowed(c) ==
  \/ status = "connected" /\ c \in {"login", "register"}
  \/ status = "logged_in" /\ c \in {"admin", "list", "join", "logout"}
  \/ status = "chatting" /\ c \in {"leave", "chat"}

Awaiting == pc \in {"wait", "collect"}

\* From _pre_cmd_lock on, while the user is asked as well.
Locked == Awaiting \/ pc \in {"prompt", "stuck"}

Closed == session = "closed"
Hears(c) == IF Closed THEN UNCHANGED toServer ELSE toServer' = Append(toServer, c)
---------------------------------------------------------------------------
(* Commands: mutex and checks, the questions, sendall, then the answer *)

Ask(c) ==
  /\ pc = "idle" /\ ~shutdown_event /\ Allowed(c) /\ c \in Prompting
  /\ misread < MaxMisread
  /\ pc' = "prompt" /\ cmd' = c
  /\ UNCHANGED <<received, monitorVars, serverVars, status, shown, toServer, toClient,
                 misread>>

\* Two passwords that differ, or the EOFError of input and getpass.
GiveUp ==
  /\ pc = "prompt" /\ cmd' = NULL
  /\ \/ cmd = "register" /\ pc' = "idle"
     \/ pc' = "stuck"
  /\ UNCHANGED <<received, monitorVars, serverVars, status, shown, toServer, toClient,
                 misread>>

\* After the questions, or at once.
Send(c) ==
  /\ \/ pc = "prompt" /\ cmd = c
     \/ /\ pc = "idle" /\ ~shutdown_event /\ Allowed(c) /\ c \notin Prompting
        /\ misread < MaxMisread
  /\ Len(toServer) < MaxInFlight
  /\ \/ /\ Hears(c)
        /\ pc' = IF c \in Looping THEN "collect" ELSE "wait"
        /\ cmd' = c /\ received' = << >>
     \/ /\ Closed /\ pc' = "postloop" /\ cmd' = NULL
        /\ UNCHANGED <<received, toServer>>
  /\ UNCHANGED <<monitorVars, serverVars, status, shown, toClient, misread>>

\* default
SendChat ==
  /\ pc = "idle" /\ Allowed("chat")
  /\ Len(toServer) < MaxInFlight /\ misread < MaxMisread
  /\ \/ Hears("chat") /\ UNCHANGED pc
     \/ Closed /\ pc' = "postloop" /\ UNCHANGED toServer
  /\ UNCHANGED <<cmd, received, monitorVars, serverVars, status, shown, toClient,
                 misread>>

\* quit, or another command once the monitor has seen the connection go.
Stop ==
  /\ pc = "idle" /\ pc' = "postloop"
  /\ UNCHANGED <<cmd, received, monitorVars, serverVars, status, shown, toServer,
                 toClient, misread>>

\* Faulty: the opcode is not compared.
StatusAfterAny(answer) ==
  CASE cmd = "logout" -> "connected"
    [] answer \in {Ack("login"), Reject("login")} /\ cmd = "login" -> "logged_in"
    [] answer \in {Ack("join"), Reject("join")} /\ cmd = "join" -> "chatting"
    [] answer = Ack("leave") /\ cmd = "leave" -> "logged_in"
    [] OTHER -> status

StatusAfter(answer) ==
  CASE cmd = "logout" -> "connected"
    [] answer = Ack("login") /\ cmd = "login" -> "logged_in"
    [] answer = Ack("join") /\ cmd = "join" -> "chatting"
    [] answer = Ack("leave") /\ cmd = "leave" -> "logged_in"
    [] OTHER -> status

\* The end of a command with an answer: what is not an acknowledgement of it
\* changes nothing, unless it is a logout, which takes any answer.
Answered(answer) ==
  /\ status' = StatusAfter(answer)
  /\ pc' = "idle" /\ cmd' = NULL
  /\ misread' = misread + (IF answer \in {Ack(cmd), Reject(cmd)} \/ Closed THEN 0 ELSE 1)

Raise == pc' = "stuck" /\ cmd' = NULL /\ UNCHANGED <<status, misread>>

\* cr_handle_not_acks: when the connection has an error pending it calls
\* cr_state.disconnect, which does not exist.
NoDisconnect(answer) ==
  Closed /\ cmd # "logout" /\ answer \notin {Ack(cmd), Reject(cmd)} /\ Raise

RecvAnswer ==
  /\ pc = "wait" /\ toClient # << >>
  /\ \E rest \in Rests(Head(toClient)) : toClient' = rest \o Tail(toClient)
  /\ Answered(Head(toClient)) \/ NoDisconnect(Head(toClient))
  /\ UNCHANGED <<received, monitorVars, serverVars, shown, toServer>>

\* b"" is a short packet; an OSError ends the client.
RecvEnd ==
  /\ pc = "wait" /\ toClient = << >> /\ Closed
  /\ \/ Answered(NULL) \/ NoDisconnect(NULL)
     \/ pc' = "postloop" /\ cmd' = NULL /\ UNCHANGED <<status, misread>>
  /\ UNCHANGED <<received, monitorVars, serverVars, shown, toServer, toClient>>

\* list and join: one packet after the other ...
Collect ==
  /\ pc = "collect" /\ toClient # << >>
  /\ received' = Append(received, Head(toClient))
  /\ toClient' = Tail(toClient)
  /\ UNCHANGED <<pc, cmd, monitorVars, serverVars, status, shown, toServer, misread>>

\* Faulty: what follows the log is not printed.
HistoryOfLog(packets) == {}

\* The chats in a join's answer, printed with the history of the room.
History(packets) ==
  {packets[i][2] : i \in {j \in DOMAIN packets : packets[j][1] = "update"}}

\* The bytes after an acknowledgement are decoded together.  A chat among them
\* may be undecodable, and so may a list or a log, whose names and chats were
\* cut in the same way.
Garbled(packets) == \E n \in History(packets) : sent[n] \in Undecodable
MayBeGarbled(packets) ==
  Garbled(packets) \/ (Undecodable # {} /\ \E i \in DOMAIN packets : packets[i] = Data)

\* ... until nothing comes for half a second, perhaps too soon, or until the end.
CollectEnds ==
  /\ pc = "collect" /\ toClient = << >>
  /\ LET answer == IF received = << >> THEN NULL ELSE received[1]
     IN  \/ /\ answer = Ack(cmd) => ~Garbled(received)
            /\ Answered(answer)
            /\ shown' = IF cmd = "join" /\ status' = "chatting"
                        THEN shown \cup History(received) ELSE shown
         \/ answer = Ack(cmd) /\ MayBeGarbled(received) /\ Raise /\ UNCHANGED shown
         \/ NoDisconnect(answer) /\ UNCHANGED shown
         \/ Closed /\ pc' = "postloop" /\ cmd' = NULL
            /\ UNCHANGED <<status, misread, shown>>
  /\ received' = << >>
  /\ UNCHANGED <<monitorVars, serverVars, toServer, toClient>>
---------------------------------------------------------------------------
(* _monitor_socket *)

\* select does not see what is left of a packet.
Readable == Closed \/ \E i \in DOMAIN toClient : toClient[i][1] # "rest"

Select ==
  /\ monitor = "select"
  /\ \/ monitor_running /\ Readable /\ monitor' = "ready"
     \/ ~monitor_running /\ monitor' = "dead"
  /\ UNCHANGED <<commandVars, monitor_running, shutdown_event, last_msg_recvd,
                 serverVars, status, shown, toServer, toClient, misread>>

\* _handle_chats: a chat is printed unless it repeats the last one.  The
\* UnicodeDecodeError of decode is not caught, and ends the thread.
HandleChat ==
  /\ toClient # << >> /\ toClient' = Tail(toClient)
  /\ LET packet == Head(toClient)
         text   == sent[packet[2]]
     IN  CASE packet[1] = "update" /\ text \in Undecodable ->
                monitor' = "dead" /\ UNCHANGED <<shown, last_msg_recvd>>
           [] packet[1] = "update" /\ text \notin Undecodable \cup {last_msg_recvd} ->
                /\ monitor' = "select"
                /\ shown' = shown \cup {packet[2]} /\ last_msg_recvd' = text
           [] OTHER -> monitor' = "select" /\ UNCHANGED <<shown, last_msg_recvd>>
  /\ UNCHANGED <<monitor_running, shutdown_event>>

\* read(1): it takes the first byte of whatever comes, and the thread ends.
ReadByte ==
  /\ toClient # << >>
  /\ toClient' = <<Rest(Head(toClient))>> \o Tail(toClient)
  /\ monitor' = "dead"
  /\ UNCHANGED <<monitor_running, shutdown_event, last_msg_recvd, shown>>

\* _handle_disconnection
Disconnection ==
  /\ toClient = << >> /\ Closed
  /\ monitor_running' = FALSE /\ shutdown_event' = TRUE /\ monitor' = "dead"
  /\ UNCHANGED <<last_msg_recvd, shown, toClient>>

\* SSLWantReadError, or b"" while chatting.
Again ==
  /\ toClient = << >> /\ (status = "chatting" \/ ~Closed)
  /\ monitor' = "select"
  /\ UNCHANGED <<monitor_running, shutdown_event, last_msg_recvd, shown, toClient>>

\* Faulty: without the mutex, or only so.
TakeUnlocked ==
  /\ monitor = "ready"
  /\ \/ status = "chatting" /\ HandleChat
     \/ status # "chatting" /\ ReadByte
     \/ Disconnection
     \/ Again
  /\ UNCHANGED <<commandVars, serverVars, status, toServer, misread>>

\* Under the mutex, with whatever is there by then.
Take ==
  /\ monitor = "ready" /\ ~Locked
  /\ \/ status = "chatting" /\ HandleChat
     \/ status # "chatting" /\ ReadByte
     \/ Disconnection
     \/ Again
  /\ UNCHANGED <<commandVars, serverVars, status, toServer, misread>>
---------------------------------------------------------------------------
(* postloop *)

StopMonitor ==
  /\ pc = "postloop" /\ pc' = "join"
  /\ monitor_running' = FALSE
  /\ UNCHANGED <<cmd, received, monitor, shutdown_event, last_msg_recvd, serverVars,
                 status, shown, toServer, toClient, misread>>

\* The monitor sees the flag within the second of its select.
Quit ==
  /\ pc = "join" /\ monitor = "dead"
  /\ \/ Hears("quit") /\ pc' = "quit"
     \/ Closed /\ pc' = "done" /\ UNCHANGED toServer
  /\ UNCHANGED <<cmd, received, monitorVars, serverVars, status, shown, toClient,
                 misread>>

\* Any answer will do; an OSError, a timeout among them, leaves the rest undone.
QuitAnswered ==
  /\ pc = "quit" /\ pc' = "done"
  /\ \/ (toClient # << >> \/ Closed) /\ status' = "connected"
     \/ UNCHANGED status
  /\ UNCHANGED <<cmd, received, monitorVars, serverVars, shown, toServer, toClient,
                 misread>>
---------------------------------------------------------------------------
(* The session on the server *)

\* The states and answers a request can lead to in a state.
Outcomes(s, r) ==
  LET Stays(answers) == [session |-> s, answers |-> answers]
      Goes(to, answers) == [session |-> to, answers |-> answers]
      Either(ack) == {ack, Stays(<<Reject(r)>>)}
  IN  CASE r = "quit" -> {Goes("closed", <<Ack(r)>>)}
        [] s = "connected" /\ r = "login" -> Either(Goes("logged_in", <<Ack(r)>>))
        [] s = "connected" /\ r = "register" -> Either(Stays(<<Ack(r)>>))
        [] s = "logged_in" /\ r = "admin" -> Either(Stays(<<Ack(r)>>))
        [] s = "logged_in" /\ r = "list" -> Either(Stays(<<Ack(r), Data>>))
        [] s = "logged_in" /\ r = "join" -> Either(Goes("chatting", <<Ack(r), Data>>))
                                     \cup {Goes("chatting", <<Ack(r)>>)}
        [] s = "logged_in" /\ r = "logout" -> {Goes("connected", <<Ack(r)>>)}
        [] s = "chatting" /\ r = "chat" -> {Stays(<< >>)}
        [] s = "chatting" /\ r = "leave" -> {Goes("logged_in", <<Ack(r)>>)}
        [] OTHER -> {Stays(<<Fail>>)}

Serve ==
  /\ ~Closed /\ toServer # << >> /\ Len(toClient) < MaxInFlight
  /\ \E o \in Outcomes(session, Head(toServer)) :
       session' = o.session /\ toClient' = toClient \o o.answers
  /\ toServer' = Tail(toServer)
  /\ UNCHANGED <<commandVars, monitorVars, status, shown, sent, misread>>

\* Another session of the room chats.
OtherChats ==
  /\ session = "chatting" /\ Len(sent) < MaxUpdates /\ Len(toClient) < MaxInFlight
  /\ \E text \in Text : sent' = Append(sent, text)
  /\ toClient' = Append(toClient, Update(Len(sent) + 1))
  /\ UNCHANGED <<commandVars, monitorVars, session, status, shown, toServer, misread>>

\* The server ends, the connection breaks, or the client is gone.
Close ==
  /\ ~Closed /\ session' = "closed" /\ toServer' = << >>
  /\ UNCHANGED <<commandVars, monitorVars, sent, status, shown, toClient, misread>>
---------------------------------------------------------------------------
Init ==
  /\ pc = "idle" /\ cmd = NULL /\ received = << >>
  /\ status = "connected"
  /\ monitor = "select" /\ monitor_running = TRUE /\ shutdown_event = FALSE
  /\ last_msg_recvd = NULL /\ shown = {}
  /\ toServer = << >> /\ toClient = << >>
  /\ session = "connected" /\ sent = << >>
  /\ misread = 0


Next ==
  \/ \E c \in Commands : Ask(c) \/ Send(c)
  \/ GiveUp \/ SendChat \/ Stop \/ RecvAnswer \/ RecvEnd \/ Collect \/ CollectEnds
  \/ Select \/ Take
  \/ StopMonitor \/ Quit \/ QuitAnswered
  \/ Serve \/ OtherChats \/ Close

Spec == Init /\ [][Next]_vars

\* Threads run, and the server serves; the user and the others need not do
\* anything, and may stay at a prompt for ever.  Who goes from command to
\* command gives the monitor its turns between them: SF_vars(Take).
Fairness ==
  /\ WF_vars(RecvAnswer) /\ WF_vars(RecvEnd)
  /\ WF_vars(Collect) /\ WF_vars(CollectEnds)
  /\ WF_vars(Select) /\ SF_vars(Take)
  /\ WF_vars(StopMonitor) /\ WF_vars(Quit) /\ WF_vars(QuitAnswered)
  /\ WF_vars(Serve)

FairSpec == Spec /\ Fairness
---------------------------------------------------------------------------
(* Properties *)

\* What is left of a packet is the next thing to be read; list and join, and no
\* other command, read more than one packet.
TypeOK ==
  /\ status \in {"connected", "logged_in", "chatting"}
  /\ session \in {"connected", "logged_in", "chatting", "closed"}
  /\ monitor \in {"select", "ready", "dead"} /\ monitor_running \in BOOLEAN
  /\ pc = "prompt" => cmd \in Prompting
  /\ pc = "collect" => cmd \in {"list", "join"}
  /\ pc = "wait" => cmd \in {"login", "register", "admin", "logout", "leave"}
  /\ Len(toServer) <= MaxInFlight + 1 /\ Len(toClient) <= MaxInFlight + 1
  /\ \A i \in DOMAIN toClient : toClient[i][1] = "rest" => i = 1
  /\ shown \subseteq DOMAIN sent

Quiet == pc = "idle" /\ toServer = << >> /\ toClient = << >> /\ ~Closed

\* Client and server agree on who is logged in and chatting, whatever the
\* monitor and others do meanwhile, until a command takes for its answer
\* what is none: a chat that comes before the answer of a leave, or nothing
\* within half a second.  From then on they may disagree for good.
Agreement == Quiet /\ misread = 0 => status = session

\* An undecodable chat has been read.
ReadUndecodable ==
  \E n \in DOMAIN sent :
    sent[n] \in Undecodable /\ \A i \in DOMAIN toClient : toClient[i] # Update(n)

\* The monitor never steps in between a command and its answer: until a command
\* has misread one, the monitor only ends when it is told to, has seen the
\* connection go, or could not decode a chat.
MonitorLives ==
  monitor = "dead" /\ misread = 0 =>
    shutdown_event \/ ~monitor_running \/ ReadUndecodable

\* A chat that can be decoded is only hidden if an equal one has been printed
\* before, and until a command has taken one for its answer.
HiddenIsRepeated ==
  Quiet /\ misread = 0 =>
    \A n \in DOMAIN sent \ shown :
      \/ sent[n] \in Undecodable
      \/ \E m \in shown : m < n /\ sent[m] = sent[n]


\* The monitor notices that the server is gone while the user does nothing, or
\* goes from command to command.  It does not while the user stays at the
\* prompt of a command or an exception has left the mutex locked, when the
\* monitor has ended at a chat, and while the client is chatting: then it
\* reads b"" for ever.
DisconnectNoticed ==
  []<>(pc # "prompt") =>
    (Closed ~> \/ shutdown_event \/ ~monitor_running \/ pc = "stuck"
               \/ status = "chatting" \/ ReadUndecodable \/ misread > 0)
=============================================================================
