------------------------------- MODULE Users -------------------------------
(***************************************************************************)
(* The user accounts of the chat room server (src/cr_users.c) and the      *)
(* login half of the session threads that use them                         *)
(* (src/cr_session_manager.c).                                             *)
(*                                                                         *)
(* Shared state: the hash table of accounts with its two counters, guarded *)
(* by users_mutex, the file users.txt behind it, and the flag              *)
(* server_interrupt.  Each session thread has its two locals, logged_in    *)
(* and p_user, and a program counter.  One action is one critical section  *)
(* of users_mutex, or one step that a thread takes without it.  The rooms  *)
(* are abstracted to what they can return to the session (OtherRequest,    *)
(* CleanLeaveFails); module Rooms has them.                                *)
(***************************************************************************)
EXTENDS Integers, Sequences, FiniteSets

CONSTANTS
  Session,        \* the session threads: the workers of the thread pool
  Name,           \* user names a packet or a line of users.txt may carry
  Password,
  Key,            \* what the hash table tells apart: KEY_LENGTH characters
  KeyOf,          \* the key of a name
  Extends,        \* Extends[n]: the names whose line in users.txt starts with n
  ValidName,      \* the names cr_users_chk_usr_and_pass accepts
  ValidPassword,
  Admin,          \* "admin", the account of the shipped users.txt
  AdminName,      \* the names cr_users_add_file_user compares equal to it
  EmptyName, EmptyPassword,
  NULL,
  InitialFile,    \* users.txt before the first start
  MaxClient,      \* max_client of config.txt
  MaxTotalUsers,  \* MAX_TOTAL_USERS
  MaxLines,       \* bound of the model: no registration starts above it
  LeaveMayFail    \* whether the log I/O inside cr_chats_leave may fail

ASSUME ConstantsOK ==
  /\ IsFiniteSet(Session) /\ IsFiniteSet(Key)
  /\ KeyOf \in [Name -> Key]
  /\ Extends \in [Name -> SUBSET Name]
  /\ ValidName \subseteq Name \ {EmptyName}
  /\ ValidPassword \subseteq Password
  /\ Admin \in AdminName \cap ValidName /\ AdminName \subseteq Name
  /\ EmptyName \in Name /\ EmptyPassword \in Password
  /\ MaxClient \in 2..50      \* checked by set_config_members (src/cr_main.c)
  /\ MaxTotalUsers \in 1..255 /\ MaxLines \in Nat
  /\ LeaveMayFail \in BOOLEAN

User == [name : Name, password : Password,
         login_status : {"LOGGED_IN", "NOT_LOGGED_IN"},
         admin_status : {"ADMIN", "NOT_ADMIN"}]
\* A line of users.txt: name and password together have at most 58 characters,
\* and cr_users_remove_file reads the line in one piece.
Line == [name : Name, password : Password]
Request == [name : Name, password : Password,
            admin_set_to : {"ADMIN", "NOT_ADMIN"}]

\* Written by hand, or left by an earlier process.
ASSUME InitialFileOK == InitialFile \in [lines : Seq(Line), unended : BOOLEAN]

ASSUME NullIsNothing == NULL \notin User /\ NULL \notin Key

\* The program counters of a session thread.  In "rewrite" it holds
\* users_mutex; in the other five after "clean" it has left users_mutex, or not
\* yet taken it, with a decision made.
PC == {"closed",      \* no session in this worker
       "receive",     \* in SSL_read
       "clean",       \* in cr_sm_session_clean
       "register",    \* registration checked, cr_users_reg_helper ahead
       "admin",       \* rights checked, cr_users_admin_helper_1 ahead
       "remove",      \* rights checked, the locked part of remove_user ahead
       "rewrite",     \* in it: the table is done, users.txt is ahead
       "logged_out",  \* account released by logout, *p_logged_in not yet reset
       "quitting"}    \* the same, on the way out of the session

VARIABLES
  table,            \* p_users_table: the account under each key, or NULL
  user_count, client_count,
  users_txt,        \* the lines of users.txt, and whether the last is unended
  server_interrupt,
  pc, logged_in, p_user, req

accounts == <<table, user_count, client_count, users_txt>>
locals   == <<logged_in, p_user, req>>
vars     == <<accounts, server_interrupt, pc, locals>>

NoRequest == [name |-> EmptyName, password |-> EmptyPassword,
              admin_set_to |-> "NOT_ADMIN"]
Blank     == [name |-> EmptyName, password |-> EmptyPassword]
---------------------------------------------------------------------------
(* users.txt *)

\* cr_users_add_user_file: a newline, then the line without one.  When the
\* text already ends in a newline (or is empty) that makes a blank line.
AddLine(file, line) ==
  [lines  |-> IF file.unended THEN Append(file.lines, line)
              ELSE Append(Append(file.lines, Blank), line),
   unended |-> TRUE]

\* cr_users_remove_file: the loop over the lines that copies those that do
\* not start with n.  A function, not SelectSeq, so that it can be proved of.
KeptLines(lines, n) ==
  LET kept[i \in 0..Len(lines)] ==
        IF i = 0 THEN << >>
        ELSE IF lines[i].name \in Extends[n] THEN kept[i - 1]
        ELSE Append(kept[i - 1], lines[i])
  IN  kept[Len(lines)]

\* Faulty: the loop stops at the first line it drops.
RemoveFirstLine(file, n) ==
  LET lines == file.lines
      at == {i \in DOMAIN lines : lines[i].name \in Extends[n]}
      i == CHOOSE j \in at : \A k \in at : j <= k
  IN  IF at = {} THEN file
      ELSE [lines   |-> SubSeq(lines, 1, i - 1) \o SubSeq(lines, i + 1, Len(lines)),
            unended |-> file.unended]

RemoveLines(file, n) ==
  LET lines == file.lines
  IN  [lines   |-> KeptLines(lines, n),
       unended |-> /\ file.unended
                   /\ lines # << >>
                   /\ lines[Len(lines)].name \notin Extends[n]]

\* cr_users_start: a line makes an account if its key is not present yet and
\* the table is not full.
KeysBefore(lines, i) == {KeyOf[lines[j].name] : j \in 1..(i - 1)}
Loads(lines, i) ==
  /\ KeyOf[lines[i].name] \notin KeysBefore(lines, i)
  /\ Cardinality(KeysBefore(lines, i)) < MaxTotalUsers
LoadedLines(lines) == {i \in DOMAIN lines : Loads(lines, i)}

FileUser(line) ==
  [name |-> line.name, password |-> line.password,
   login_status |-> "NOT_LOGGED_IN",
   admin_status |-> IF line.name \in AdminName THEN "ADMIN" ELSE "NOT_ADMIN"]

LoadTable(lines) ==
  [k \in Key |->
     IF \E i \in LoadedLines(lines) : KeyOf[lines[i].name] = k
     THEN FileUser(lines[CHOOSE i \in LoadedLines(lines) :
                           KeyOf[lines[i].name] = k])
     ELSE NULL]
---------------------------------------------------------------------------
(* Control of the session threads *)

\* The while condition of cr_sm_session_manager.
LoopHead == IF server_interrupt = "CONTINUE" THEN "receive" ELSE "clean"

Goto(s, where) == pc' = [pc EXCEPT ![s] = where]

\* The handler's last act is a packet to the client: sent, the thread is back
\* at the head of its loop; not sent, CONNECTION_FAILURE ends the session.
Reply(s) == \E where \in {LoopHead, "clean"} : Goto(s, where)

At(s, where) == pc[s] = where

\* users_mutex: every critical section is one step but that of remove_user.
MutexFree == \A t \in Session : ~At(t, "rewrite")

Hears(s, login) == At(s, "receive") /\ logged_in[s] = login
Forget(s) == req' = [req EXCEPT ![s] = NoRequest]

Exists(n)   == table[KeyOf[n]] # NULL
LoggedIn(k) == table[k] # NULL /\ table[k].login_status = "LOGGED_IN"
Self(s)     == table[p_user[s]]
---------------------------------------------------------------------------
(* The connected state: login, register *)

\* Faulty: one client too many; an account that is logged in.
CanLoginOneMore(n, pw) ==
  /\ client_count <= MaxClient
  /\ Exists(n)
  /\ ~LoggedIn(KeyOf[n])
  /\ table[KeyOf[n]].password = pw

CanLoginAgain(n, pw) ==
  /\ client_count < MaxClient
  /\ Exists(n)
  /\ table[KeyOf[n]].password = pw

CanLogin(n, pw) ==
  /\ client_count < MaxClient
  /\ Exists(n)
  /\ ~LoggedIn(KeyOf[n])
  /\ table[KeyOf[n]].password = pw

LoginReject(s, n, pw) ==
  /\ Hears(s, FALSE)
  /\ MutexFree
  /\ ~CanLogin(n, pw)
  /\ Reply(s)
  /\ UNCHANGED <<accounts, server_interrupt, locals>>

\* Faulty: the client is counted before the acknowledgement is sent.
LoginAckLostCounted(s, n, pw) ==
  /\ Hears(s, FALSE)
  /\ MutexFree
  /\ CanLogin(n, pw)
  /\ client_count' = (client_count + 1) % 256
  /\ Goto(s, "clean")
  /\ UNCHANGED <<table, user_count, users_txt, server_interrupt, locals>>

\* The acknowledgement goes out first; if it fails nothing else happens.
LoginAckLost(s, n, pw) ==
  /\ Hears(s, FALSE)
  /\ MutexFree
  /\ CanLogin(n, pw)
  /\ Goto(s, "clean")
  /\ UNCHANGED <<accounts, server_interrupt, locals>>

Login(s, n, pw) ==
  /\ Hears(s, FALSE)
  /\ MutexFree
  /\ CanLogin(n, pw)
  /\ table' = [table EXCEPT ![KeyOf[n]].login_status = "LOGGED_IN"]
  /\ p_user' = [p_user EXCEPT ![s] = KeyOf[n]]
  /\ client_count' = (client_count + 1) % 256
  /\ logged_in' = [logged_in EXCEPT ![s] = TRUE]
  /\ Goto(s, LoopHead)
  /\ UNCHANGED <<user_count, users_txt, server_interrupt, req>>

CanRegister(n, pw) ==
  /\ ~Exists(n)
  /\ n \in ValidName
  /\ pw \in ValidPassword
  /\ user_count < MaxTotalUsers

RegisterReject(s, n, pw) ==
  /\ Hears(s, FALSE)
  /\ MutexFree
  /\ ~CanRegister(n, pw)
  /\ Reply(s)
  /\ UNCHANGED <<accounts, server_interrupt, locals>>

\* First critical section: the name is looked up and the lock given back.
RegisterCheck(s, n, pw) ==
  /\ Hears(s, FALSE)
  /\ Len(users_txt.lines) < MaxLines
  /\ MutexFree
  /\ CanRegister(n, pw)
  /\ req' = [req EXCEPT ![s] = [NoRequest EXCEPT !.name = n, !.password = pw]]
  /\ Goto(s, "register")
  /\ UNCHANGED <<accounts, server_interrupt, logged_in, p_user>>

\* Second critical section, cr_users_reg_helper: the table entry, then the
\* line of users.txt whether or not the entry could be added.  A name that
\* has appeared since the check is FAILURE, which stops the server.
RegisterAdd(s) ==
  LET n == req[s].name
      new == [name |-> n, password |-> req[s].password,
              login_status |-> "NOT_LOGGED_IN", admin_status |-> "NOT_ADMIN"]
  IN
  /\ At(s, "register") /\ MutexFree
  /\ users_txt' = AddLine(users_txt, [name |-> n, password |-> req[s].password])
  /\ \/ /\ ~Exists(n)
        /\ table' = [table EXCEPT ![KeyOf[n]] = new]
        /\ Reply(s)
        /\ UNCHANGED server_interrupt
     \/ /\ Exists(n)
        /\ server_interrupt' = "STOP"
        /\ Goto(s, "clean")
        /\ UNCHANGED table
  /\ Forget(s)
  /\ UNCHANGED <<user_count, client_count, logged_in, p_user>>
---------------------------------------------------------------------------
(* The logged in state: admin, admin remove, delete user, logout, quit *)

\* cr_users_admin and cr_users_remove_user look at the session's own account
\* without the lock.
MayAlter(s, n) == Self(s).name # n /\ Self(s).admin_status = "ADMIN"

AlterReject(s, n) ==
  /\ Hears(s, TRUE)
  /\ ~MayAlter(s, n)
  /\ Reply(s)
  /\ UNCHANGED <<accounts, server_interrupt, locals>>

AdminCheck(s, n, set_to) ==
  /\ Hears(s, TRUE)
  /\ MayAlter(s, n)
  /\ req' = [req EXCEPT ![s] = [NoRequest EXCEPT !.name = n,
                                                 !.admin_set_to = set_to]]
  /\ Goto(s, "admin")
  /\ UNCHANGED <<accounts, server_interrupt, logged_in, p_user>>

\* Faulty: the rights of an account that is logged in may be altered.
CanAlterLoggedIn(n) == Exists(n)

CanAlter(n) == Exists(n) /\ ~LoggedIn(KeyOf[n])

AdminSet(s) ==
  LET n == req[s].name
  IN
  /\ At(s, "admin") /\ MutexFree
  /\ IF CanAlter(n)
     THEN table' = [table EXCEPT ![KeyOf[n]].admin_status = req[s].admin_set_to]
     ELSE UNCHANGED table
  /\ Reply(s)
  /\ Forget(s)
  /\ UNCHANGED <<user_count, client_count, users_txt, server_interrupt,
                 logged_in, p_user>>

RemoveCheck(s, n) ==
  /\ Hears(s, TRUE)
  /\ MayAlter(s, n)
  /\ req' = [req EXCEPT ![s] = [NoRequest EXCEPT !.name = n]]
  /\ Goto(s, "remove")
  /\ UNCHANGED <<accounts, server_interrupt, logged_in, p_user>>

\* cr_users_remove_table makes the same check.
CanRemove(n) == Exists(n) /\ ~LoggedIn(KeyOf[n])

\* cr_users_remove_table, under the lock that remove_user keeps: the entry goes
\* only if it may, and the answer is sent.
RemoveTable(s) ==
  LET n == req[s].name
  IN
  /\ At(s, "remove") /\ MutexFree
  /\ IF CanRemove(n) THEN table' = [table EXCEPT ![KeyOf[n]] = NULL]
                     ELSE UNCHANGED table
  /\ Goto(s, "rewrite")
  /\ UNCHANGED <<user_count, client_count, users_txt, server_interrupt, locals>>

\* cr_users_remove_file, whether or not an account went: the copy without the
\* lines of the name takes the place of users.txt (rename), and the lock is
\* given back.  A packet that was lost in RemoveTable ends the session now.
RemoveFile(s) ==
  /\ At(s, "rewrite")
  /\ users_txt' = RemoveLines(users_txt, req[s].name)
  /\ Reply(s)
  /\ Forget(s)
  /\ UNCHANGED <<table, user_count, client_count, server_interrupt,
                 logged_in, p_user>>

\* Faulty: the count is not taken back.
ReleaseUserCounted(s) ==
  /\ MutexFree
  /\ table' = [table EXCEPT ![p_user[s]].login_status = "NOT_LOGGED_IN"]
  /\ UNCHANGED <<user_count, client_count, users_txt, server_interrupt, locals>>

\* The critical section of cr_users_logout.
ReleaseUser(s) ==
  /\ MutexFree
  /\ table' = [table EXCEPT ![p_user[s]].login_status = "NOT_LOGGED_IN"]
  /\ client_count' = (client_count + 255) % 256
  /\ UNCHANGED <<user_count, users_txt, server_interrupt, locals>>

\* The acknowledgement of a logout precedes it: when it fails, the account
\* is left to session_clean.
LogoutAckLost(s) ==
  /\ Hears(s, TRUE)
  /\ Goto(s, "clean")
  /\ UNCHANGED <<accounts, server_interrupt, locals>>

Logout(s) == Hears(s, TRUE) /\ ReleaseUser(s) /\ Goto(s, "logged_out")

QuitLoggedIn(s) == Hears(s, TRUE) /\ ReleaseUser(s) /\ Goto(s, "quitting")

ResetLoggedIn(s) ==
  /\ \/ At(s, "logged_out") /\ Goto(s, LoopHead)
     \/ At(s, "quitting") /\ Goto(s, "clean")
  /\ logged_in' = [logged_in EXCEPT ![s] = FALSE]
  /\ UNCHANGED <<accounts, server_interrupt, p_user, req>>
---------------------------------------------------------------------------
(* Any state *)

QuitConnected(s) ==
  /\ Hears(s, FALSE)
  /\ Goto(s, "clean")
  /\ UNCHANGED <<accounts, server_interrupt, locals>>

\* Packets for the rooms, and packets no state knows.  A room handler can
\* return FAILURE, and then the server stops.
OtherRequest(s) ==
  /\ At(s, "receive")
  /\ \/ Reply(s) /\ UNCHANGED server_interrupt
     \/ logged_in[s] /\ server_interrupt' = "STOP" /\ Goto(s, "clean")
  /\ UNCHANGED <<accounts, locals>>

\* SSL_read: the peer is gone, or 3 seconds have passed and the server stops.
Disconnect(s) ==
  /\ At(s, "receive")
  /\ Goto(s, "clean")
  /\ UNCHANGED <<accounts, server_interrupt, locals>>

\* Faulty: a logged in session reads again after a timeout, whatever the flag.
ReadTimeoutConnected(s) ==
  /\ At(s, "receive")
  /\ server_interrupt = "STOP"
  /\ ~logged_in[s]
  /\ Goto(s, "clean")
  /\ UNCHANGED <<accounts, server_interrupt, locals>>

ReadTimeout(s) ==
  /\ At(s, "receive")
  /\ server_interrupt = "STOP"
  /\ Goto(s, "clean")
  /\ UNCHANGED <<accounts, server_interrupt, locals>>

\* cr_sm_session_clean.
CleanLogout(s) ==
  At(s, "clean") /\ logged_in[s] /\ ReleaseUser(s) /\ Goto(s, "quitting")

EndOfThread(s) ==
  /\ Goto(s, "closed")
  /\ logged_in' = [logged_in EXCEPT ![s] = FALSE]
  /\ p_user' = [p_user EXCEPT ![s] = NULL]
  /\ UNCHANGED <<accounts, req>>

\* A session that was chatting leaves its room first, and if that fails it
\* ends here, with its account still logged in.  cr_listener_thread then
\* stops the server, except on the path of a failed SSL_read.
CleanLeaveFails(s) ==
  /\ LeaveMayFail
  /\ At(s, "clean") /\ logged_in[s]
  /\ server_interrupt' \in {server_interrupt, "STOP"}
  /\ EndOfThread(s)

\* Faulty: the session ends without a logout.
CleanCloseLoggedIn(s) ==
  /\ At(s, "clean")
  /\ EndOfThread(s)
  /\ UNCHANGED server_interrupt

CleanClose(s) ==
  /\ At(s, "clean") /\ ~logged_in[s]
  /\ EndOfThread(s)
  /\ UNCHANGED server_interrupt

\* The listener hands a new connection to a free worker.
Accept(s) ==
  /\ server_interrupt = "CONTINUE"
  /\ At(s, "closed")
  /\ Goto(s, "receive")
  /\ UNCHANGED <<accounts, server_interrupt, locals>>
---------------------------------------------------------------------------
(* The server process *)

Interrupt ==
  /\ server_interrupt' = "STOP"
  /\ UNCHANGED <<accounts, pc, locals>>

\* A new process: cr_listener and cr_users_start.
Start ==
  /\ table' = LoadTable(users_txt.lines)
  /\ user_count' = Cardinality(LoadedLines(users_txt.lines))
  /\ client_count' = 0
  /\ server_interrupt' = "CONTINUE"
  /\ pc' = [s \in Session |-> "closed"]
  /\ logged_in' = [s \in Session |-> FALSE]
  /\ p_user' = [s \in Session |-> NULL]
  /\ req' = [s \in Session |-> NoRequest]
  /\ UNCHANGED users_txt

Restart ==
  server_interrupt = "STOP" /\ (\A s \in Session : At(s, "closed")) /\ Start

\* The process dies at any point and is started again.
CrashRestart == Start
---------------------------------------------------------------------------
Init ==
  /\ users_txt = InitialFile
  /\ table = LoadTable(InitialFile.lines)
  /\ user_count = Cardinality(LoadedLines(InitialFile.lines))
  /\ client_count = 0
  /\ server_interrupt = "CONTINUE"
  /\ pc = [s \in Session |-> "closed"]
  /\ logged_in = [s \in Session |-> FALSE]
  /\ p_user = [s \in Session |-> NULL]
  /\ req = [s \in Session |-> NoRequest]

\* What a packet from the client starts.
Receive(s) ==
  \/ \E n \in Name, pw \in Password :
       \/ LoginReject(s, n, pw) \/ LoginAckLost(s, n, pw) \/ Login(s, n, pw)
       \/ RegisterReject(s, n, pw) \/ RegisterCheck(s, n, pw)
  \/ \E n \in Name :
       \/ AlterReject(s, n) \/ RemoveCheck(s, n)
       \/ \E set_to \in {"ADMIN", "NOT_ADMIN"} : AdminCheck(s, n, set_to)
  \/ LogoutAckLost(s) \/ Logout(s) \/ QuitLoggedIn(s) \/ QuitConnected(s)
  \/ OtherRequest(s)

\* What the thread does by itself.
Proceed(s) ==
  \/ RegisterAdd(s) \/ AdminSet(s) \/ RemoveTable(s) \/ RemoveFile(s)
  \/ ResetLoggedIn(s) \/ ReadTimeout(s)
  \/ CleanLogout(s) \/ CleanLeaveFails(s) \/ CleanClose(s)

Next ==
  \/ \E s \in Session :
       Accept(s) \/ Receive(s) \/ Disconnect(s) \/ Proceed(s)
  \/ Interrupt \/ Restart \/ CrashRestart

\* Threads run: a started handler goes on, and SSL_read times out.
Fairness == \A s \in Session : WF_vars(Proceed(s))

Spec == Init /\ [][Next]_vars
FairSpec == Spec /\ Fairness
---------------------------------------------------------------------------
(* Properties *)

\* A session owns an account from the end of cr_users_login to the critical
\* section of cr_users_logout.
Owns(s) == logged_in[s] /\ pc[s] \notin {"logged_out", "quitting"}

\* Types of the variables; client_count never wraps.
TypeOK ==
  /\ table \in [Key -> User \cup {NULL}]
  /\ user_count \in Nat
  /\ client_count \in 0..MaxClient
  /\ users_txt \in [lines : Seq(Line), unended : BOOLEAN]
  /\ server_interrupt \in {"CONTINUE", "STOP"}
  /\ pc \in [Session -> PC]
  /\ logged_in \in [Session -> BOOLEAN]
  /\ p_user \in [Session -> Key \cup {NULL}]
  /\ req \in [Session -> Request]

\* client_count, which cr_users_login compares with max_client, is the number
\* of accounts logged in, whatever logins, lost acknowledgements, logouts and
\* dying sessions interleave.
ClientCountExact == client_count = Cardinality({k \in Key : LoggedIn(k)})

\* The account of a logged in session is in the table and LOGGED_IN, and no
\* other session has it: p_user, which the handlers follow without the lock,
\* never points to an account that was freed or has a second owner.
OwnsAccount ==
  \A s \in Session : Owns(s) =>
    /\ p_user[s] \in Key /\ LoggedIn(p_user[s])
    /\ \A t \in Session \ {s} : Owns(t) => p_user[t] # p_user[s]

\* An administrator whose rights cr_users_admin or cr_users_remove_user read
\* before taking the lock still has them, and is still not the target, in
\* the critical section that uses them.
ActorStillAdmin ==
  \A s \in Session : pc[s] \in {"admin", "remove"} =>
    Owns(s) /\ MayAlter(s, req[s].name)

\* Between login and logout the account a session is logged in to stays as it
\* is: no step of another session deletes it, takes its rights away or
\* replaces it under the same key.
OwnAccountStable ==
  [][\A s \in Session : Owns(s) /\ Owns(s)'
       => p_user'[s] = p_user[s] /\ table'[p_user[s]] = table[p_user[s]]]_vars

\* An account is LOGGED_IN only as long as some session is there to release
\* it (comment at cr_sm_session_clean: a session still logged in when it ends
\* "will have the necessary changes made").
NoGhostLogin ==
  \A k \in Key : LoggedIn(k) => \E s \in Session : Owns(s) /\ p_user[s] = k

\* A restart brings back no account whose deletion is complete: every line of
\* users.txt has its account, in spite of the double lines that racing
\* registrations leave and of deletions between the two steps of a
\* registration.  The one window is in cr_users_remove_user: the entry is gone
\* and the acknowledgement sent, the file not yet renamed.  A crash there brings
\* the account back; nothing else does, and only the lines that this deletion
\* is about to drop.  (For tables with room for every key: above
\* MAX_TOTAL_USERS a line that was not loaded may be loaded once another is
\* gone.  And for names that differ in their first KEY_LENGTH characters.)
NoResurrection ==
  Cardinality(Key) <= MaxTotalUsers =>
    \A i \in DOMAIN users_txt.lines :
      LET line == users_txt.lines[i]
      IN  \/ line = Blank \/ Exists(line.name)
          \/ \E s \in Session : /\ At(s, "rewrite")
                               /\ line.name \in Extends[req[s].name]

\* After SIGINT or a FAILURE every session thread ends, so that the main
\* thread can join them (cr_listener_clean).
ShutdownCompletes ==
  server_interrupt = "STOP" ~> \A s \in Session : At(s, "closed")
---------------------------------------------------------------------------
(* What the repository says and the program does not do *)

\* cr_users_register: "Sends register reject packets to the client if
\* necessary", and reject code User Exists of README.md - registering a name
\* that is taken does not stop the server.
DuplicateIsRejected ==
  [][\A s \in Session : RegisterAdd(s) => server_interrupt' = server_interrupt]_vars
=============================================================================
