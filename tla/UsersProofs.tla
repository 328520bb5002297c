---------------------------- MODULE UsersProofs ----------------------------
(***************************************************************************)
(* Theorems about module Users, for every set of sessions, every set of    *)
(* names, every capacity and every initial users.txt.                      *)
(***************************************************************************)
EXTENDS Users, FiniteSetTheorems, NaturalsInduction, WellFoundedInduction, TLAPS

---------------------------------------------------------------------------
(* users.txt *)

\* A non-empty set of natural numbers has a least element.
LEMMA LeastNatural ==
  ASSUME NEW T \in SUBSET Nat, T # {}
  PROVE  \E x \in T : \A y \in T : x <= y
<1>1. IsWellFoundedOn(OpToRel(<, Nat), Nat)
  BY NatLessThanWellFounded
<1>2. PICK x \in T : \A y \in T : ~(<<y, x>> \in OpToRel(<, Nat))
  BY <1>1, WFMin, Zenon
<1>3. \A y \in T : ~(y < x)
  BY <1>2 DEF OpToRel
<1>4. \A y \in T : y \in Nat /\ x \in Nat
  OBVIOUS
<1> QED BY <1>3, <1>4

\* The body of the recursive function in KeptLines, and its unfolding.
KeptStep(lines, n, f, i) ==
  IF i = 0 THEN << >>
  ELSE IF lines[i].name \in Extends[n] THEN f[i - 1]
  ELSE Append(f[i - 1], lines[i])

IsKept(lines, n, f, m) == f = [i \in 0..m |-> KeptStep(lines, n, f, i)]

\* The lines that a deletion of n leaves.
Survivors(lines, n) ==
  {line \in Line : /\ line.name \notin Extends[n]
                   /\ \E j \in DOMAIN lines : lines[j] = line}

\* What the recursion computes, wherever it is defined.
LEMMA KeptTyped ==
  ASSUME NEW lines \in Seq(Line), NEW n, NEW f, NEW m \in Nat,
         m <= Len(lines), IsKept(lines, n, f, m)
  PROVE  \A i \in 0..m : f[i] \in Seq(Survivors(lines, n))
<1> DEFINE S == Survivors(lines, n)
           T == {i \in 0..m : f[i] \notin Seq(S)}
<1>1. SUFFICES ASSUME T # {} PROVE FALSE
  OBVIOUS
<1>2. PICK x \in T : \A y \in T : x <= y
  <2>1. T \in SUBSET Nat OBVIOUS
  <2> QED BY <1>1, <2>1, LeastNatural
<1>3. \A i \in 0..m : f[i] = KeptStep(lines, n, f, i)
  BY DEF IsKept
<1>4. x # 0
  <2>1. 0 \in 0..m /\ f[0] = << >>
    BY <1>3 DEF KeptStep
  <2>2. << >> \in Seq(S)
    OBVIOUS
  <2>3. 0 \notin T
    <3> HIDE DEF S
    <3> QED BY <2>1, <2>2
  <2> QED BY <2>3
<1>5. x \in 1..Len(lines) /\ x - 1 \in 0..m /\ x - 1 \notin T
  BY <1>2, <1>4
<1>6. f[x - 1] \in Seq(S)
  BY <1>5
<1>7. lines[x].name \notin Extends[n] => lines[x] \in S
  BY <1>5 DEF Survivors
<1>8. f[x] = KeptStep(lines, n, f, x)
  BY <1>3
<1>9. f[x] \in Seq(S)
  <2> HIDE DEF S
  <2> QED BY <1>4, <1>6, <1>7, <1>8 DEF KeptStep
<1> QED BY <1>9

\* The recursion is defined up to every length.
LEMMA KeptExists ==
  ASSUME NEW lines \in Seq(Line), NEW n, NEW m \in Nat
  PROVE  \E f : IsKept(lines, n, f, m)
<1> DEFINE Q(k) == \E f : IsKept(lines, n, f, k)
           T == {k \in Nat : ~Q(k)}
<1>1. SUFFICES ASSUME T # {} PROVE FALSE
  OBVIOUS
<1>2. PICK x \in T : \A y \in T : x <= y
  BY <1>1, LeastNatural
<1>3. Q(0)
  <2> DEFINE f == [i \in 0..0 |-> << >>]
  <2>1. IsKept(lines, n, f, 0) BY DEF IsKept, KeptStep
  <2> QED BY <2>1
<1>4. x # 0
  BY <1>3
<1>5. x - 1 \in Nat /\ x - 1 \notin T
  BY <1>2, <1>4
<1>6. PICK f : IsKept(lines, n, f, x - 1)
  BY <1>5
<1> DEFINE g == [i \in 0..x |-> IF i < x THEN f[i] ELSE KeptStep(lines, n, f, x)]
<1>7. \A i \in 0..(x - 1) : f[i] = KeptStep(lines, n, f, i)
  BY <1>6 DEF IsKept
<1>8. \A i \in 0..x : g[i] = KeptStep(lines, n, g, i)
  <2> TAKE i \in 0..x
  <2>1. CASE i = x  BY <2>1, <1>4 DEF KeptStep
  <2>2. CASE i < x  BY <2>2, <1>4, <1>7 DEF KeptStep
  <2> QED BY <2>1, <2>2
<1>9. IsKept(lines, n, g, x)
  BY <1>8 DEF IsKept
<1>10. Q(x)
  BY <1>9
<1> QED BY <1>10

\* A deletion leaves lines of the file that do not begin with the name.
LEMMA KeptLinesType ==
  ASSUME NEW lines \in Seq(Line), NEW n
  PROVE  KeptLines(lines, n) \in Seq(Survivors(lines, n))
<1> DEFINE K == CHOOSE f : IsKept(lines, n, f, Len(lines))
<1>1. IsKept(lines, n, K, Len(lines))
  <2>1. Len(lines) \in Nat
    OBVIOUS
  <2>2. \E f : IsKept(lines, n, f, Len(lines))
    BY <2>1, KeptExists
  <2> QED BY <2>2, Zenon
<1>2. KeptLines(lines, n) = K[Len(lines)]
  BY DEF KeptLines, IsKept, KeptStep
<1>3. Len(lines) \in 0..Len(lines) /\ Len(lines) \in Nat
  OBVIOUS
<1> HIDE DEF K
<1>4. K[Len(lines)] \in Seq(Survivors(lines, n))
  BY <1>1, <1>3, KeptTyped
<1> QED BY <1>2, <1>4

\* The files that registrations and deletions leave are sequences of lines.
File == [lines : Seq(Line), unended : BOOLEAN]

\* A blank line loads as an entry with an empty name and password.
LEMMA BlankType == Blank \in Line
BY ConstantsOK DEF Blank, Line

\* A registration leaves a file.
LEMMA AddLineType ==
  ASSUME NEW file \in File, NEW line \in Line
  PROVE  AddLine(file, line) \in File
<1>1. file.lines \in Seq(Line)
  BY DEF File
<1>2. Append(file.lines, line) \in Seq(Line)
  BY <1>1
<1>3. Append(Append(file.lines, Blank), line) \in Seq(Line)
  BY <1>1, BlankType
<1> QED BY <1>2, <1>3 DEF AddLine, File

\* A deletion leaves a file.
LEMMA RemoveLinesType ==
  ASSUME NEW file \in File, NEW n
  PROVE  RemoveLines(file, n) \in File
<1>1. file.lines \in Seq(Line) /\ file.unended \in BOOLEAN
  BY DEF File
<1>2. Survivors(file.lines, n) \subseteq Line
  BY DEF Survivors
<1>3. KeptLines(file.lines, n) \in Seq(Line)
  <2>1. KeptLines(file.lines, n) \in Seq(Survivors(file.lines, n))
    BY <1>1, KeptLinesType
  <2> QED BY <1>2, <2>1
<1> QED BY <1>1, <1>3 DEF RemoveLines, File

\* What cr_users_start makes of a file: accounts, none of them logged in, and
\* their number.
LEMMA LoadTableType ==
  ASSUME NEW lines \in Seq(Line)
  PROVE  /\ LoadTable(lines) \in [Key -> User \cup {NULL}]
         /\ \A k \in Key : LoadTable(lines)[k] # NULL =>
              LoadTable(lines)[k].login_status = "NOT_LOGGED_IN"
<1>1. ASSUME NEW line \in Line PROVE FileUser(line) \in User
  BY <1>1 DEF FileUser, User, Line
<1>2. ASSUME NEW k \in Key, \E i \in LoadedLines(lines) : KeyOf[lines[i].name] = k
      PROVE  \E line \in Line : LoadTable(lines)[k] = FileUser(line)
  <2>1. (CHOOSE i \in LoadedLines(lines) : KeyOf[lines[i].name] = k)
          \in LoadedLines(lines)
    BY <1>2
  <2>2. \A i \in LoadedLines(lines) : lines[i] \in Line
    BY DEF LoadedLines
  <2> QED BY <1>2, <2>1, <2>2 DEF LoadTable
<1>3. ASSUME NEW k \in Key,
             ~\E i \in LoadedLines(lines) : KeyOf[lines[i].name] = k
      PROVE  LoadTable(lines)[k] = NULL
  BY <1>3 DEF LoadTable
<1>4. ASSUME NEW k \in Key
      PROVE  /\ LoadTable(lines)[k] \in User \cup {NULL}
             /\ LoadTable(lines)[k] # NULL =>
                  LoadTable(lines)[k].login_status = "NOT_LOGGED_IN"
  <2>1. CASE \E i \in LoadedLines(lines) : KeyOf[lines[i].name] = k
    <3>1. PICK line \in Line : LoadTable(lines)[k] = FileUser(line)
      BY <1>2, <2>1
    <3>2. FileUser(line) \in User
      BY <1>1
    <3>3. FileUser(line).login_status = "NOT_LOGGED_IN"
      BY DEF FileUser
    <3> QED BY <3>1, <3>2, <3>3
  <2>2. CASE ~\E i \in LoadedLines(lines) : KeyOf[lines[i].name] = k
    BY <1>3, <2>2
  <2> QED BY <2>1, <2>2
<1>5. LoadTable(lines) \in [Key -> User \cup {NULL}]
  <2> DEFINE LT == LoadTable(lines)
  <2>1. LT = [k \in Key |-> LT[k]]
    BY DEF LoadTable
  <2>2. \A k \in Key : LT[k] \in User \cup {NULL}
    BY <1>4
  <2> HIDE DEF LT
  <2>3. LT \in [Key -> User \cup {NULL}]
    BY <2>1, <2>2
  <2> QED BY <2>3 DEF LT
<1> QED BY <1>4, <1>5

\* The number of accounts a file makes is a number.
LEMMA LoadedLinesFinite ==
  ASSUME NEW lines \in Seq(Line)
  PROVE  Cardinality(LoadedLines(lines)) \in Nat
<1>1. LoadedLines(lines) \in SUBSET (1..Len(lines))
  BY DEF LoadedLines
<1>2. IsFiniteSet(1..Len(lines))
  BY FS_Interval
<1> QED BY <1>1, <1>2, FS_Subset, FS_CardinalityType
---------------------------------------------------------------------------
(* The inductive invariant *)

\* No part is inductive alone.  Releasing an account keeps the count exact
\* because the releasing session owns it; the account a session owns stays
\* LOGGED_IN because nobody else releases it (no second owner) and nobody
\* deletes it (only accounts that are NOT_LOGGED_IN are deleted); and the
\* administrator's rights hold up because his own account is LOGGED_IN.
IInv ==
  /\ TypeOK /\ ClientCountExact /\ OwnsAccount /\ ActorStillAdmin
  /\ ~LeaveMayFail => NoGhostLogin

LoggedInKeys == {k \in Key : LoggedIn(k)}

\* A handler that has answered is back in SSL_read or ends the session.
LEMMA LoopHeadIs == LoopHead \in {"receive", "clean"}
BY DEF LoopHead

\* The accounts LOGGED_IN can be counted.
LEMMA LoggedInKeysFinite == IsFiniteSet(LoggedInKeys)
BY ConstantsOK, FS_Subset DEF LoggedInKeys

\* The counters are bytes.
LEMMA ByteModulus ==
  ASSUME NEW n \in 0..254
  PROVE  /\ (n + 1) % 256 = n + 1
         /\ (n + 1 + 255) % 256 = n
OBVIOUS

\* The account a session owns.
LEMMA OwnAccount ==
  ASSUME IInv, NEW s \in Session, Owns(s)
  PROVE  /\ p_user[s] \in Key
         /\ table[p_user[s]] \in User
         /\ table[p_user[s]].login_status = "LOGGED_IN"
         /\ LoggedIn(p_user[s])
         /\ \A t \in Session \ {s} : Owns(t) => p_user[t] # p_user[s]
BY DEF IInv, TypeOK, OwnsAccount, LoggedIn

\* The first start establishes the invariant.
LEMMA InitIInv == Init => IInv
<1> SUFFICES ASSUME Init PROVE IInv
  OBVIOUS
<1>1. InitialFile.lines \in Seq(Line)
  BY InitialFileOK
<1>2. \A k \in Key : ~LoggedIn(k)
  BY <1>1, LoadTableType DEF Init, LoggedIn
<1>3. TypeOK
  <2>1. table \in [Key -> User \cup {NULL}] /\ user_count \in Nat
    BY <1>1, LoadTableType, LoadedLinesFinite DEF Init
  <2>2. client_count \in 0..MaxClient
    BY ConstantsOK DEF Init
  <2>3. NoRequest \in Request
    BY ConstantsOK DEF NoRequest, Request
  <2> QED BY <2>1, <2>2, <2>3, InitialFileOK DEF Init, TypeOK, PC
<1>4. ClientCountExact
  <2>1. {k \in Key : LoggedIn(k)} = {}
    BY <1>2
  <2> QED BY <2>1, FS_EmptySet DEF ClientCountExact, Init
<1>5. OwnsAccount /\ ActorStillAdmin
  BY DEF OwnsAccount, ActorStillAdmin, Owns, Init
<1> QED BY <1>2, <1>3, <1>4, <1>5 DEF IInv, NoGhostLogin

\* A step of a session that keeps what it owns, and disturbs no account that
\* is LOGGED_IN: everything but login, logout, the end of a thread and the
\* start of a process.
LEMMA ForeignStep ==
  ASSUME IInv, NEW s \in Session, NEW w \in PC,
         pc' = [pc EXCEPT ![s] = w],
         {pc[s], w} \cap {"logged_out", "quitting"} = {},
         w \in {"admin", "remove"} => Owns(s) /\ MayAlter(s, req'[s].name),
         UNCHANGED <<user_count, client_count, logged_in, p_user>>,
         users_txt' \in File,
         table' \in [Key -> User \cup {NULL}],
         \A k \in Key : LoggedIn(k) => table'[k] = table[k],
         \A k \in Key : LoggedIn(k)' => LoggedIn(k),
         req' \in [Session -> Request],
         \A t \in Session \ {s} : req'[t] = req[t],
         server_interrupt' \in {"CONTINUE", "STOP"}
  PROVE  IInv'
<1>1. TypeOK'
  BY DEF IInv, TypeOK, File
<1>2. \A k \in Key : LoggedIn(k)' = LoggedIn(k)
  BY DEF LoggedIn
<1>3. ClientCountExact'
  <2>1. {k \in Key : LoggedIn(k)}' = {k \in Key : LoggedIn(k)}
    BY <1>2
  <2> QED BY <2>1 DEF IInv, ClientCountExact
<1>4. \A t \in Session : Owns(t)' = Owns(t)
  BY DEF IInv, TypeOK, Owns
<1>5. OwnsAccount'
  BY <1>2, <1>4 DEF IInv, OwnsAccount
<1>6. ActorStillAdmin'
  <2> SUFFICES ASSUME NEW t \in Session, pc'[t] \in {"admin", "remove"}
               PROVE  (Owns(t) /\ MayAlter(t, req[t].name))'
    BY DEF ActorStillAdmin
  <2>1. Owns(t) /\ MayAlter(t, req'[t].name)
    BY DEF IInv, TypeOK, ActorStillAdmin
  <2>2. p_user[t] \in Key /\ table'[p_user[t]] = table[p_user[t]]
    BY <2>1, OwnAccount
  <2> QED BY <1>4, <2>1, <2>2 DEF MayAlter, Self
<1>7. NoGhostLogin => NoGhostLogin'
  BY <1>2, <1>4 DEF NoGhostLogin
<1> QED BY <1>1, <1>3, <1>5, <1>6, <1>7 DEF IInv

\* The same where not even the accounts or requests change.
LEMMA QuietStep ==
  ASSUME IInv, NEW s \in Session, NEW w \in {"receive", "clean"},
         pc' = [pc EXCEPT ![s] = w], pc[s] \notin {"logged_out", "quitting"},
         UNCHANGED <<accounts, locals>>,
         server_interrupt' \in {"CONTINUE", "STOP"}
  PROVE  IInv'
<1>1. \A k \in Key : LoggedIn(k)' = LoggedIn(k)
  BY DEF LoggedIn, accounts
<1>2. w \in PC /\ {pc[s], w} \cap {"logged_out", "quitting"} = {}
  BY DEF PC
<1>3. /\ users_txt' \in File /\ req' \in [Session -> Request]
      /\ table' \in [Key -> User \cup {NULL}]
      /\ \A k \in Key : table'[k] = table[k]
      /\ \A t \in Session : req'[t] = req[t]
  BY DEF IInv, TypeOK, File, accounts, locals
<1>4. UNCHANGED <<user_count, client_count, logged_in, p_user>>
  BY DEF accounts, locals
<1>5. ~(w \in {"admin", "remove"})
  OBVIOUS
<1> QED BY <1>1, <1>2, <1>3, <1>4, <1>5, ForeignStep

\* What Reply does to the program counter.
LEMMA ReplyGoes ==
  ASSUME NEW s \in Session, Reply(s)
  PROVE  \E w \in {"receive", "clean"} : pc' = [pc EXCEPT ![s] = w]
BY DEF Reply, Goto, LoopHead

\* Requests that are refused, lost or none of the accounts' business.
LEMMA ReceiveQuiet ==
  ASSUME IInv, NEW s \in Session,
         \/ \E n \in Name, pw \in Password :
              \/ LoginReject(s, n, pw) \/ LoginAckLost(s, n, pw)
              \/ RegisterReject(s, n, pw)
         \/ \E n \in Name : AlterReject(s, n)
         \/ LogoutAckLost(s) \/ QuitConnected(s) \/ OtherRequest(s)
         \/ Disconnect(s) \/ ReadTimeout(s) \/ Accept(s)
  PROVE  IInv'
<1>1. \E w \in {"receive", "clean"} : pc' = [pc EXCEPT ![s] = w]
  BY ReplyGoes DEF LoginReject, LoginAckLost, RegisterReject, AlterReject,
     LogoutAckLost, QuitConnected, OtherRequest, Disconnect, ReadTimeout,
     Accept, Goto
<1>2. pc[s] \in {"receive", "closed"}
  BY DEF LoginReject, LoginAckLost, RegisterReject, AlterReject,
     LogoutAckLost, QuitConnected, OtherRequest, Disconnect, ReadTimeout,
     Accept, Hears, At
<1>3. UNCHANGED <<accounts, locals>>
  BY DEF LoginReject, LoginAckLost, RegisterReject, AlterReject,
     LogoutAckLost, QuitConnected, OtherRequest, Disconnect, ReadTimeout,
     Accept
<1>4. server_interrupt' \in {server_interrupt, "STOP"}
  BY DEF LoginReject, LoginAckLost, RegisterReject, AlterReject,
     LogoutAckLost, QuitConnected, OtherRequest, Disconnect, ReadTimeout,
     Accept
<1>5. server_interrupt' \in {"CONTINUE", "STOP"}
  BY <1>4 DEF IInv, TypeOK
<1> QED BY <1>1, <1>2, <1>3, <1>5, QuietStep

\* The three checks made before the critical section they prepare.
LEMMA CheckStep ==
  ASSUME IInv, NEW s \in Session,
         \/ \E n \in Name, pw \in Password : RegisterCheck(s, n, pw)
         \/ \E n \in Name : \/ RemoveCheck(s, n)
                            \/ \E set_to \in {"ADMIN", "NOT_ADMIN"} :
                                 AdminCheck(s, n, set_to)
  PROVE  IInv'
<1>1. PICK r \in Request, w \in {"register", "admin", "remove"} :
        /\ req' = [req EXCEPT ![s] = r]
        /\ pc' = [pc EXCEPT ![s] = w]
        /\ w # "register" => logged_in[s] /\ MayAlter(s, r.name)
  <2>1. CASE \E n \in Name, pw \in Password : RegisterCheck(s, n, pw)
    <3>1. PICK n \in Name, pw \in Password : RegisterCheck(s, n, pw)
      BY <2>1
    <3>2. [NoRequest EXCEPT !.name = n, !.password = pw] \in Request
      BY DEF NoRequest, Request
    <3> QED BY <3>1, <3>2 DEF RegisterCheck, Goto
  <2>2. CASE \E n \in Name : RemoveCheck(s, n)
    <3>1. PICK n \in Name : RemoveCheck(s, n)
      BY <2>2
    <3> DEFINE r == [NoRequest EXCEPT !.name = n]
    <3>2. r \in Request /\ r.name = n
      BY ConstantsOK DEF NoRequest, Request
    <3>3. /\ req' = [req EXCEPT ![s] = r]
          /\ pc' = [pc EXCEPT ![s] = "remove"]
          /\ logged_in[s] /\ MayAlter(s, n)
      BY <3>1 DEF RemoveCheck, Goto, Hears
    <3> QED BY <3>2, <3>3
  <2>3. CASE \E n \in Name, set_to \in {"ADMIN", "NOT_ADMIN"} :
               AdminCheck(s, n, set_to)
    <3>1. PICK n \in Name, set_to \in {"ADMIN", "NOT_ADMIN"} :
            AdminCheck(s, n, set_to)
      BY <2>3
    <3> DEFINE r == [NoRequest EXCEPT !.name = n, !.admin_set_to = set_to]
    <3>2. r \in Request /\ r.name = n
      BY ConstantsOK DEF NoRequest, Request
    <3>3. /\ req' = [req EXCEPT ![s] = r]
          /\ pc' = [pc EXCEPT ![s] = "admin"]
          /\ logged_in[s] /\ MayAlter(s, n)
      BY <3>1 DEF AdminCheck, Goto, Hears
    <3> QED BY <3>2, <3>3
  <2> QED BY <2>1, <2>2, <2>3
<1>2. /\ pc[s] = "receive"
      /\ UNCHANGED <<accounts, server_interrupt, logged_in, p_user>>
  BY DEF RegisterCheck, RemoveCheck, AdminCheck, Hears, At
<1>3. /\ req' \in [Session -> Request] /\ req'[s] = r
      /\ \A t \in Session \ {s} : req'[t] = req[t]
  BY <1>1 DEF IInv, TypeOK
<1>4. w \in {"admin", "remove"} => Owns(s) /\ MayAlter(s, req'[s].name)
  BY <1>1, <1>2, <1>3 DEF Owns
<1>5. w \in PC /\ {pc[s], w} \cap {"logged_out", "quitting"} = {}
  BY <1>1, <1>2 DEF PC
<1>6. /\ UNCHANGED <<user_count, client_count, logged_in, p_user>>
      /\ users_txt' \in File /\ table' \in [Key -> User \cup {NULL}]
      /\ \A k \in Key : table'[k] = table[k]
      /\ server_interrupt' \in {"CONTINUE", "STOP"}
  BY <1>2 DEF IInv, TypeOK, File, accounts
<1>7. \A k \in Key : LoggedIn(k)' = LoggedIn(k)
  BY <1>6 DEF LoggedIn
<1> QED BY <1>1, <1>3, <1>4, <1>5, <1>6, <1>7, ForeignStep

\* The three critical sections that follow the checks.  cr_users_reg_helper
\* adds an account only under a key that has none.
LEMMA RegisterAddStep ==
  ASSUME IInv, NEW s \in Session, RegisterAdd(s)
  PROVE  IInv'
<1> DEFINE n == req[s].name
           new == [name |-> n, password |-> req[s].password,
                   login_status |-> "NOT_LOGGED_IN",
                   admin_status |-> "NOT_ADMIN"]
<1>1. /\ req[s] \in Request /\ n \in Name /\ KeyOf[n] \in Key
      /\ req[s].password \in Password
  BY ConstantsOK DEF IInv, TypeOK, Request
<1>2. new \in User /\ new # NULL
  BY <1>1, NullIsNothing DEF User
<1>3. users_txt' \in File
  <2>1. [name |-> n, password |-> req[s].password] \in Line
    BY <1>1 DEF Line
  <2> QED BY <2>1, AddLineType DEF IInv, TypeOK, File, RegisterAdd
<1>4. \/ ~Exists(n) /\ table' = [table EXCEPT ![KeyOf[n]] = new]
      \/ table' = table
  BY DEF RegisterAdd
<1>5. /\ table' \in [Key -> User \cup {NULL}]
      /\ \A k \in Key : LoggedIn(k) => table'[k] = table[k]
      /\ \A k \in Key : LoggedIn(k)' => LoggedIn(k)
  BY <1>1, <1>2, <1>4 DEF IInv, TypeOK, Exists, LoggedIn
<1>6. \E w \in {"receive", "clean"} : pc' = [pc EXCEPT ![s] = w]
  BY ReplyGoes DEF RegisterAdd, Goto
<1>7. /\ pc[s] = "register"
      /\ UNCHANGED <<user_count, client_count, logged_in, p_user>>
      /\ server_interrupt' \in {"CONTINUE", "STOP"}
  BY DEF RegisterAdd, At, IInv, TypeOK
<1>8. /\ req' \in [Session -> Request]
      /\ \A t \in Session \ {s} : req'[t] = req[t]
  <2>1. NoRequest \in Request
    BY ConstantsOK DEF NoRequest, Request
  <2> QED BY <2>1 DEF RegisterAdd, Forget, IInv, TypeOK
<1>9. PICK w \in PC : /\ pc' = [pc EXCEPT ![s] = w]
                      /\ w \in {"receive", "clean"}
  BY <1>6 DEF PC
<1>10. /\ {pc[s], w} \cap {"logged_out", "quitting"} = {}
       /\ ~(w \in {"admin", "remove"})
  BY <1>7, <1>9
<1> HIDE DEF n, new
<1> QED BY <1>3, <1>5, <1>7, <1>8, <1>9, <1>10, ForeignStep

\* cr_users_admin_helper_1 changes only accounts that are not LOGGED_IN.
LEMMA AdminSetStep ==
  ASSUME IInv, NEW s \in Session, AdminSet(s)
  PROVE  IInv'
<1> DEFINE n == req[s].name
<1>1. /\ n \in Name /\ KeyOf[n] \in Key
      /\ req[s].admin_set_to \in {"ADMIN", "NOT_ADMIN"}
  BY ConstantsOK DEF IInv, TypeOK, Request
<1>2. \/ /\ CanAlter(n)
         /\ table' = [table EXCEPT ![KeyOf[n]].admin_status =
                                      req[s].admin_set_to]
      \/ table' = table
  BY DEF AdminSet
<1>3. /\ table' \in [Key -> User \cup {NULL}]
      /\ \A k \in Key : LoggedIn(k) => table'[k] = table[k]
      /\ \A k \in Key : LoggedIn(k)' => LoggedIn(k)
  <2>1. CASE table' = table
    BY <2>1 DEF IInv, TypeOK, LoggedIn
  <2>2. CASE /\ CanAlter(n)
             /\ table' = [table EXCEPT ![KeyOf[n]].admin_status =
                                          req[s].admin_set_to]
    <3> DEFINE u == table[KeyOf[n]]
               v == [u EXCEPT !.admin_status = req[s].admin_set_to]
    <3>1. u \in User /\ u.login_status = "NOT_LOGGED_IN"
      BY <1>1, <2>2 DEF IInv, TypeOK, CanAlter, Exists, LoggedIn, User
    <3>2. v \in User /\ v.login_status = "NOT_LOGGED_IN"
      BY <1>1, <3>1 DEF User
    <3>3. table' = [table EXCEPT ![KeyOf[n]] = v]
      BY <2>2
    <3>4. ~LoggedIn(KeyOf[n])
      BY <2>2 DEF CanAlter
    <3> HIDE DEF u, v
    <3> QED BY <1>1, <3>2, <3>3, <3>4 DEF IInv, TypeOK, LoggedIn
  <2> QED BY <1>2, <2>1, <2>2
<1>4. PICK w \in PC : /\ pc' = [pc EXCEPT ![s] = w]
                      /\ w \in {"receive", "clean"}
  BY ReplyGoes DEF AdminSet, PC
<1>5. /\ {pc[s], w} \cap {"logged_out", "quitting"} = {}
      /\ ~(w \in {"admin", "remove"})
      /\ UNCHANGED <<user_count, client_count, users_txt, server_interrupt,
                     logged_in, p_user>>
  BY <1>4 DEF AdminSet, At
<1>6. /\ req' \in [Session -> Request]
      /\ \A t \in Session \ {s} : req'[t] = req[t]
  <2>1. NoRequest \in Request
    BY ConstantsOK DEF NoRequest, Request
  <2> QED BY <2>1 DEF AdminSet, Forget, IInv, TypeOK
<1>7. users_txt' \in File /\ server_interrupt' \in {"CONTINUE", "STOP"}
  BY <1>5 DEF IInv, TypeOK, File
<1> QED BY <1>3, <1>4, <1>5, <1>6, <1>7, ForeignStep

\* cr_users_remove_table frees only accounts that are not LOGGED_IN.
LEMMA RemoveTableStep ==
  ASSUME IInv, NEW s \in Session, RemoveTable(s)
  PROVE  IInv'
<1> DEFINE n == req[s].name
<1>1. n \in Name /\ KeyOf[n] \in Key
  BY ConstantsOK DEF IInv, TypeOK, Request
<1>2. \/ CanRemove(n) /\ table' = [table EXCEPT ![KeyOf[n]] = NULL]
      \/ table' = table
  BY DEF RemoveTable
<1>3. /\ table' \in [Key -> User \cup {NULL}]
      /\ \A k \in Key : LoggedIn(k) => table'[k] = table[k]
      /\ \A k \in Key : LoggedIn(k)' => LoggedIn(k)
  BY <1>1, <1>2 DEF IInv, TypeOK, CanRemove, LoggedIn
<1> DEFINE w == "rewrite"
<1>4. /\ pc' = [pc EXCEPT ![s] = w] /\ w \in PC /\ pc[s] = "remove"
      /\ UNCHANGED <<user_count, client_count, users_txt, server_interrupt,
                     logged_in, p_user, req>>
  BY DEF RemoveTable, At, Goto, PC, locals
<1>5. /\ {pc[s], w} \cap {"logged_out", "quitting"} = {}
      /\ ~(w \in {"admin", "remove"})
  BY <1>4
<1>6. /\ req' \in [Session -> Request]
      /\ \A t \in Session \ {s} : req'[t] = req[t]
      /\ users_txt' \in File /\ server_interrupt' \in {"CONTINUE", "STOP"}
  BY <1>4 DEF IInv, TypeOK, File
<1> HIDE DEF n, w
<1> QED BY <1>3, <1>4, <1>5, <1>6, ForeignStep

\* cr_users_remove_file touches no account.
LEMMA RemoveFileStep ==
  ASSUME IInv, NEW s \in Session, RemoveFile(s)
  PROVE  IInv'
<1>1. PICK w \in PC : /\ pc' = [pc EXCEPT ![s] = w]
                      /\ w \in {"receive", "clean"}
  BY ReplyGoes DEF RemoveFile, PC
<1>2. /\ {pc[s], w} \cap {"logged_out", "quitting"} = {}
      /\ ~(w \in {"admin", "remove"})
      /\ UNCHANGED <<table, user_count, client_count, server_interrupt,
                     logged_in, p_user>>
  BY <1>1 DEF RemoveFile, At
<1>3. /\ table' \in [Key -> User \cup {NULL}]
      /\ \A k \in Key : LoggedIn(k)' = LoggedIn(k) /\ table'[k] = table[k]
  BY <1>2 DEF IInv, TypeOK, LoggedIn
<1>4. /\ req' \in [Session -> Request]
      /\ \A t \in Session \ {s} : req'[t] = req[t]
  <2>1. NoRequest \in Request
    BY ConstantsOK DEF NoRequest, Request
  <2> QED BY <2>1 DEF RemoveFile, Forget, IInv, TypeOK
<1>5. users_txt' \in File /\ server_interrupt' \in {"CONTINUE", "STOP"}
  <2>1. users_txt \in File
    BY DEF IInv, TypeOK, File
  <2> QED BY <1>2, <2>1, RemoveLinesType DEF RemoveFile, IInv, TypeOK
<1> QED BY <1>1, <1>2, <1>3, <1>4, <1>5, ForeignStep

\* cr_users_login: one more key is LOGGED_IN, and nobody owned it before.
LEMMA LoginStep ==
  ASSUME IInv, NEW s \in Session, NEW n \in Name, NEW pw \in Password,
         Login(s, n, pw)
  PROVE  IInv'
<1> DEFINE k == KeyOf[n]
           v == [table[k] EXCEPT !.login_status = "LOGGED_IN"]
<1>1. /\ k \in Key /\ table[k] \in User /\ ~LoggedIn(k)
      /\ client_count < MaxClient
  BY ConstantsOK DEF IInv, TypeOK, Login, CanLogin, Exists
<1>2. v \in User /\ v.login_status = "LOGGED_IN" /\ v # NULL
      /\ v.name = table[k].name /\ v.admin_status = table[k].admin_status
  BY <1>1, NullIsNothing DEF User
<1>3. table' = [table EXCEPT ![k] = v]
  BY DEF Login
<1> HIDE DEF v
<1>4. \A l \in Key : LoggedIn(l)' <=> l = k \/ LoggedIn(l)
  BY <1>1, <1>2, <1>3 DEF LoggedIn, IInv, TypeOK
<1>5. client_count' = client_count + 1
  <2>1. client_count \in 0..254
    BY <1>1, ConstantsOK DEF IInv, TypeOK
  <2>2. client_count' = (client_count + 1) % 256
    BY DEF Login
  <2> QED BY <2>1, <2>2, ByteModulus
<1>6. PICK w \in PC : pc' = [pc EXCEPT ![s] = w] /\ w \in {"receive", "clean"}
  BY LoopHeadIs DEF Login, Goto, PC
<1>7. /\ p_user' = [p_user EXCEPT ![s] = k]
      /\ logged_in' = [logged_in EXCEPT ![s] = TRUE]
      /\ UNCHANGED <<user_count, users_txt, server_interrupt, req>>
      /\ pc[s] = "receive" /\ ~logged_in[s]
  BY DEF Login, Hears, At
<1>8. TypeOK'
  <2>1. table' \in [Key -> User \cup {NULL}]
    BY <1>1, <1>2, <1>3 DEF IInv, TypeOK
  <2>2. client_count' \in 0..MaxClient
    BY <1>1, <1>5, ConstantsOK DEF IInv, TypeOK
  <2>3. pc' \in [Session -> PC]
    BY <1>6 DEF IInv, TypeOK
  <2>4. p_user' \in [Session -> Key \cup {NULL}]
    BY <1>1, <1>7 DEF IInv, TypeOK
  <2>5. logged_in' \in [Session -> BOOLEAN]
    BY <1>7 DEF IInv, TypeOK
  <2> QED BY <1>7, <2>1, <2>2, <2>3, <2>4, <2>5 DEF IInv, TypeOK
<1>9. ClientCountExact'
  <2>1. {l \in Key : LoggedIn(l)}' = LoggedInKeys \cup {k}
    BY <1>1, <1>4 DEF LoggedInKeys
  <2>2. k \notin LoggedInKeys
    BY <1>1 DEF LoggedInKeys
  <2>3. Cardinality(LoggedInKeys \cup {k}) = Cardinality(LoggedInKeys) + 1
    BY <2>2, LoggedInKeysFinite, FS_AddElement
  <2> QED BY <1>5, <2>1, <2>3 DEF IInv, ClientCountExact, LoggedInKeys
<1>10. \A t \in Session \ {s} : /\ Owns(t)' = Owns(t) /\ pc'[t] = pc[t]
                                /\ p_user'[t] = p_user[t] /\ req'[t] = req[t]
  BY <1>6, <1>7 DEF Owns, IInv, TypeOK
<1>11. \A t \in Session \ {s} : Owns(t) => p_user[t] \in Key \ {k}
  BY <1>1, OwnAccount
<1>12. p_user'[s] = k
  BY <1>7 DEF IInv, TypeOK
<1>13. OwnsAccount'
  <2> SUFFICES ASSUME NEW t \in Session, Owns(t)'
               PROVE  /\ p_user'[t] \in Key /\ LoggedIn(p_user[t])'
                      /\ \A u \in Session \ {t} : Owns(u)' => p_user'[u] # p_user'[t]
    BY DEF OwnsAccount
  <2>1. CASE t = s
    <3>1. LoggedIn(k)'
      BY <1>1, <1>4
    <3>2. LoggedIn(p_user[s])'
      BY <3>1, <1>12 DEF LoggedIn
    <3> QED BY <2>1, <3>2, <1>1, <1>10, <1>11, <1>12
  <2>2. CASE t # s
    <3>1. Owns(t) /\ p_user'[t] = p_user[t]
      BY <1>10, <2>2
    <3>2. /\ p_user[t] \in Key /\ LoggedIn(p_user[t])
          /\ \A u \in Session \ {t} : Owns(u) => p_user[u] # p_user[t]
      BY <3>1, OwnAccount
    <3>3. LoggedIn(p_user[t])'
      <4>1. table'[p_user[t]] = table[p_user[t]]
        BY <1>1, <1>3, <3>2 DEF IInv, TypeOK
      <4> QED BY <3>1, <3>2, <4>1 DEF LoggedIn
    <3> QED BY <2>2, <3>1, <3>2, <3>3, <1>10, <1>11, <1>12
  <2> QED BY <2>1, <2>2
<1>14. ActorStillAdmin'
  <2> SUFFICES ASSUME NEW t \in Session, pc'[t] \in {"admin", "remove"}
               PROVE  (Owns(t) /\ MayAlter(t, req[t].name))'
    BY DEF ActorStillAdmin
  <2>1. t # s
    BY <1>6 DEF IInv, TypeOK
  <2>2. Owns(t) /\ MayAlter(t, req[t].name)
    BY <1>10, <2>1 DEF IInv, ActorStillAdmin
  <2>3. table'[p_user[t]] = table[p_user[t]]
    BY <1>1, <1>3, <1>11, <2>1, <2>2 DEF IInv, TypeOK
  <2> QED BY <1>10, <2>1, <2>2, <2>3 DEF MayAlter, Self
<1>15. NoGhostLogin => NoGhostLogin'
  <2> SUFFICES ASSUME NoGhostLogin, NEW l \in Key, LoggedIn(l)'
               PROVE  \E t \in Session : Owns(t)' /\ p_user'[t] = l
    BY DEF NoGhostLogin
  <2>1. CASE l = k
    <3>1. Owns(s)'
      BY <1>6, <1>7 DEF Owns, IInv, TypeOK
    <3> QED BY <2>1, <3>1, <1>12
  <2>2. CASE LoggedIn(l)
    <3>1. PICK t \in Session : Owns(t) /\ p_user[t] = l
      BY <2>2 DEF NoGhostLogin
    <3>2. t # s
      BY <3>1, <1>7 DEF Owns
    <3> QED BY <3>1, <3>2, <1>10
  <2> QED BY <1>4, <2>1, <2>2
<1> QED BY <1>8, <1>9, <1>13, <1>14, <1>15 DEF IInv

\* The critical section of cr_users_logout: the session owns the account, so
\* it is LOGGED_IN, the count is not zero, and no other session has it.
LEMMA ReleaseStep ==
  ASSUME IInv, NEW s \in Session,
         Logout(s) \/ QuitLoggedIn(s) \/ CleanLogout(s)
  PROVE  IInv'
<1> DEFINE k == p_user[s]
           v == [table[k] EXCEPT !.login_status = "NOT_LOGGED_IN"]
<1>1. Owns(s)
  BY DEF Logout, QuitLoggedIn, CleanLogout, Hears, At, Owns
<1>2. /\ k \in Key /\ table[k] \in User /\ LoggedIn(k)
      /\ \A t \in Session \ {s} : Owns(t) => p_user[t] # k
  BY <1>1, OwnAccount
<1>3. v \in User /\ v.login_status = "NOT_LOGGED_IN"
  BY <1>2 DEF User
<1>4. /\ table' = [table EXCEPT ![k] = v]
      /\ client_count' = (client_count + 255) % 256
      /\ UNCHANGED <<user_count, users_txt, server_interrupt, locals>>
  BY DEF Logout, QuitLoggedIn, CleanLogout, ReleaseUser
<1> HIDE DEF v
<1>5. \A l \in Key : LoggedIn(l)' <=> l # k /\ LoggedIn(l)
  BY <1>2, <1>3, <1>4 DEF LoggedIn, IInv, TypeOK
<1>6. PICK w \in {"logged_out", "quitting"} : pc' = [pc EXCEPT ![s] = w]
  BY DEF Logout, QuitLoggedIn, CleanLogout, Goto
<1>7. /\ {l \in Key : LoggedIn(l)}' = LoggedInKeys \ {k}
      /\ k \in LoggedInKeys
  BY <1>2, <1>5 DEF LoggedInKeys
<1>8. /\ Cardinality(LoggedInKeys \ {k}) = Cardinality(LoggedInKeys) - 1
      /\ Cardinality(LoggedInKeys \ {k}) \in Nat
  BY <1>7, LoggedInKeysFinite, FS_RemoveElement, FS_CardinalityType
<1>9. client_count = Cardinality(LoggedInKeys) /\ client_count \in 0..50
  <2>1. client_count \in 0..MaxClient /\ MaxClient \in 2..50
    BY ConstantsOK DEF IInv, TypeOK
  <2>2. client_count = Cardinality(LoggedInKeys)
    BY DEF IInv, ClientCountExact, LoggedInKeys
  <2> QED BY <2>1, <2>2
<1>10. client_count \in 1..50 /\ client_count' = client_count - 1
  <2>1. client_count - 1 \in 0..254
    BY <1>8, <1>9
  <2>2. (client_count - 1 + 1 + 255) % 256 = client_count - 1
    BY <2>1, ByteModulus
  <2>3. client_count - 1 + 1 + 255 = client_count + 255
    BY <1>9
  <2> QED BY <1>4, <1>8, <1>9, <2>2, <2>3
<1>11. ClientCountExact'
  BY <1>7, <1>8, <1>9, <1>10 DEF ClientCountExact
<1>12. TypeOK'
  <2>1. table' \in [Key -> User \cup {NULL}]
    BY <1>2, <1>3, <1>4 DEF IInv, TypeOK
  <2>2. client_count' \in 0..MaxClient
    BY <1>10, ConstantsOK DEF IInv, TypeOK
  <2>3. pc' \in [Session -> PC]
    BY <1>6 DEF IInv, TypeOK, PC
  <2> QED BY <1>4, <2>1, <2>2, <2>3 DEF IInv, TypeOK, locals
<1>13. /\ ~Owns(s)'
       /\ \A t \in Session \ {s} : Owns(t)' = Owns(t) /\ pc'[t] = pc[t]
       /\ p_user' = p_user /\ req' = req
  BY <1>4, <1>6 DEF Owns, IInv, TypeOK, locals
<1>14. \A t \in Session \ {s} : Owns(t) =>
         p_user[t] \in Key \ {k} /\ table'[p_user[t]] = table[p_user[t]]
  BY <1>2, <1>4, OwnAccount DEF IInv, TypeOK
<1>15. OwnsAccount'
  <2> SUFFICES ASSUME NEW t \in Session, Owns(t)'
               PROVE  /\ p_user[t] \in Key /\ LoggedIn(p_user[t])'
                      /\ \A u \in Session \ {t} : Owns(u)' => p_user[u] # p_user[t]
    BY <1>13 DEF OwnsAccount
  <2>1. t # s /\ Owns(t)
    BY <1>13
  <2>2. /\ p_user[t] \in Key /\ LoggedIn(p_user[t])
        /\ \A u \in Session \ {t} : Owns(u) => p_user[u] # p_user[t]
    BY <2>1, OwnAccount
  <2>3. LoggedIn(p_user[t])'
    BY <1>13, <1>14, <2>1, <2>2 DEF LoggedIn
  <2> QED BY <1>13, <2>2, <2>3
<1>16. ActorStillAdmin'
  <2> SUFFICES ASSUME NEW t \in Session, pc'[t] \in {"admin", "remove"}
               PROVE  (Owns(t) /\ MayAlter(t, req[t].name))'
    BY DEF ActorStillAdmin
  <2>1. t # s
    BY <1>6 DEF IInv, TypeOK
  <2>2. Owns(t) /\ MayAlter(t, req[t].name)
    BY <1>13, <2>1 DEF IInv, ActorStillAdmin
  <2> QED BY <1>13, <1>14, <2>1, <2>2 DEF MayAlter, Self
<1>17. NoGhostLogin => NoGhostLogin'
  <2> SUFFICES ASSUME NoGhostLogin, NEW l \in Key, LoggedIn(l)'
               PROVE  \E t \in Session : Owns(t)' /\ p_user[t] = l
    BY <1>13 DEF NoGhostLogin
  <2>1. PICK t \in Session : Owns(t) /\ p_user[t] = l
    BY <1>5 DEF NoGhostLogin
  <2>2. t # s
    BY <1>5, <2>1
  <2> QED BY <1>13, <2>1, <2>2
<1> QED BY <1>11, <1>12, <1>15, <1>16, <1>17 DEF IInv

\* A session gives up its locals; unless leaving a room has failed it owns
\* nothing by then.
LEMMA LeavingStep ==
  ASSUME IInv, NEW s \in Session,
         NEW w \in {"receive", "clean", "closed"},
         pc' = [pc EXCEPT ![s] = w],
         logged_in' = [logged_in EXCEPT ![s] = FALSE],
         p_user' \in {p_user, [p_user EXCEPT ![s] = NULL]},
         UNCHANGED <<accounts, req>>,
         server_interrupt' \in {"CONTINUE", "STOP"},
         ~LeaveMayFail => ~Owns(s)
  PROVE  IInv'
<1>1. TypeOK'
  BY DEF IInv, TypeOK, PC, accounts
<1>2. /\ table' = table /\ client_count' = client_count /\ req' = req
      /\ \A k \in Key : LoggedIn(k)' = LoggedIn(k)
  BY DEF accounts, LoggedIn
<1>3. ClientCountExact'
  <2>1. {k \in Key : LoggedIn(k)}' = {k \in Key : LoggedIn(k)}
    BY <1>2
  <2> QED BY <1>2, <2>1 DEF IInv, ClientCountExact
<1>4. /\ ~Owns(s)'
      /\ \A t \in Session \ {s} : /\ Owns(t)' = Owns(t) /\ pc'[t] = pc[t]
                                  /\ p_user'[t] = p_user[t]
  BY DEF Owns, IInv, TypeOK
<1>5. OwnsAccount'
  BY <1>2, <1>4 DEF IInv, OwnsAccount, LoggedIn
<1>6. ActorStillAdmin'
  <2> SUFFICES ASSUME NEW t \in Session, pc'[t] \in {"admin", "remove"}
               PROVE  (Owns(t) /\ MayAlter(t, req[t].name))'
    BY DEF ActorStillAdmin
  <2>1. t # s
    BY DEF IInv, TypeOK
  <2>2. Owns(t) /\ MayAlter(t, req[t].name)
    BY <1>4, <2>1 DEF IInv, ActorStillAdmin
  <2> QED BY <1>2, <1>4, <2>1, <2>2 DEF MayAlter, Self
<1>7. ~LeaveMayFail => NoGhostLogin'
  <2> SUFFICES ASSUME ~LeaveMayFail, NEW l \in Key, LoggedIn(l)
               PROVE  \E t \in Session : Owns(t)' /\ p_user'[t] = l
    BY <1>2 DEF NoGhostLogin
  <2>1. PICK t \in Session : Owns(t) /\ p_user[t] = l
    BY DEF IInv, NoGhostLogin
  <2> QED BY <1>4, <2>1
<1> QED BY <1>1, <1>3, <1>5, <1>6, <1>7 DEF IInv

\* The steps by which a thread ends or forgets its login.
LEMMA ThreadEndSteps ==
  ASSUME IInv, NEW s \in Session,
         ResetLoggedIn(s) \/ CleanLeaveFails(s) \/ CleanClose(s)
  PROVE  IInv'
<1>1. \E w \in {"receive", "clean", "closed"} : pc' = [pc EXCEPT ![s] = w]
  BY LoopHeadIs
  DEF ResetLoggedIn, CleanLeaveFails, CleanClose, EndOfThread, Goto
<1>2. /\ logged_in' = [logged_in EXCEPT ![s] = FALSE]
      /\ p_user' \in {p_user, [p_user EXCEPT ![s] = NULL]}
      /\ UNCHANGED <<accounts, req>>
      /\ server_interrupt' \in {server_interrupt, "STOP"}
  BY DEF ResetLoggedIn, CleanLeaveFails, CleanClose, EndOfThread
<1>3. server_interrupt' \in {"CONTINUE", "STOP"}
  BY <1>2 DEF IInv, TypeOK
<1>4. ~LeaveMayFail => ~Owns(s)
  BY DEF ResetLoggedIn, CleanLeaveFails, CleanClose, At, Owns
<1> QED BY <1>1, <1>2, <1>3, <1>4, LeavingStep

\* A new process has nobody logged in.
LEMMA StartStep ==
  ASSUME IInv, Start
  PROVE  IInv'
<1>1. users_txt.lines \in Seq(Line)
  BY DEF IInv, TypeOK
<1>2. \A k \in Key : ~LoggedIn(k)'
  BY <1>1, LoadTableType DEF Start, LoggedIn
<1>3. TypeOK'
  <2>1. table' \in [Key -> User \cup {NULL}] /\ user_count' \in Nat
    BY <1>1, LoadTableType, LoadedLinesFinite DEF Start
  <2>2. client_count' \in 0..MaxClient
    BY ConstantsOK DEF Start
  <2>3. NoRequest \in Request
    BY ConstantsOK DEF NoRequest, Request
  <2> QED BY <2>1, <2>2, <2>3 DEF Start, TypeOK, PC, IInv
<1>4. ClientCountExact'
  <2>1. {k \in Key : LoggedIn(k)}' = {}
    BY <1>2
  <2> QED BY <2>1, FS_EmptySet DEF ClientCountExact, Start
<1>5. OwnsAccount' /\ ActorStillAdmin'
  BY DEF OwnsAccount, ActorStillAdmin, Owns, Start
<1> QED BY <1>2, <1>3, <1>4, <1>5 DEF IInv, NoGhostLogin

\* Every step keeps the invariant.
LEMMA NextIInv == IInv /\ [Next]_vars => IInv'
<1> SUFFICES ASSUME IInv, [Next]_vars PROVE IInv'
  OBVIOUS
<1>1. CASE UNCHANGED vars
  BY <1>1 DEF vars, accounts, locals, IInv, TypeOK, ClientCountExact,
     OwnsAccount, ActorStillAdmin, NoGhostLogin, LoggedIn, Owns, MayAlter, Self
<1>2. ASSUME NEW s \in Session, Accept(s) \/ Disconnect(s) PROVE IInv'
  BY <1>2, ReceiveQuiet
<1>3. ASSUME NEW s \in Session, Receive(s) PROVE IInv'
  <2>1. CASE \E n \in Name, pw \in Password : Login(s, n, pw)
    BY <2>1, LoginStep
  <2>2. CASE Logout(s) \/ QuitLoggedIn(s)
    BY <2>2, ReleaseStep
  <2>3. CASE \/ \E n \in Name, pw \in Password : RegisterCheck(s, n, pw)
             \/ \E n \in Name : \/ RemoveCheck(s, n)
                                \/ \E set_to \in {"ADMIN", "NOT_ADMIN"} :
                                     AdminCheck(s, n, set_to)
    BY <2>3, CheckStep
  <2>4. CASE \/ \E n \in Name, pw \in Password :
                  \/ LoginReject(s, n, pw) \/ LoginAckLost(s, n, pw)
                  \/ RegisterReject(s, n, pw)
             \/ \E n \in Name : AlterReject(s, n)
             \/ LogoutAckLost(s) \/ QuitConnected(s) \/ OtherRequest(s)
    BY <2>4, ReceiveQuiet
  <2> QED BY <1>3, <2>1, <2>2, <2>3, <2>4 DEF Receive
<1>4. ASSUME NEW s \in Session, Proceed(s) PROVE IInv'
  BY <1>4, RegisterAddStep, AdminSetStep, RemoveTableStep, RemoveFileStep,
     ReceiveQuiet, ReleaseStep, ThreadEndSteps DEF Proceed
<1>5. CASE Interrupt
  BY <1>5 DEF Interrupt, accounts, locals, IInv, TypeOK, ClientCountExact,
     OwnsAccount, ActorStillAdmin, NoGhostLogin, LoggedIn, Owns, MayAlter, Self
<1>6. CASE Restart \/ CrashRestart
  BY <1>6, StartStep DEF Restart, CrashRestart
<1> QED BY <1>1, <1>2, <1>3, <1>4, <1>5, <1>6 DEF Next


\* The invariant holds in every reachable state.
THEOREM Invariance == Spec => []IInv
<1>1. Init => IInv
  BY InitIInv
<1>2. IInv /\ [Next]_vars => IInv'
  BY NextIInv
<1> QED BY <1>1, <1>2, PTL DEF Spec

\* The variables keep their types, and client_count its bounds.
THEOREM TypeCorrect == Spec => []TypeOK
<1>1. IInv => TypeOK
  BY DEF IInv
<1> QED BY <1>1, Invariance, PTL

\* client_count is the number of accounts logged in.
THEOREM CountCorrect == Spec => []ClientCountExact
<1>1. IInv => ClientCountExact
  BY DEF IInv
<1> QED BY <1>1, Invariance, PTL

\* p_user never points to an account that is gone, logged out or taken.
THEOREM OwnershipCorrect == Spec => []OwnsAccount
<1>1. IInv => OwnsAccount
  BY DEF IInv
<1> QED BY <1>1, Invariance, PTL

\* Rights read before the lock still hold under it.
THEOREM RightsCorrect == Spec => []ActorStillAdmin
<1>1. IInv => ActorStillAdmin
  BY DEF IInv
<1> QED BY <1>1, Invariance, PTL

\* As long as cr_chats_leave does not fail, no account stays logged in after
\* its session.
THEOREM NoGhosts ==
  ASSUME ~LeaveMayFail
  PROVE  Spec => []NoGhostLogin
<1>1. IInv => NoGhostLogin
  BY DEF IInv
<1> QED BY <1>1, Invariance, PTL
---------------------------------------------------------------------------
(* An owned account is not touched *)

\* A critical section of any session leaves an account somebody owns alone,
\* unless it is the owner's own logout.
LEMMA OwnedUntouched ==
  ASSUME IInv, NEW s \in Session, Owns(s), NEW t \in Session,
         \/ \E n \in Name, pw \in Password : Login(t, n, pw)
         \/ RegisterAdd(t) \/ AdminSet(t) \/ RemoveTable(t) \/ RemoveFile(t)
         \/ t # s /\ (Logout(t) \/ QuitLoggedIn(t) \/ CleanLogout(t))
  PROVE  table'[p_user[s]] = table[p_user[s]]
<1>1. p_user[s] \in Key /\ LoggedIn(p_user[s])
  BY OwnAccount
<1>2. ASSUME NEW n \in Name, NEW pw \in Password, Login(t, n, pw)
      PROVE  table'[p_user[s]] = table[p_user[s]]
  BY <1>1, <1>2, ConstantsOK DEF Login, CanLogin, IInv, TypeOK
<1>3. KeyOf[req[t].name] \in Key
  BY ConstantsOK DEF IInv, TypeOK, Request
<1>4. CASE RegisterAdd(t)
  BY <1>1, <1>3, <1>4 DEF RegisterAdd, Exists, LoggedIn, IInv, TypeOK
<1>5. CASE AdminSet(t)
  BY <1>1, <1>3, <1>5 DEF AdminSet, CanAlter, IInv, TypeOK
<1>6. CASE RemoveTable(t) \/ RemoveFile(t)
  BY <1>1, <1>3, <1>6 DEF RemoveTable, RemoveFile, CanRemove, IInv, TypeOK
<1>7. CASE t # s /\ (Logout(t) \/ QuitLoggedIn(t) \/ CleanLogout(t))
  <2>1. Owns(t)
    BY <1>7 DEF Logout, QuitLoggedIn, CleanLogout, Hears, At, Owns
  <2>2. p_user[t] \in Key /\ p_user[t] # p_user[s]
    BY <1>7, <2>1, OwnAccount
  <2>3. table' = [table EXCEPT ![p_user[t]].login_status = "NOT_LOGGED_IN"]
    BY <1>7 DEF Logout, QuitLoggedIn, CleanLogout, ReleaseUser
  <2> QED BY <1>1, <2>2, <2>3 DEF IInv, TypeOK
<1> QED BY <1>2, <1>4, <1>5, <1>6, <1>7

\* No step of Next touches an account between its login and its logout.
LEMMA StableStep ==
  ASSUME IInv, [Next]_vars, NEW s \in Session, Owns(s), Owns(s)'
  PROVE  p_user'[s] = p_user[s] /\ table'[p_user[s]] = table[p_user[s]]
<1>1. CASE UNCHANGED <<table, p_user>>
  BY <1>1
<1>2. ASSUME NEW t \in Session, NEW n \in Name, NEW pw \in Password,
             Login(t, n, pw)
      PROVE  p_user'[s] = p_user[s] /\ table'[p_user[s]] = table[p_user[s]]
  <2>1. t # s
    BY <1>2 DEF Login, Hears, Owns
  <2>2. p_user'[s] = p_user[s]
    BY <1>2, <2>1 DEF Login, IInv, TypeOK
  <2> QED BY <1>2, <2>2, OwnedUntouched
<1>3. ASSUME NEW t \in Session,
             RegisterAdd(t) \/ AdminSet(t) \/ RemoveTable(t) \/ RemoveFile(t)
      PROVE  p_user'[s] = p_user[s] /\ table'[p_user[s]] = table[p_user[s]]
  BY <1>3, OwnedUntouched
  DEF RegisterAdd, AdminSet, RemoveTable, RemoveFile, locals
<1>4. ASSUME NEW t \in Session, Logout(t) \/ QuitLoggedIn(t) \/ CleanLogout(t)
      PROVE  p_user'[s] = p_user[s] /\ table'[p_user[s]] = table[p_user[s]]
  <2>1. pc'[t] \in {"logged_out", "quitting"}
    BY <1>4 DEF Logout, QuitLoggedIn, CleanLogout, Goto, IInv, TypeOK
  <2>2. t # s
    BY <2>1 DEF Owns
  <2>3. p_user' = p_user
    BY <1>4 DEF Logout, QuitLoggedIn, CleanLogout, ReleaseUser, locals
  <2> QED BY <1>4, <2>2, <2>3, OwnedUntouched
<1>5. ASSUME NEW t \in Session, CleanLeaveFails(t) \/ CleanClose(t)
      PROVE  p_user'[s] = p_user[s] /\ table'[p_user[s]] = table[p_user[s]]
  <2>1. /\ logged_in' = [logged_in EXCEPT ![t] = FALSE]
        /\ p_user' = [p_user EXCEPT ![t] = NULL] /\ table' = table
    BY <1>5 DEF CleanLeaveFails, CleanClose, EndOfThread, accounts
  <2>2. t # s
    BY <2>1 DEF Owns, IInv, TypeOK
  <2> QED BY <2>1, <2>2 DEF IInv, TypeOK
<1>6. CASE Restart \/ CrashRestart
  <2>1. ~Owns(s)'
    BY <1>6 DEF Restart, CrashRestart, Start, Owns
  <2> QED BY <2>1
<1>7. ASSUME NEW t \in Session, Accept(t) \/ Disconnect(t)
      PROVE  UNCHANGED <<table, p_user>>
  BY <1>7 DEF Accept, Disconnect, accounts, locals
<1>8. ASSUME NEW t \in Session, Receive(t)
      PROVE  p_user'[s] = p_user[s] /\ table'[p_user[s]] = table[p_user[s]]
  <2>1. CASE \E n \in Name, pw \in Password : Login(t, n, pw)
    BY <1>2, <2>1
  <2>2. CASE Logout(t) \/ QuitLoggedIn(t)
    BY <1>4, <2>2
  <2>3. CASE \/ \E n \in Name, pw \in Password :
                  \/ LoginReject(t, n, pw) \/ LoginAckLost(t, n, pw)
                  \/ RegisterReject(t, n, pw) \/ RegisterCheck(t, n, pw)
             \/ \E n \in Name :
                  \/ AlterReject(t, n) \/ RemoveCheck(t, n)
                  \/ \E set_to \in {"ADMIN", "NOT_ADMIN"} :
                       AdminCheck(t, n, set_to)
             \/ LogoutAckLost(t) \/ QuitConnected(t) \/ OtherRequest(t)
    BY <2>3 DEF LoginReject, LoginAckLost, RegisterReject, RegisterCheck,
       AlterReject, RemoveCheck, AdminCheck, LogoutAckLost, QuitConnected,
       OtherRequest, accounts, locals
  <2> QED BY <1>8, <2>1, <2>2, <2>3 DEF Receive
<1>9. ASSUME NEW t \in Session, Proceed(t)
      PROVE  p_user'[s] = p_user[s] /\ table'[p_user[s]] = table[p_user[s]]
  <2>1. CASE ResetLoggedIn(t) \/ ReadTimeout(t)
    BY <2>1 DEF ResetLoggedIn, ReadTimeout, accounts, locals
  <2> QED BY <1>3, <1>4, <1>5, <1>9, <2>1 DEF Proceed
<1>10. CASE Interrupt \/ UNCHANGED vars
  BY <1>10 DEF Interrupt, vars, accounts, locals
<1> QED BY <1>6, <1>7, <1>8, <1>9, <1>10 DEF Next

\* From login to logout the account of a session stays as it is.
THEOREM AccountStable == Spec => OwnAccountStable
<1>1. IInv /\ [Next]_vars =>
        [\A s \in Session : Owns(s) /\ Owns(s)'
           => p_user'[s] = p_user[s] /\ table'[p_user[s]] = table[p_user[s]]]_vars
  BY StableStep
<1> QED BY <1>1, Invariance, PTL DEF Spec, OwnAccountStable
---------------------------------------------------------------------------
(* A deleted account does not come back *)

\* A line of a file has a key.
LEMMA LineKey ==
  ASSUME NEW lines \in Seq(Line), NEW i \in DOMAIN lines
  PROVE  /\ lines[i] \in Line /\ lines[i].name \in Name
         /\ KeyOf[lines[i].name] \in Key
<1>1. lines[i] \in Line
  OBVIOUS
<1>2. lines[i].name \in Name
  BY <1>1 DEF Line
<1> QED BY <1>1, <1>2, ConstantsOK

\* Every line of a file is behind some account of the table made from it:
\* the first line with its key is loaded when the table has room for all keys.
LEMMA LoadsAll ==
  ASSUME NEW lines \in Seq(Line), Cardinality(Key) <= MaxTotalUsers,
         NEW i \in DOMAIN lines
  PROVE  LoadTable(lines)[KeyOf[lines[i].name]] # NULL
<1> DEFINE key(j) == KeyOf[lines[j].name]
           T == {j \in 1..Len(lines) : key(j) = key(i)}
<1>1. PICK x \in T : \A y \in T : x <= y
  <2>1. i \in T /\ T \in SUBSET Nat
    OBVIOUS
  <2> QED BY <2>1, LeastNatural
<1>2. \A j \in 1..Len(lines) : lines[j] \in Line /\ key(j) \in Key
  BY LineKey
<1>3. KeysBefore(lines, x) \in SUBSET (Key \ {key(i)})
  BY <1>1, <1>2 DEF KeysBefore
<1>4. Cardinality(KeysBefore(lines, x)) < MaxTotalUsers
  <2>1. /\ IsFiniteSet(Key \ {key(i)})
        /\ Cardinality(Key \ {key(i)}) = Cardinality(Key) - 1
    BY <1>2, ConstantsOK, FS_RemoveElement
  <2>2. /\ IsFiniteSet(KeysBefore(lines, x))
        /\ Cardinality(KeysBefore(lines, x)) <= Cardinality(Key \ {key(i)})
    BY <1>3, <2>1, FS_Subset
  <2>3. Cardinality(Key) \in Nat /\ Cardinality(KeysBefore(lines, x)) \in Nat
    BY <2>2, ConstantsOK, FS_CardinalityType
  <2> QED BY <2>1, <2>2, <2>3, ConstantsOK
<1>5. x \in LoadedLines(lines)
  BY <1>1, <1>3, <1>4 DEF LoadedLines, Loads
<1>6. \E j \in LoadedLines(lines) : KeyOf[lines[j].name] = key(i)
  BY <1>1, <1>5
<1> DEFINE c == CHOOSE j \in LoadedLines(lines) : KeyOf[lines[j].name] = key(i)
<1>7. c \in LoadedLines(lines)
  BY <1>6
<1>8. lines[c] \in Line
  BY <1>2, <1>7 DEF LoadedLines
<1>9. FileUser(lines[c]) \in User
  BY <1>8 DEF FileUser, User, Line
<1>10. LoadTable(lines)[key(i)] = FileUser(lines[c])
  BY <1>2, <1>6 DEF LoadTable
<1> QED BY <1>9, <1>10, NullIsNothing

\* The same, for a process that has just started.
LEMMA StartsComplete ==
  ASSUME users_txt \in File
  PROVE  /\ Init => NoResurrection
         /\ Start => NoResurrection'
<1>1. users_txt.lines \in Seq(Line)
  BY DEF File
<1>2. ASSUME Cardinality(Key) <= MaxTotalUsers
      PROVE  \A i \in DOMAIN users_txt.lines :
               LoadTable(users_txt.lines)[KeyOf[users_txt.lines[i].name]] # NULL
  BY <1>1, <1>2, LoadsAll
<1>3. Init => table = LoadTable(users_txt.lines)
  BY DEF Init
<1>4. Start => table' = LoadTable(users_txt.lines) /\ users_txt' = users_txt
  BY DEF Start
<1> QED BY <1>2, <1>3, <1>4 DEF NoResurrection, Exists

\* The lines that a deletion under way is about to drop.
Doomed(name, at, asked) ==
  \E s \in Session : at[s] = "rewrite" /\ name \in Extends[asked[s].name]

\* A step that removes no account, leaves the file and ends no deletion.
LEMMA SameAccounts ==
  ASSUME IInv, NoResurrection, users_txt' = users_txt,
         \A k \in Key : table[k] # NULL => table'[k] # NULL,
         \A t \in Session : At(t, "rewrite") =>
           At(t, "rewrite")' /\ req'[t] = req[t]
  PROVE  NoResurrection'
<1>1. \A i \in DOMAIN users_txt.lines : KeyOf[users_txt.lines[i].name] \in Key
  BY LineKey DEF IInv, TypeOK
<1>2. \A name \in Name : Doomed(name, pc, req) => Doomed(name, pc', req')
  BY DEF Doomed, At
<1>3. \A i \in DOMAIN users_txt.lines : users_txt.lines[i].name \in Name
  BY LineKey DEF IInv, TypeOK
<1>4. SUFFICES ASSUME Cardinality(Key) <= MaxTotalUsers,
                      NEW i \in DOMAIN users_txt.lines,
                      users_txt.lines[i] # Blank
               PROVE  \/ table'[KeyOf[users_txt.lines[i].name]] # NULL
                      \/ Doomed(users_txt.lines[i].name, pc', req')
  BY DEF NoResurrection, Exists, Doomed, At
<1>5. \/ table[KeyOf[users_txt.lines[i].name]] # NULL
      \/ Doomed(users_txt.lines[i].name, pc, req)
  BY <1>4 DEF NoResurrection, Exists, Doomed, At
<1> QED BY <1>1, <1>2, <1>3, <1>5

\* A step of a session that is not in the middle of a deletion ends none.
LEMMA DeletionsGoOn ==
  ASSUME IInv, NEW s \in Session, ~At(s, "rewrite"),
         \A t \in Session \ {s} : pc'[t] = pc[t] /\ req'[t] = req[t]
  PROVE  \A t \in Session : At(t, "rewrite") =>
           At(t, "rewrite")' /\ req'[t] = req[t]
BY DEF At

\* What an appended sequence holds was there before, or is the new element.
LEMMA Appended ==
  ASSUME NEW seq \in Seq(Line), NEW e \in Line, NEW i \in DOMAIN Append(seq, e)
  PROVE  \/ Append(seq, e)[i] = e
         \/ i \in DOMAIN seq /\ Append(seq, e)[i] = seq[i]
<1>1. /\ DOMAIN Append(seq, e) = 1..(Len(seq) + 1)
      /\ Append(seq, e)[Len(seq) + 1] = e
      /\ \A j \in 1..Len(seq) : Append(seq, e)[j] = seq[j]
  OBVIOUS
<1>2. DOMAIN seq = 1..Len(seq) /\ Len(seq) \in Nat
  OBVIOUS
<1> QED BY <1>1, <1>2

\* A registration adds its own line and perhaps a blank one.
LEMMA AddedLines ==
  ASSUME NEW file \in File, NEW line \in Line,
         NEW i \in DOMAIN AddLine(file, line).lines
  PROVE  LET after == AddLine(file, line).lines
         IN  \/ after[i] \in {Blank, line}
             \/ i \in DOMAIN file.lines /\ after[i] = file.lines[i]
<1> DEFINE lines == file.lines
           after == AddLine(file, line).lines
<1>1. lines \in Seq(Line)
  BY DEF File
<1>2. after \in {Append(lines, line), Append(Append(lines, Blank), line)}
  BY DEF AddLine
<1>3. i \in DOMAIN after
  OBVIOUS
<1> HIDE DEF lines, after
<1>4. after[i] \in {Blank, line} \/ (i \in DOMAIN lines /\ after[i] = lines[i])
  <2>1. CASE after = Append(lines, line)
    BY <1>1, <1>3, <2>1, Appended
  <2>2. CASE after = Append(Append(lines, Blank), line)
    <3> DEFINE mid == Append(lines, Blank)
    <3>1. mid \in Seq(Line)
      BY <1>1, BlankType
    <3>2. after = Append(mid, line)
      BY <2>2
    <3> HIDE DEF mid
    <3>3. after[i] = line \/ (i \in DOMAIN mid /\ after[i] = mid[i])
      BY <1>3, <3>1, <3>2, Appended
    <3>4. i \in DOMAIN mid => mid[i] = Blank \/ (i \in DOMAIN lines /\ mid[i] = lines[i])
      BY <1>1, BlankType, Appended DEF mid
    <3> QED BY <3>3, <3>4
  <2> QED BY <1>2, <2>1, <2>2
<1> QED BY <1>4 DEF lines, after

\* A registration: the account is in the table before its line is in the file.
LEMMA RegisterAddComplete ==
  ASSUME IInv, NoResurrection, NEW s \in Session, RegisterAdd(s)
  PROVE  NoResurrection'
<1> DEFINE n == req[s].name
           line == [name |-> n, password |-> req[s].password]
           lines == users_txt.lines
<1>1. /\ n \in Name /\ KeyOf[n] \in Key /\ req[s].password \in Password
      /\ line \in Line /\ lines \in Seq(Line)
      /\ \A i \in DOMAIN lines : KeyOf[lines[i].name] \in Key
  <2>1. /\ n \in Name /\ KeyOf[n] \in Key /\ req[s].password \in Password
        /\ lines \in Seq(Line)
    BY ConstantsOK DEF IInv, TypeOK, Request
  <2>2. line \in Line
    BY <2>1 DEF Line
  <2> QED BY <2>1, <2>2, LineKey
<1>2. \A k \in Key : table[k] # NULL => table'[k] # NULL
  BY <1>1, NullIsNothing DEF RegisterAdd, IInv, TypeOK, User
<1>3. table'[KeyOf[n]] # NULL
  BY <1>1, NullIsNothing DEF RegisterAdd, Exists, IInv, TypeOK, User
<1>5. ASSUME NEW i \in DOMAIN users_txt'.lines
      PROVE  \/ users_txt'.lines[i] \in {Blank, line}
             \/ i \in DOMAIN lines /\ users_txt'.lines[i] = lines[i]
  <2>1. users_txt \in File
    BY DEF IInv, TypeOK, File
  <2>2. users_txt' = AddLine(users_txt, line)
    BY DEF RegisterAdd
  <2> HIDE DEF line
  <2> QED BY <1>1, <1>5, <2>1, <2>2, AddedLines
<1>6. line.name = n
  OBVIOUS
<1> HIDE DEF n, line
<1>7. \A name \in Name : Doomed(name, pc, req) => Doomed(name, pc', req')
  <2>1. \A t \in Session \ {s} : pc'[t] = pc[t] /\ req'[t] = req[t]
    BY DEF RegisterAdd, Reply, Goto, Forget, IInv, TypeOK
  <2>2. \A t \in Session : At(t, "rewrite") =>
          At(t, "rewrite")' /\ req'[t] = req[t]
    BY <2>1, DeletionsGoOn DEF RegisterAdd, At
  <2> QED BY <2>2 DEF Doomed, At
<1>8. \A i \in DOMAIN lines : lines[i].name \in Name
  BY <1>1, LineKey
<1>9. SUFFICES ASSUME Cardinality(Key) <= MaxTotalUsers,
                      NEW i \in DOMAIN users_txt'.lines,
                      users_txt'.lines[i] # Blank
               PROVE  \/ table'[KeyOf[users_txt'.lines[i].name]] # NULL
                      \/ Doomed(users_txt'.lines[i].name, pc', req')
  <2> HIDE DEF lines
  <2> QED BY <1>9 DEF NoResurrection, Exists, Doomed, At
<1>10. CASE users_txt'.lines[i] = line
  BY <1>3, <1>6, <1>10
<1>11. CASE i \in DOMAIN lines /\ users_txt'.lines[i] = lines[i]
  <2>1. table[KeyOf[lines[i].name]] # NULL \/ Doomed(lines[i].name, pc, req)
    BY <1>9, <1>11 DEF NoResurrection, Exists, Doomed, At
  <2> QED BY <1>1, <1>2, <1>7, <1>8, <1>11, <2>1
<1> QED BY <1>5, <1>9, <1>10, <1>11

\* Names are told apart by the table, and the line of a name starts with it.
\* (A name may still begin another: Extends[n] has any further names.)
NamesDiffer ==
  /\ \A m, n \in Name : KeyOf[m] = KeyOf[n] => m = n
  /\ \A n \in Name : n \in Extends[n]

\* The first half of a deletion: only lines of the name may lose their
\* account, and these are doomed from here on.
LEMMA RemoveTableComplete ==
  ASSUME NamesDiffer, IInv, NoResurrection, NEW s \in Session, RemoveTable(s)
  PROVE  NoResurrection'
<1> DEFINE n == req[s].name
           lines == users_txt.lines
<1>1. /\ n \in Name /\ KeyOf[n] \in Key
      /\ \A i \in DOMAIN lines :
           lines[i].name \in Name /\ KeyOf[lines[i].name] \in Key
  <2>1. n \in Name /\ KeyOf[n] \in Key /\ lines \in Seq(Line)
    BY ConstantsOK DEF IInv, TypeOK, Request
  <2> QED BY <2>1, LineKey
<1>2. \A k \in Key \ {KeyOf[n]} : table'[k] = table[k]
  BY <1>1 DEF RemoveTable, IInv, TypeOK
<1>3. /\ users_txt' = users_txt /\ req' = req /\ At(s, "rewrite")'
      /\ \A t \in Session : At(t, "rewrite") => At(t, "rewrite")'
  BY DEF RemoveTable, At, Goto, locals, IInv, TypeOK
<1>4. \A name \in Name : Doomed(name, pc, req) => Doomed(name, pc', req')
  BY <1>3 DEF Doomed, At
<1>5. Doomed(n, pc', req')
  BY <1>1, <1>3 DEF Doomed, At, NamesDiffer
<1>6. SUFFICES ASSUME Cardinality(Key) <= MaxTotalUsers,
                      NEW i \in DOMAIN lines, lines[i] # Blank
               PROVE  table'[KeyOf[lines[i].name]] # NULL \/ Doomed(lines[i].name, pc', req')
  BY <1>3 DEF NoResurrection, Exists, Doomed, At
<1>7. table[KeyOf[lines[i].name]] # NULL \/ Doomed(lines[i].name, pc, req)
  BY <1>6 DEF NoResurrection, Exists, Doomed, At
<1>8. CASE lines[i].name = n
  BY <1>5, <1>8
<1>9. CASE lines[i].name # n
  <2>1. KeyOf[lines[i].name] # KeyOf[n]
    BY <1>1, <1>9 DEF NamesDiffer
  <2> QED BY <1>1, <1>2, <1>4, <1>7, <2>1
<1> QED BY <1>8, <1>9

\* The second half: the doomed lines are gone.
LEMMA RemoveFileComplete ==
  ASSUME IInv, NoResurrection, NEW s \in Session, RemoveFile(s)
  PROVE  NoResurrection'
<1> DEFINE n == req[s].name
           lines == users_txt.lines
           left == users_txt'.lines
<1>1. /\ lines \in Seq(Line)
      /\ \A i \in DOMAIN lines : lines[i].name \in Name
  <2>1. lines \in Seq(Line)
    BY DEF IInv, TypeOK
  <2> QED BY <2>1, LineKey
<1>2. /\ table' = table
      /\ \A t \in Session \ {s} : pc'[t] = pc[t] /\ req'[t] = req[t]
  BY DEF RemoveFile, Reply, Goto, Forget, IInv, TypeOK
<1>3. left \in Seq(Survivors(lines, n))
  <2>1. left = KeptLines(lines, n)
    BY DEF RemoveFile, RemoveLines
  <2> QED BY <1>1, <2>1, KeptLinesType
<1>4. ASSUME NEW i \in DOMAIN left
      PROVE  /\ left[i].name \notin Extends[n]
             /\ \E j \in DOMAIN lines : lines[j] = left[i]
  <2>1. left[i] \in Survivors(lines, n)
    <3> HIDE DEF left, lines
    <3> QED BY <1>3, <1>4
  <2> QED BY <2>1 DEF Survivors
<1>5. SUFFICES ASSUME Cardinality(Key) <= MaxTotalUsers,
                      NEW i \in DOMAIN left, left[i] # Blank
               PROVE  table'[KeyOf[left[i].name]] # NULL \/ Doomed(left[i].name, pc', req')
  BY DEF NoResurrection, Exists, Doomed, At
<1>6. PICK j \in DOMAIN lines : lines[j] = left[i]
  BY <1>4
<1>7. lines[j].name \notin Extends[n]
  BY <1>4, <1>6
<1>8. table[KeyOf[lines[j].name]] # NULL \/ Doomed(lines[j].name, pc, req)
  BY <1>5, <1>6 DEF NoResurrection, Exists, Doomed, At
<1>9. Doomed(lines[j].name, pc, req) => Doomed(lines[j].name, pc', req')
  BY <1>2, <1>7 DEF Doomed
<1> QED BY <1>2, <1>6, <1>8, <1>9

\* Every step keeps a table entry behind each line of users.txt.
LEMMA NextComplete ==
  ASSUME NamesDiffer, IInv, NoResurrection, [Next]_vars
  PROVE  NoResurrection'
<1> DEFINE Same == /\ users_txt' = users_txt
                   /\ \A k \in Key : table[k] # NULL => table'[k] # NULL
           Keeps == \A t \in Session : At(t, "rewrite") =>
                      At(t, "rewrite")' /\ req'[t] = req[t]
<1>0. ASSUME NEW t \in Session, ~At(t, "rewrite"),
             \A u \in Session \ {t} : pc'[u] = pc[u] /\ req'[u] = req[u]
      PROVE  Keeps
  BY <1>0, DeletionsGoOn
<1>1. CASE UNCHANGED <<table, users_txt>> /\ Keeps
  BY <1>1, SameAccounts
<1>2. ASSUME NEW t \in Session, NEW n \in Name, NEW pw \in Password,
             Login(t, n, pw)
      PROVE  NoResurrection'
  <2>1. Same
    BY <1>2, ConstantsOK, NullIsNothing
    DEF Login, CanLogin, Exists, IInv, TypeOK, User
  <2>2. Keeps
    BY <1>2, <1>0 DEF Login, Hears, At, Goto, IInv, TypeOK
  <2> QED BY <2>1, <2>2, SameAccounts
<1>3. ASSUME NEW t \in Session, AdminSet(t)
      PROVE  NoResurrection'
  <2> DEFINE k == KeyOf[req[t].name]
             u == table[k]
  <2>1. k \in Key /\ req[t].admin_set_to \in {"ADMIN", "NOT_ADMIN"}
    BY ConstantsOK DEF IInv, TypeOK, Request
  <2>2. users_txt' = users_txt /\ Keeps
    <3>1. \A r \in Session \ {t} : pc'[r] = pc[r] /\ req'[r] = req[r]
      BY <1>3 DEF AdminSet, Reply, Goto, Forget, IInv, TypeOK
    <3> QED BY <1>3, <3>1, <1>0 DEF AdminSet, At
  <2>3. CASE CanAlter(req[t].name)
    <3>1. u \in User
      BY <2>1, <2>3 DEF CanAlter, Exists, IInv, TypeOK
    <3>2. [u EXCEPT !.admin_status = req[t].admin_set_to] \in User
      BY <2>1, <3>1 DEF User
    <3>3. table' = [table EXCEPT ![k].admin_status = req[t].admin_set_to]
      BY <1>3, <2>3 DEF AdminSet
    <3>4. \A l \in Key : table[l] # NULL => table'[l] # NULL
      BY <2>1, <3>2, <3>3, NullIsNothing DEF IInv, TypeOK
    <3> QED BY <2>2, <3>4, SameAccounts
  <2>4. CASE ~CanAlter(req[t].name)
    <3>1. table' = table
      BY <1>3, <2>4 DEF AdminSet
    <3> QED BY <2>2, <3>1, SameAccounts
  <2> QED BY <2>3, <2>4
<1>4. ASSUME NEW t \in Session, Logout(t) \/ QuitLoggedIn(t) \/ CleanLogout(t)
      PROVE  NoResurrection'
  <2>1. Owns(t)
    BY <1>4 DEF Logout, QuitLoggedIn, CleanLogout, Hears, At, Owns
  <2>2. p_user[t] \in Key /\ table[p_user[t]] \in User
    BY <2>1, OwnAccount
  <2>3. /\ table' = [table EXCEPT ![p_user[t]].login_status = "NOT_LOGGED_IN"]
        /\ users_txt' = users_txt
    BY <1>4 DEF Logout, QuitLoggedIn, CleanLogout, ReleaseUser
  <2>4. Same
    BY <2>2, <2>3, NullIsNothing DEF IInv, TypeOK, User
  <2>5. Keeps
    <3>1. /\ ~At(t, "rewrite") /\ req' = req
          /\ \A u \in Session \ {t} : pc'[u] = pc[u]
      BY <1>4 DEF Logout, QuitLoggedIn, CleanLogout, ReleaseUser, Hears, At,
         Goto, locals, IInv, TypeOK
    <3> QED BY <3>1, <1>0
  <2> QED BY <2>4, <2>5, SameAccounts
<1>5. CASE Restart \/ CrashRestart
  <2>1. users_txt \in File
    BY DEF IInv, TypeOK, File
  <2> QED BY <1>5, <2>1, StartsComplete DEF Restart, CrashRestart
<1>6. ASSUME NEW t \in Session, Receive(t)
      PROVE  NoResurrection'
  <2>1. CASE \E n \in Name, pw \in Password : Login(t, n, pw)
    BY <1>2, <2>1
  <2>2. CASE Logout(t) \/ QuitLoggedIn(t)
    BY <1>4, <2>2
  <2>3. CASE \/ \E n \in Name, pw \in Password :
                  \/ LoginReject(t, n, pw) \/ LoginAckLost(t, n, pw)
                  \/ RegisterReject(t, n, pw) \/ RegisterCheck(t, n, pw)
             \/ \E n \in Name :
                  \/ AlterReject(t, n) \/ RemoveCheck(t, n)
                  \/ \E set_to \in {"ADMIN", "NOT_ADMIN"} :
                       AdminCheck(t, n, set_to)
             \/ LogoutAckLost(t) \/ QuitConnected(t) \/ OtherRequest(t)
    <3>1. UNCHANGED <<table, users_txt>>
      BY <2>3 DEF LoginReject, LoginAckLost, RegisterReject, RegisterCheck,
         AlterReject, RemoveCheck, AdminCheck, LogoutAckLost, QuitConnected,
         OtherRequest, accounts
    <3>2. /\ ~At(t, "rewrite")
          /\ \A u \in Session \ {t} : pc'[u] = pc[u] /\ req'[u] = req[u]
      BY <2>3 DEF LoginReject, LoginAckLost, RegisterReject, RegisterCheck,
         AlterReject, RemoveCheck, AdminCheck, LogoutAckLost, QuitConnected,
         OtherRequest, Hears, At, Reply, Goto, locals, IInv, TypeOK
    <3>3. Keeps
      BY <3>2, <1>0
    <3> QED BY <1>1, <3>1, <3>3
  <2> QED BY <1>6, <2>1, <2>2, <2>3 DEF Receive
<1>7. ASSUME NEW t \in Session, Proceed(t)
      PROVE  NoResurrection'
  <2>1. CASE \/ ResetLoggedIn(t) \/ ReadTimeout(t)
             \/ CleanLeaveFails(t) \/ CleanClose(t)
    <3>1. UNCHANGED <<table, users_txt>>
      BY <2>1 DEF ResetLoggedIn, ReadTimeout, CleanLeaveFails, CleanClose,
         EndOfThread, accounts
    <3>2. /\ ~At(t, "rewrite") /\ req' = req
          /\ \A u \in Session \ {t} : pc'[u] = pc[u]
      BY <2>1 DEF ResetLoggedIn, ReadTimeout, CleanLeaveFails, CleanClose,
         EndOfThread, At, Goto, locals, IInv, TypeOK
    <3>3. Keeps
      BY <3>2, <1>0
    <3> QED BY <1>1, <3>1, <3>3
  <2> QED BY <1>3, <1>4, <1>7, <2>1, RegisterAddComplete, RemoveTableComplete,
          RemoveFileComplete DEF Proceed
<1>8. ASSUME \/ Interrupt \/ UNCHANGED vars
             \/ \E t \in Session : Accept(t) \/ Disconnect(t)
      PROVE  UNCHANGED <<table, users_txt>> /\ Keeps
  <2>1. CASE Interrupt \/ UNCHANGED vars
    BY <2>1 DEF Interrupt, vars, accounts, locals, At
  <2>2. ASSUME NEW t \in Session, Accept(t) \/ Disconnect(t)
        PROVE  UNCHANGED <<table, users_txt>> /\ Keeps
    <3>1. /\ ~At(t, "rewrite") /\ req' = req
          /\ \A u \in Session \ {t} : pc'[u] = pc[u]
      BY <2>2 DEF Accept, Disconnect, At, Goto, locals, IInv, TypeOK
    <3>2. Keeps
      BY <3>1, <1>0
    <3> QED BY <2>2, <3>2 DEF Accept, Disconnect, accounts
  <2> QED BY <1>8, <2>1, <2>2
<1> QED BY <1>1, <1>5, <1>6, <1>7, <1>8 DEF Next

\* No deleted account comes back with a restart, whatever double lines the
\* races between registrations and deletions leave in users.txt, unless the
\* process dies inside the deletion, between its two halves.
THEOREM DeletedStaysDeleted ==
  ASSUME NamesDiffer
  PROVE  Spec => []NoResurrection
<1>1. Init => NoResurrection
  <2>1. Init => users_txt \in File
    BY InitialFileOK DEF Init, File
  <2> QED BY <2>1, StartsComplete
<1>2. IInv /\ NoResurrection /\ [Next]_vars => NoResurrection'
  BY NextComplete
<1> QED BY <1>1, <1>2, Invariance, PTL DEF Spec
=============================================================================
