----------------------------- MODULE PoolProofs -----------------------------
(***************************************************************************)
(* Theorems about ThreadPool, for any number of workers and tasks.         *)
(***************************************************************************)
EXTENDS ThreadPool, FiniteSetTheorems, TLAPS

\* What was begun and what is queued, by number.
Sequenced ==
  /\ Len(started) + Len(p_task_queue) = submitted
  /\ \A i \in 1..Len(started) : started[i] = i
  /\ \A i \in 1..Len(p_task_queue) : p_task_queue[i] = Len(started) + i

\* A begun task is finished, or it is the task of a worker, and then of one.
Running ==
  /\ finished \subseteq 1..Len(started)
  /\ \A w \in Worker : At(w, "run") <=> p_temp_task[w] # 0
  /\ \A w \in Worker :
       p_temp_task[w] # 0 => p_temp_task[w] \in (1..Len(started)) \ finished
  /\ \A v, w \in Worker :
       p_temp_task[v] # 0 /\ p_temp_task[v] = p_temp_task[w] => v = w
  /\ \A n \in (1..Len(started)) \ finished :
       \E w \in Worker : p_temp_task[w] = n

\* With WAIT, shutdown is set after the queue was seen empty, and nothing is
\* submitted any more.
Closing ==
  /\ Handle = "WAIT" =>
       /\ shutdown = "SHUTDOWN" <=> main \in {"broadcast", "join", "done"}
       /\ main \in {"set", "broadcast", "join", "done"} => p_task_queue = << >>
  /\ main = "done" => \A w \in Worker : At(w, "exit")

PInv == TypeOK /\ Sequenced /\ Running /\ Closing
---------------------------------------------------------------------------
\* The state of a new pool.
LEMMA InitPInv == Init => PInv
<1> SUFFICES ASSUME Init PROVE PInv
  OBVIOUS
<1>1. TypeOK
  BY ConstantsOK DEF Init, TypeOK, WPC, MPC, At, Task
<1>2. Sequenced
  BY DEF Init, Sequenced
<1>3. Running
  BY DEF Init, Running, At
<1>4. Closing
  BY DEF Init, Closing
<1> QED BY <1>1, <1>2, <1>3, <1>4 DEF PInv

\* A step of a worker, or one that wakes workers, that begins and ends no
\* task: only those woken and those about to sleep change their registration.
LEMMA QuietStep ==
  ASSUME PInv,
         UNCHANGED <<p_task_queue, submitted, work>>,
         \A w \in Worker : At(w, "run") <=> wpc'[w] = "run",
         TypeOK', Closing'
  PROVE  PInv'
<1>1. Sequenced'
  BY DEF PInv, Sequenced, work
<1>2. Running'
  BY DEF PInv, Running, At, work
<1> QED BY <1>1, <1>2 DEF PInv

\* Waking workers.
LEMMA WakeTypes ==
  ASSUME PInv, NEW ws \in SUBSET queue_wait_cond, Wake(ws)
  PROVE  /\ wpc' \in [Worker -> WPC]
         /\ queue_wait_cond' = {w \in Worker : wpc'[w] = "asleep"}
         /\ \A w \in Worker : At(w, "run") <=> wpc'[w] = "run"
         /\ \A w \in Worker : At(w, "exit") => wpc'[w] = "exit"
BY DEF PInv, TypeOK, Wake, At, WPC

\* The steps of a worker that has no task.
LEMMA WorkerQuiet ==
  ASSUME PInv, NEW w \in Worker,
         Lock(w) \/ DecideToWait(w) \/ Sleep(w) \/ Leave(w)
  PROVE  PInv'
<1>1. TypeOK'
  <2>1. CASE Lock(w)
    BY <2>1 DEF PInv, TypeOK, Lock, Goto, At, WPC, pool, work
  <2>2. CASE DecideToWait(w)
    BY <2>2 DEF PInv, TypeOK, DecideToWait, Goto, At, WPC, MPC, pool, work
  <2>3. CASE Sleep(w)
    BY <2>3 DEF PInv, TypeOK, Sleep, Goto, At, WPC, work
  <2>4. CASE Leave(w)
    BY <2>4 DEF PInv, TypeOK, Leave, Goto, At, WPC, pool, work
  <2> QED BY <2>1, <2>2, <2>3, <2>4
<1>2. Closing'
  BY DEF PInv, TypeOK, Closing, Lock, DecideToWait, Sleep, Leave, Goto, At,
     pool, work
<1>3. \A v \in Worker : At(v, "run") <=> wpc'[v] = "run"
  BY DEF PInv, TypeOK, Lock, DecideToWait, Sleep, Leave, Goto, At
<1>4. UNCHANGED <<p_task_queue, submitted, work>>
  BY DEF Lock, DecideToWait, Sleep, Leave, pool
<1> QED BY <1>1, <1>2, <1>3, <1>4, QuietStep

\* The steps that wake workers.
LEMMA WakingStep ==
  ASSUME PInv, Signal \/ Broadcast \/ \E w \in Worker : WakeSpuriously(w)
  PROVE  PInv'
<1>1. PICK ws \in SUBSET queue_wait_cond :
        \/ Wake(ws)
        \/ ws = {} /\ UNCHANGED <<queue_wait_cond, wpc>>
  BY DEF Signal, Broadcast, WakeSpuriously, PInv, TypeOK
<1>2. /\ wpc' \in [Worker -> WPC]
      /\ queue_wait_cond' = {w \in Worker : wpc'[w] = "asleep"}
      /\ \A w \in Worker : At(w, "run") <=> wpc'[w] = "run"
      /\ \A w \in Worker : At(w, "exit") => wpc'[w] = "exit"
  BY <1>1, WakeTypes DEF PInv, TypeOK, At
<1>3. /\ UNCHANGED <<p_task_queue, queue_access_mutex, shutdown, submitted, work>>
      /\ \/ main' = main
         \/ main = "signal" /\ main' = "listen"
         \/ main = "broadcast" /\ main' = "join"
  BY DEF Signal, Broadcast, WakeSpuriously
<1>4. TypeOK'
  BY <1>2, <1>3 DEF PInv, TypeOK, work, At, MPC
<1>5. Closing'
  BY <1>2, <1>3 DEF PInv, Closing, At
<1> QED BY <1>2, <1>3, <1>4, <1>5, QuietStep

\* The steps of the main thread that leave workers and queue alone.
LEMMA MainQuiet ==
  ASSUME PInv, Destroy \/ Drain \/ DrainSpuriously \/ SetShutdown \/ Join
  PROVE  PInv'
<1>1. TypeOK'
  BY DEF PInv, TypeOK, Destroy, Drain, DrainSpuriously, SetShutdown, Join, pool,
     work, At, MPC
<1>2. Closing'
  BY DEF PInv, TypeOK, Closing, Destroy, Drain, DrainSpuriously, SetShutdown,
     Join, pool, At
<1>3. UNCHANGED <<p_task_queue, submitted, work, wpc>>
  BY DEF Destroy, Drain, DrainSpuriously, SetShutdown, Join, pool
<1>4. \A w \in Worker : At(w, "run") <=> wpc'[w] = "run"
  BY <1>3 DEF At
<1> QED BY <1>1, <1>2, <1>3, <1>4, QuietStep

\* t_pool_submit_task: the next number goes to the end of the queue.
LEMMA SubmitStep ==
  ASSUME PInv, Submit
  PROVE  PInv'
<1>1. submitted \in Nat /\ submitted + 1 \in Task /\ submitted' = submitted + 1
  BY ConstantsOK DEF PInv, TypeOK, Submit, Task
<1>2. /\ p_task_queue \in Seq(Task) /\ started \in Seq(Task)
      /\ p_task_queue' = Append(p_task_queue, submitted + 1)
      /\ Len(p_task_queue') = Len(p_task_queue) + 1
      /\ p_task_queue'[Len(p_task_queue) + 1] = submitted + 1
      /\ \A i \in 1..Len(p_task_queue) : p_task_queue'[i] = p_task_queue[i]
  BY <1>1 DEF PInv, TypeOK, Submit
<1>3. UNCHANGED <<queue_access_mutex, queue_wait_cond, shutdown, wpc, work>>
      /\ main = "listen" /\ main' = "signal"
  BY DEF Submit
<1>4. TypeOK'
  <2>1. p_task_queue' \in Seq(Task)
    BY <1>1, <1>2
  <2>2. submitted' \in 0..MaxTasks
    BY <1>1 DEF Task
  <2> QED BY <1>3, <2>1, <2>2 DEF PInv, TypeOK, work, At, MPC
<1>5. Sequenced'
  <2>1. started' = started /\ Len(started) \in Nat /\ Len(p_task_queue) \in Nat
    BY <1>2, <1>3 DEF work
  <2> QED BY <1>1, <1>2, <2>1 DEF PInv, Sequenced
<1>6. Running'
  BY <1>3 DEF PInv, Running, At, work
<1>7. Closing'
  BY <1>3 DEF PInv, Closing, At
<1> QED BY <1>4, <1>5, <1>6, <1>7 DEF PInv

\* queue_dequeue: the task is the first not begun, so it is nobody's yet.
LEMMA TakeStep ==
  ASSUME PInv, NEW w \in Worker, Take(w)
  PROVE  PInv'
<1> DEFINE n == Len(started) + 1
<1>1. /\ p_task_queue \in Seq(Task) /\ p_task_queue # << >>
      /\ started \in Seq(Task) /\ Len(started) \in Nat
      /\ Len(p_task_queue) \in Nat /\ Len(p_task_queue) > 0
  BY DEF PInv, TypeOK, Take
<1>2. Oldest = n /\ Oldest \in Task
  BY <1>1 DEF PInv, Sequenced, Oldest
<1>3. /\ p_task_queue' \in Seq(Task)
      /\ Len(p_task_queue') = Len(p_task_queue) - 1
      /\ \A i \in 1..Len(p_task_queue') : p_task_queue'[i] = p_task_queue[i + 1]
  BY <1>1 DEF Take, Younger
<1>4. /\ started' \in Seq(Task) /\ Len(started') = n
      /\ started'[n] = n
      /\ \A i \in 1..Len(started) : started'[i] = started[i]
  BY <1>1, <1>2 DEF Take
<1>5. /\ p_temp_task \in [Worker -> 0..MaxTasks] /\ wpc \in [Worker -> WPC]
      /\ p_temp_task' = [p_temp_task EXCEPT ![w] = n]
      /\ wpc' = [wpc EXCEPT ![w] = "run"] /\ wpc[w] = "check"
      /\ UNCHANGED <<queue_wait_cond, shutdown, main, submitted, finished>>
      /\ queue_access_mutex' = NULL /\ shutdown = "CONTINUE"
  BY <1>2 DEF PInv, TypeOK, Take, Goto, At
<1>6. TypeOK'
  <2>1. n \in 0..MaxTasks
    BY <1>2, ConstantsOK DEF Task
  <2>2. wpc' \in [Worker -> WPC] /\ p_temp_task' \in [Worker -> 0..MaxTasks]
    BY <1>5, <2>1 DEF WPC
  <2>3. queue_wait_cond' = {v \in Worker : wpc'[v] = "asleep"}
    BY <1>5 DEF PInv, TypeOK, At
  <2> QED BY <1>3, <1>4, <1>5, <2>2, <2>3 DEF PInv, TypeOK, At
<1>7. Sequenced'
  <2>1. Len(started') + Len(p_task_queue') = submitted'
    BY <1>1, <1>3, <1>4, <1>5 DEF PInv, Sequenced
  <2>2. \A i \in 1..Len(started') : started'[i] = i
    BY <1>1, <1>4 DEF PInv, Sequenced
  <2>3. \A i \in 1..Len(p_task_queue') : p_task_queue'[i] = Len(started') + i
    <3> SUFFICES ASSUME NEW i \in 1..Len(p_task_queue')
                 PROVE  p_task_queue'[i] = Len(started') + i
      OBVIOUS
    <3>1. i \in Nat /\ i + 1 \in 1..Len(p_task_queue)
      BY <1>1, <1>3
    <3>2. p_task_queue[i + 1] = Len(started) + (i + 1)
      BY <3>1 DEF PInv, Sequenced
    <3> QED BY <1>1, <1>3, <1>4, <3>1, <3>2
  <2> QED BY <2>1, <2>2, <2>3 DEF Sequenced
<1>8. Running'
  <2>1. finished \subseteq 1..Len(started) /\ n \notin finished
    BY <1>1 DEF PInv, Running
  <2>2. p_temp_task[w] = 0
    BY <1>5 DEF PInv, Running, At
  <2>3. \A v \in Worker \ {w} : p_temp_task'[v] = p_temp_task[v] /\ wpc'[v] = wpc[v]
    BY <1>5
  <2>4. \A v \in Worker : p_temp_task[v] # n
    BY <1>1 DEF PInv, Running
  <2>5. p_temp_task'[w] = n /\ n # 0 /\ wpc'[w] = "run"
    BY <1>1, <1>5
  <2>6. 1..Len(started') = 1..Len(started) \cup {n}
    BY <1>1, <1>4
  <2>7. \A v \in Worker : wpc'[v] = "run" <=> p_temp_task'[v] # 0
    BY <2>3, <2>5 DEF PInv, Running, At
  <2>8. \A v \in Worker : p_temp_task'[v] # 0 =>
          p_temp_task'[v] \in (1..Len(started')) \ finished'
    BY <1>5, <2>1, <2>3, <2>5, <2>6 DEF PInv, Running
  <2>9. \A u, v \in Worker :
          p_temp_task'[u] # 0 /\ p_temp_task'[u] = p_temp_task'[v] => u = v
    BY <2>3, <2>4, <2>5 DEF PInv, Running
  <2>10. \A m \in (1..Len(started')) \ finished' :
           \E v \in Worker : p_temp_task'[v] = m
    <3> SUFFICES ASSUME NEW m \in (1..Len(started')) \ finished'
                 PROVE  \E v \in Worker : p_temp_task'[v] = m
      OBVIOUS
    <3>1. CASE m = n
      BY <2>5, <3>1
    <3>2. CASE m # n
      <4>1. m \in (1..Len(started)) \ finished
        BY <1>5, <2>6, <3>2
      <4>2. PICK v \in Worker : p_temp_task[v] = m
        BY <4>1 DEF PInv, Running
      <4>3. v # w
        BY <2>2, <4>1, <4>2
      <4> QED BY <2>3, <4>2, <4>3
    <3> QED BY <3>1, <3>2
  <2>11. finished' \subseteq 1..Len(started')
    BY <1>5, <2>1, <2>6
  <2> QED BY <2>7, <2>8, <2>9, <2>10, <2>11 DEF Running, At
<1>9. Closing'
  BY <1>1, <1>5 DEF PInv, Closing, At
<1> QED BY <1>6, <1>7, <1>8, <1>9 DEF PInv

\* A worker returns from its task.
LEMMA FinishStep ==
  ASSUME PInv, NEW w \in Worker, Finish(w)
  PROVE  PInv'
<1> DEFINE n == p_temp_task[w]
<1>1. /\ p_temp_task \in [Worker -> 0..MaxTasks] /\ wpc \in [Worker -> WPC]
      /\ wpc[w] = "run" /\ n # 0 /\ n \in 1..Len(started) /\ n \notin finished
  BY DEF PInv, TypeOK, Running, Finish, At
<1>2. PICK where \in {"top", "exit"} : wpc' = [wpc EXCEPT ![w] = where]
  BY DEF Finish, Goto
<1>3. /\ finished' = finished \cup {n}
      /\ p_temp_task' = [p_temp_task EXCEPT ![w] = 0]
      /\ UNCHANGED <<pool, queue_access_mutex, main, submitted, started>>
  BY DEF Finish
<1>4. TypeOK'
  <2>1. wpc' \in [Worker -> WPC] /\ p_temp_task' \in [Worker -> 0..MaxTasks]
    BY <1>1, <1>2, <1>3, ConstantsOK DEF WPC
  <2>2. queue_wait_cond' = {v \in Worker : wpc'[v] = "asleep"}
    BY <1>1, <1>2, <1>3 DEF PInv, TypeOK, At, pool
  <2>3. finished' \subseteq Task
    <3>1. n \in Task
      BY <1>1, ConstantsOK DEF Task
    <3> QED BY <1>3, <3>1 DEF PInv, TypeOK
  <2> QED BY <1>3, <2>1, <2>2, <2>3 DEF PInv, TypeOK, At, pool
<1>5. Sequenced'
  BY <1>3 DEF PInv, Sequenced, pool
<1>6. Running'
  <2>1. \A v \in Worker \ {w} : p_temp_task'[v] = p_temp_task[v] /\ wpc'[v] = wpc[v]
    BY <1>1, <1>2, <1>3
  <2>2. p_temp_task'[w] = 0 /\ wpc'[w] # "run"
    BY <1>1, <1>2, <1>3
  <2>3. \A v \in Worker \ {w} : p_temp_task[v] # n
    BY <1>1 DEF PInv, Running
  <2>4. /\ finished' \subseteq 1..Len(started')
        /\ \A v \in Worker : wpc'[v] = "run" <=> p_temp_task'[v] # 0
    BY <1>1, <1>3, <2>1, <2>2 DEF PInv, Running, At
  <2>5. \A v \in Worker : p_temp_task'[v] # 0 =>
          p_temp_task'[v] \in (1..Len(started')) \ finished'
    BY <1>3, <2>1, <2>2, <2>3 DEF PInv, Running
  <2>6. \A u, v \in Worker :
          p_temp_task'[u] # 0 /\ p_temp_task'[u] = p_temp_task'[v] => u = v
    BY <2>1, <2>2 DEF PInv, Running
  <2>7. \A m \in (1..Len(started')) \ finished' :
          \E v \in Worker : p_temp_task'[v] = m
    <3> SUFFICES ASSUME NEW m \in (1..Len(started')) \ finished'
                 PROVE  \E v \in Worker : p_temp_task'[v] = m
      OBVIOUS
    <3>1. m \in (1..Len(started)) \ finished /\ m # n
      BY <1>3
    <3>2. PICK v \in Worker : p_temp_task[v] = m
      BY <3>1 DEF PInv, Running
    <3> QED BY <2>1, <3>1, <3>2
  <2> QED BY <2>4, <2>5, <2>6, <2>7 DEF Running, At
<1>7. Closing'
  <2>1. main' = main /\ shutdown' = shutdown /\ p_task_queue' = p_task_queue
    BY <1>3 DEF pool
  <2>2. main # "done"
    BY <1>1 DEF PInv, Closing, At
  <2> QED BY <2>1, <2>2 DEF PInv, Closing
<1> QED BY <1>4, <1>5, <1>6, <1>7 DEF PInv

\* Every step keeps the invariant.
LEMMA NextPInv == PInv /\ [Next]_vars => PInv'
<1> SUFFICES ASSUME PInv, [Next]_vars PROVE PInv'
  OBVIOUS
<1>1. CASE UNCHANGED vars
  BY <1>1 DEF vars, pool, work, PInv, TypeOK, Sequenced, Running, Closing, At
<1>2. ASSUME NEW w \in Worker, WorkerStep(w) PROVE PInv'
  BY <1>2, WorkerQuiet, TakeStep, FinishStep DEF WorkerStep
<1>3. ASSUME NEW w \in Worker, WakeSpuriously(w) PROVE PInv'
  BY <1>3, WakingStep
<1>4. CASE MainStep
  BY <1>4, SubmitStep, WakingStep, MainQuiet DEF MainStep
<1>5. CASE DrainSpuriously
  BY <1>5, MainQuiet
<1> QED BY <1>1, <1>2, <1>3, <1>4, <1>5 DEF Next
---------------------------------------------------------------------------
\* The invariant holds in every reachable state.
THEOREM PoolInvariance == Spec => []PInv
BY InitPInv, NextPInv, PTL DEF Spec

\* The variables keep their types, and those asleep are those registered with
\* queue_wait_cond.
THEOREM PoolTypes == Spec => []TypeOK
<1>1. PInv => TypeOK
  BY DEF PInv
<1> QED BY <1>1, PoolInvariance, PTL

\* Tasks are begun in the order of submission, each once, none lost.
THEOREM PoolInOrder == Spec => []InOrder
<1>1. PInv => InOrder
  <2> SUFFICES ASSUME PInv PROVE InOrder
    OBVIOUS
  <2> DEFINE all == started \o p_task_queue
  <2>1. /\ started \in Seq(Task) /\ p_task_queue \in Seq(Task)
        /\ Len(started) \in Nat /\ Len(p_task_queue) \in Nat
    BY DEF PInv, TypeOK
  <2>2. /\ all \in Seq(Task) /\ Len(all) = submitted
        /\ \A i \in 1..Len(started) : all[i] = started[i]
        /\ \A i \in 1..Len(p_task_queue) : all[Len(started) + i] = p_task_queue[i]
    BY <2>1 DEF PInv, Sequenced
  <2>3. \A i \in 1..submitted : all[i] = i
    <3> SUFFICES ASSUME NEW i \in 1..submitted PROVE all[i] = i
      OBVIOUS
    <3>1. CASE i \in 1..Len(started)
      BY <2>2, <3>1 DEF PInv, Sequenced
    <3>2. CASE i \notin 1..Len(started)
      <4>1. submitted \in Nat /\ Len(started) + Len(p_task_queue) = submitted
        BY DEF PInv, TypeOK, Sequenced
      <4>2. PICK j \in 1..Len(p_task_queue) : i = Len(started) + j
        <5>1. i - Len(started) \in 1..Len(p_task_queue)
          BY <2>1, <3>2, <4>1
        <5>2. i = Len(started) + (i - Len(started))
          BY <2>1
        <5> QED BY <5>1, <5>2
      <4> QED BY <2>2, <4>2 DEF PInv, Sequenced
    <3> QED BY <3>1, <3>2
  <2>4. all = [i \in 1..submitted |-> i]
    <3>1. all \in Seq(Task) /\ Len(all) = submitted
      BY <2>2
    <3> HIDE DEF all
    <3>2. all = [i \in 1..Len(all) |-> all[i]]
      BY <3>1
    <3> QED BY <2>3, <3>1, <3>2
  <2> QED BY <2>4 DEF InOrder, Numbers
<1> QED BY <1>1, PoolInvariance, PTL

\* A begun task is done or is run by exactly one worker.
THEOREM PoolOneWorkerEach == Spec => []OneWorkerEach
<1>1. PInv => OneWorkerEach
  <2> SUFFICES ASSUME PInv, NEW i \in DOMAIN started
               PROVE  Cardinality({w \in Worker : p_temp_task[w] = started[i]})
                        = IF started[i] \in finished THEN 0 ELSE 1
    BY DEF OneWorkerEach
  <2>1. i \in 1..Len(started) /\ started[i] = i /\ i # 0
    BY DEF PInv, TypeOK, Sequenced
  <2>2. CASE i \in finished
    <3>1. {w \in Worker : p_temp_task[w] = i} = {}
      BY <2>1, <2>2 DEF PInv, Running
    <3> QED BY <2>1, <2>2, <3>1, FS_EmptySet
  <2>3. CASE i \notin finished
    <3>1. PICK w \in Worker : p_temp_task[w] = i
      BY <2>1, <2>3 DEF PInv, Running
    <3>2. {v \in Worker : p_temp_task[v] = started[i]} = {w}
      BY <2>1, <3>1 DEF PInv, Running
    <3>3. Cardinality({w}) = 1
      BY FS_Singleton
    <3> QED BY <2>1, <2>3, <3>2, <3>3
  <2> QED BY <2>2, <2>3
<1> QED BY <1>1, PoolInvariance, PTL

\* A pool that is destroyed with WAIT has run every task.
THEOREM PoolAllRun == Spec => []AllRun
<1>1. PInv => AllRun
  <2> SUFFICES ASSUME PInv, Handle = "WAIT"
               PROVE  /\ shutdown = "SHUTDOWN" => p_task_queue = << >>
                      /\ main = "done" => finished = 1..submitted
    BY DEF AllRun
  <2>1. shutdown = "SHUTDOWN" => p_task_queue = << >>
    BY DEF PInv, Closing
  <2>2. ASSUME main = "done" PROVE finished = 1..submitted
    <3>1. p_task_queue = << >> /\ \A w \in Worker : p_temp_task[w] = 0
      BY <2>2 DEF PInv, Closing, Running, At
    <3>2. Len(started) = submitted
      BY <3>1 DEF PInv, TypeOK, Sequenced
    <3>3. \A n \in (1..Len(started)) \ finished : FALSE
      BY <3>1 DEF PInv, Running
    <3> QED BY <3>2, <3>3 DEF PInv, Running
  <2> QED BY <2>1, <2>2
<1> QED BY <1>1, PoolInvariance, PTL
=============================================================================
