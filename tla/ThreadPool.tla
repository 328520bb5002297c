----------------------------- MODULE ThreadPool -----------------------------
(***************************************************************************)
(* The thread pool the session threads come from (t_pool_lib/t_pool.c and  *)
(* its queue, queue_lib/queue.c), driven as src/cr_listener.c drives it:   *)
(* the main thread submits one task for each connection and then destroys  *)
(* the pool.                                                               *)
(*                                                                         *)
(* queue_access_mutex guards the queue.  A worker reads shutdown under it, *)
(* but the main thread writes shutdown, and signals, without it, so the    *)
(* steps between these points are actions of their own.                    *)
(***************************************************************************)
EXTENDS Integers, Sequences, FiniteSets

CONSTANTS
  Worker,
  MaxTasks,    \* bound of the model on the connections accepted
  Handle,      \* how t_pool_destroy is called; the server says WAIT
  Spurious,    \* whether pthread_cond_wait may return without a signal
  NULL

ASSUME ConstantsOK ==
  /\ IsFiniteSet(Worker) /\ Worker # {}
  /\ MaxTasks \in Nat
  /\ Handle \in {"WAIT", "IMMEDIATE"} /\ Spurious \in BOOLEAN
  /\ "main" \notin Worker /\ NULL \notin Worker \cup {"main"}

VARIABLES
  p_task_queue,        \* the tasks, numbered as submitted, oldest first
  queue_access_mutex,  \* who holds it, or NULL
  queue_wait_cond,     \* the workers asleep on it
  shutdown,            \* read by the workers
  wpc,                 \* where each worker is
  p_temp_task,         \* the task a worker runs, or 0
  main,                \* where the main thread is
  submitted,           \* how many tasks were submitted
  started, finished    \* the tasks that were begun, in order, and those done

pool == <<p_task_queue, queue_wait_cond, shutdown>>
work == <<p_temp_task, started, finished>>
vars == <<pool, queue_access_mutex, wpc, main, submitted, work>>

Task == 1..MaxTasks
WPC == {"top",      \* wants the mutex: at the head of the loop, or woken
        "check",    \* holds it, looks at the queue and at shutdown
        "wait",     \* holds it, has decided to wait
        "asleep",   \* in pthread_cond_wait
        "run",
        "exit"}
MPC == {"listen",     \* between two connections
        "signal",     \* task enqueued, signal ahead
        "drain",      \* in t_pool_destroy_wait, wants the mutex
        "asleep",     \* waits on shutdown_cond
        "set",        \* queue seen empty, shutdown ahead
        "broadcast",
        "join",
        "done"}

Free == queue_access_mutex = NULL
At(w, where) == wpc[w] = where
Goto(w, where) == wpc' = [wpc EXCEPT ![w] = where]

\* Faulty: the woken stay registered.
WakeRegistered(ws) ==
  /\ wpc' = [w \in Worker |-> IF w \in ws THEN "top" ELSE wpc[w]]
  /\ UNCHANGED queue_wait_cond

Wake(ws) ==
  /\ queue_wait_cond' = queue_wait_cond \ ws
  /\ wpc' = [w \in Worker |-> IF w \in ws THEN "top" ELSE wpc[w]]
---------------------------------------------------------------------------
(* t_pool_worker *)

Lock(w) ==
  /\ At(w, "top") /\ Free
  /\ queue_access_mutex' = w
  /\ Goto(w, "check")
  /\ UNCHANGED <<pool, main, submitted, work>>

\* The condition of the inner loop, and the signal for a draining destroy.
DecideToWait(w) ==
  /\ At(w, "check")
  /\ p_task_queue = << >> /\ shutdown = "CONTINUE"
  /\ Goto(w, "wait")
  /\ main' = IF main = "asleep" THEN "drain" ELSE main
  /\ UNCHANGED <<pool, queue_access_mutex, submitted, work>>

Sleep(w) ==
  /\ At(w, "wait")
  /\ queue_wait_cond' = queue_wait_cond \cup {w}
  /\ queue_access_mutex' = NULL
  /\ Goto(w, "asleep")
  /\ UNCHANGED <<p_task_queue, shutdown, main, submitted, work>>

WakeSpuriously(w) ==
  /\ Spurious /\ At(w, "asleep")
  /\ Wake({w})
  /\ UNCHANGED <<p_task_queue, queue_access_mutex, shutdown, main, submitted, work>>

Leave(w) ==
  /\ At(w, "check") /\ shutdown = "SHUTDOWN"
  /\ queue_access_mutex' = NULL
  /\ Goto(w, "exit")
  /\ UNCHANGED <<pool, main, submitted, work>>

\* Faulty: the task at the head of the list; the task stays in the list.
Newest == p_task_queue[Len(p_task_queue)]
AllOfThem == p_task_queue

\* queue_dequeue: the task at the tail of the list, which is the oldest.
Oldest == Head(p_task_queue)
Younger == Tail(p_task_queue)

Take(w) ==
  /\ At(w, "check")
  /\ p_task_queue # << >> /\ shutdown = "CONTINUE"
  /\ p_temp_task' = [p_temp_task EXCEPT ![w] = Oldest]
  /\ started' = Append(started, Oldest)
  /\ p_task_queue' = Younger
  /\ queue_access_mutex' = NULL
  /\ Goto(w, "run")
  /\ UNCHANGED <<queue_wait_cond, shutdown, main, submitted, finished>>

\* The task returns, and the condition of the outer loop is read.
Finish(w) ==
  /\ At(w, "run")
  /\ finished' = finished \cup {p_temp_task[w]}
  /\ p_temp_task' = [p_temp_task EXCEPT ![w] = 0]
  /\ Goto(w, IF shutdown = "CONTINUE" THEN "top" ELSE "exit")
  /\ UNCHANGED <<pool, queue_access_mutex, main, submitted, started>>
---------------------------------------------------------------------------
(* The main thread: t_pool_submit_task and t_pool_destroy *)

\* queue_enqueue under the mutex.
Submit ==
  /\ main = "listen" /\ submitted < MaxTasks
  /\ Free
  /\ submitted' = submitted + 1
  /\ p_task_queue' = Append(p_task_queue, submitted + 1)
  /\ main' = "signal"
  /\ UNCHANGED <<queue_access_mutex, queue_wait_cond, shutdown, wpc, work>>

\* Faulty: the signal is left out.
SignalNobody ==
  /\ main = "signal"
  /\ main' = "listen"
  /\ UNCHANGED <<pool, queue_access_mutex, wpc, submitted, work>>

\* pthread_cond_signal wakes one of the sleeping workers, if there is any.
Signal ==
  /\ main = "signal"
  /\ \/ queue_wait_cond = {} /\ UNCHANGED <<queue_wait_cond, wpc>>
     \/ \E w \in queue_wait_cond : Wake({w})
  /\ main' = "listen"
  /\ UNCHANGED <<p_task_queue, queue_access_mutex, shutdown, submitted, work>>

\* t_pool_destroy begins: WAIT drains the queue first, IMMEDIATE does not, and
\* does not broadcast either.
Destroy ==
  /\ main = "listen"
  /\ main' = IF Handle = "WAIT" THEN "drain" ELSE "join"
  /\ shutdown' = IF Handle = "WAIT" THEN shutdown ELSE "SHUTDOWN"
  /\ UNCHANGED <<p_task_queue, queue_access_mutex, queue_wait_cond, wpc,
                 submitted, work>>

\* Faulty: the size of the queue is not looked at again.
DrainOnce ==
  /\ main = "drain" /\ Free
  /\ main' = "set"
  /\ UNCHANGED <<pool, queue_access_mutex, wpc, submitted, work>>

Drain ==
  /\ main = "drain" /\ Free
  /\ main' = IF p_task_queue = << >> THEN "set" ELSE "asleep"
  /\ UNCHANGED <<pool, queue_access_mutex, wpc, submitted, work>>

DrainSpuriously ==
  /\ Spurious /\ main = "asleep"
  /\ main' = "drain"
  /\ UNCHANGED <<pool, queue_access_mutex, wpc, submitted, work>>

\* The mutex is given back before shutdown is set.
SetShutdown ==
  /\ main = "set"
  /\ shutdown' = "SHUTDOWN"
  /\ main' = "broadcast"
  /\ UNCHANGED <<p_task_queue, queue_access_mutex, queue_wait_cond, wpc,
                 submitted, work>>

Broadcast ==
  /\ main = "broadcast"
  /\ Wake(queue_wait_cond)
  /\ main' = "join"
  /\ UNCHANGED <<p_task_queue, queue_access_mutex, shutdown, submitted, work>>

\* All threads joined; the mutexes, the queue and the pool are freed.
Join ==
  /\ main = "join"
  /\ \A w \in Worker : At(w, "exit")
  /\ main' = "done"
  /\ UNCHANGED <<pool, queue_access_mutex, wpc, submitted, work>>
---------------------------------------------------------------------------
Init ==
  /\ p_task_queue = << >>
  /\ queue_access_mutex = NULL
  /\ queue_wait_cond = {}
  /\ shutdown = "CONTINUE"
  /\ wpc = [w \in Worker |-> "top"]
  /\ p_temp_task = [w \in Worker |-> 0]
  /\ main = "listen"
  /\ submitted = 0
  /\ started = << >> /\ finished = {}

WorkerStep(w) ==
  \/ Lock(w) \/ DecideToWait(w) \/ Sleep(w) \/ Leave(w) \/ Take(w) \/ Finish(w)

MainStep ==
  Submit \/ Signal \/ Destroy \/ Drain \/ SetShutdown \/ Broadcast \/ Join

Next ==
  \/ \E w \in Worker : WorkerStep(w) \/ WakeSpuriously(w)
  \/ MainStep \/ DrainSpuriously

\* Threads run, tasks return, and who wants the mutex gets it when it is free
\* again and again: SF, as the mutex is handed to whoever asks.  Nothing makes
\* the main thread submit or destroy; once in either, it goes on.
Fairness ==
  /\ \A w \in Worker : SF_vars(WorkerStep(w))
  /\ SF_vars(main # "listen" /\ MainStep)

Spec == Init /\ [][Next]_vars
FairSpec == Spec /\ Fairness
---------------------------------------------------------------------------
(* Properties *)

Numbers(n) == [i \in 1..n |-> i]

TypeOK ==
  /\ p_task_queue \in Seq(Task) /\ started \in Seq(Task)
  /\ queue_access_mutex \in Worker \cup {NULL}
  /\ queue_wait_cond = {w \in Worker : At(w, "asleep")}
  /\ shutdown \in {"CONTINUE", "SHUTDOWN"}
  /\ wpc \in [Worker -> WPC]
  /\ p_temp_task \in [Worker -> 0..MaxTasks]
  /\ main \in MPC
  /\ submitted \in 0..MaxTasks
  /\ finished \subseteq Task

\* Tasks are begun in the order they were submitted, each once, and none is
\* lost: what was begun and what is queued is what was submitted.
InOrder == started \o p_task_queue = Numbers(submitted)

\* A begun task is done or is run by exactly one worker.
OneWorkerEach ==
  \A i \in DOMAIN started :
    LET runners == {w \in Worker : p_temp_task[w] = started[i]}
    IN  Cardinality(runners) = IF started[i] \in finished THEN 0 ELSE 1

\* A pool that is destroyed with WAIT has run every task, so that no accepted
\* connection is left open and unserved.
AllRun ==
  Handle = "WAIT" =>
    /\ shutdown = "SHUTDOWN" => p_task_queue = << >>
    /\ main = "done" => finished = 1..submitted

\* Every submitted task is run in the end: no signal of submit is lost, nor
\* taken by a worker that finds nothing while another sleeps on.
TasksRun == \A n \in Task : submitted >= n ~> n \in finished

---------------------------------------------------------------------------
(* What the repository says and the program does not do *)

\* t_pool_destroy: "Closes task queue, joins all threads, and destroys thread
\* pool context."
JoinsAllThreads == main = "join" ~> main = "done"
=============================================================================
