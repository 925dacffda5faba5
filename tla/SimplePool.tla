----------------------------- MODULE SimplePool -----------------------------
(***************************************************************************)
(* thread_pool and thread_pool_with_result: a fixed number of workers and  *)
(* one queue they all take their tasks from.  The two differ in the tasks: *)
(* the first takes plain functions, and an exception that leaves one ends  *)
(* the program; the second wraps them in a packaged_task with a future,    *)
(* which a task may also wait for when it has submitted others.            *)
(*                                                                         *)
(* push and try_pop of work_queue are one step, because both queues        *)
(* implement FifoQueue.                                                    *)
(***************************************************************************)
EXTENDS Naturals, Sequences

CONSTANTS ThreadCount,  \* std::thread::hardware_concurrency()
          Owner,        \* the thread that constructs, uses and destroys the pool
          Task,         \* the tasks there are
          Roots,        \* those the owner submits
          Children,     \* Children[x]: those that x submits while it runs
          Awaiting,     \* the tasks that then wait for these, if they have futures
          Throwing,     \* the tasks that may throw
          CanThrow,     \* whether starting a thread may throw
          Null          \* no task

ASSUME CountAssumption == ThreadCount \in Nat
ASSUME TaskAssumption == Roots \subseteq Task /\ Children \in [Task -> SUBSET Task]
ASSUME KindAssumption == CanThrow \in BOOLEAN /\ Throwing \subseteq Task /\ Awaiting \subseteq Task
ASSUME NameAssumption == Null \notin Task /\ Owner \notin Nat

Worker == 0..ThreadCount - 1
Thread == Worker \cup {Owner}

VARIABLES
  withResult,  \* the pool is a thread_pool_with_result, not a thread_pool
  done,        \* the flag that stops the workers
  work_queue,  \* the tasks no worker has taken yet
  threads,     \* how many threads the vector threads holds
  pc,          \* pc[t]: what thread t does next
  task,        \* task[w]: the task worker w runs
  fut          \* fut[x]: the state of x and, withResult, of its future

vars == <<withResult, done, work_queue, threads, pc, task, fut>>

Init == /\ withResult \in BOOLEAN
        /\ done = FALSE /\ work_queue = <<>> /\ threads = 0
        /\ pc = [t \in Thread |-> IF t = Owner THEN "ctor" ELSE "none"]
        /\ task = [w \in Worker |-> Null]
        /\ fut = [x \in Task |-> "none"]

Goto(t, from, to) == pc[t] = from /\ pc' = [pc EXCEPT ![t] = to]
-----------------------------------------------------------------------------
(* The constructor *)

CreateThread == /\ pc[Owner] = "ctor" /\ threads < ThreadCount
                /\ threads' = threads + 1
                /\ pc' = [pc EXCEPT ![threads] = "loop"]
                /\ UNCHANGED <<withResult, done, work_queue, task, fut>>

CreateThreadFails == /\ CanThrow /\ threads < ThreadCount /\ Goto(Owner, "ctor", "catch")
                     /\ UNCHANGED <<withResult, done, work_queue, threads, task, fut>>

CtorDone == /\ threads = ThreadCount /\ Goto(Owner, "ctor", "open")
            /\ UNCHANGED <<withResult, done, work_queue, threads, task, fut>>
-----------------------------------------------------------------------------
(* The destructor, and the unwinding of a constructor that threw: joiner    *)
(* is the first member to be destroyed, work_queue follows.                 *)

\* done = true, at a moment the owner chooses or in the catch block.
Close == /\ Goto(Owner, "open", "join") \/ Goto(Owner, "catch", "join")
         /\ done' = TRUE
         /\ UNCHANGED <<withResult, work_queue, threads, task, fut>>

\* Seeded bug: the loop of ~join_threads() misses the last thread.
JoinAllButOne == /\ \A w \in Worker : w + 1 < threads => pc[w] = "exit"
                 /\ Goto(Owner, "join", "free_queue")
                 /\ UNCHANGED <<withResult, done, work_queue, threads, task, fut>>

Join == /\ \A w \in Worker : w < threads => pc[w] = "exit"
        /\ Goto(Owner, "join", "free_queue")
        /\ UNCHANGED <<withResult, done, work_queue, threads, task, fut>>

\* Seeded bug: the queue does not delete the tasks it still holds.
FreeQueueLeaks == /\ Goto(Owner, "free_queue", "gone")
                  /\ work_queue' = <<>>
                  /\ UNCHANGED <<withResult, done, threads, task, fut>>

\* The tasks still queued are dropped, which breaks the promises they hold.
FreeQueue == /\ Goto(Owner, "free_queue", "gone")
             /\ work_queue' = <<>>
             /\ fut' = [x \in Task |-> IF \E k \in 1..Len(work_queue) : work_queue[k] = x
                                       THEN "broken" ELSE fut[x]]
             /\ UNCHANGED <<withResult, done, threads, task>>
-----------------------------------------------------------------------------
(* worker_thread() *)

CheckDone(w) == /\ Goto(w, "loop", IF done THEN "exit" ELSE "pop")
                /\ UNCHANGED <<withResult, done, work_queue, threads, task, fut>>

\* Seeded bug: the task stays in the queue.
PopCopy(w) == /\ work_queue # <<>> /\ Goto(w, "pop", "run")
              /\ task' = [task EXCEPT ![w] = Head(work_queue)]
              /\ UNCHANGED <<withResult, done, work_queue, threads, fut>>

Pop(w) == /\ work_queue # <<>> /\ Goto(w, "pop", "run")
          /\ task' = [task EXCEPT ![w] = Head(work_queue)]
          /\ work_queue' = Tail(work_queue)
          /\ UNCHANGED <<withResult, done, threads, fut>>

\* Seeded bug: the loop ends when the queue is empty.
YieldExits(w) == /\ work_queue = <<>> /\ Goto(w, "pop", "exit")
                 /\ UNCHANGED <<withResult, done, work_queue, threads, task, fut>>

\* Seeded bug: the worker calls wait_and_pop().
YieldWaits(w) == /\ work_queue = <<>> /\ Goto(w, "pop", "pop")
                 /\ UNCHANGED <<withResult, done, work_queue, threads, task, fut>>

Yield(w) == /\ work_queue = <<>> /\ Goto(w, "pop", "loop")
            /\ UNCHANGED <<withResult, done, work_queue, threads, task, fut>>

\* A worker whose task waits for a future does not take another one meanwhile.
Blocked(w) == /\ withResult /\ task[w] \in Awaiting
              /\ \E x \in Children[task[w]] : fut[x] = "pending"

\* task() returns; a packaged_task sets its future even if the function throws.
Finish(w) == /\ Goto(w, "run", "loop")
             /\ \A x \in Children[task[w]] : fut[x] # "none"
             /\ ~Blocked(w)
             /\ fut' = [fut EXCEPT ![task[w]] = "ready"]
             /\ task' = [task EXCEPT ![w] = Null]
             /\ UNCHANGED <<withResult, done, work_queue, threads>>

\* An exception leaves worker_thread(): std::terminate().
Terminate(w) == /\ ~withResult /\ pc[w] = "run" /\ task[w] \in Throwing
                /\ pc' = [t \in Thread |-> "terminated"]
                /\ UNCHANGED <<withResult, done, work_queue, threads, task, fut>>
-----------------------------------------------------------------------------
(* submit(), by the owner or by a running task *)

Submits(t, x) == \/ t = Owner /\ pc[t] = "open" /\ x \in Roots
                 \/ t # Owner /\ pc[t] = "run" /\ x \in Children[task[t]]

Submit(t, x) == /\ Submits(t, x) /\ fut[x] = "none"
                /\ fut' = [fut EXCEPT ![x] = "pending"]
                /\ work_queue' = Append(work_queue, x)
                /\ UNCHANGED <<withResult, done, threads, pc, task>>
-----------------------------------------------------------------------------
OwnerStep == \/ CreateThread \/ CreateThreadFails \/ CtorDone
             \/ (pc[Owner] = "catch" /\ Close) \/ Join \/ FreeQueue

WorkerStep(w) == \/ CheckDone(w) \/ Pop(w) \/ Yield(w) \/ Finish(w) \/ Terminate(w)
                 \/ \E x \in Task : Submit(w, x)

Choose == (pc[Owner] = "open" /\ Close) \/ \E x \in Task : Submit(Owner, x)

Next == OwnerStep \/ Choose \/ \E w \in Worker : WorkerStep(w)

Spec == Init /\ [][Next]_vars

(* Every thread is scheduled again and again; the owner is not obliged to  *)
(* submit or to destroy the pool.                                          *)
FairSpec == Spec /\ WF_vars(OwnerStep) /\ \A w \in Worker : WF_vars(WorkerStep(w))
-----------------------------------------------------------------------------
(* Properties *)

PcLabel == {"ctor", "catch", "open", "join", "free_queue", "gone", "none", "loop",
            "pop", "run", "exit", "terminated"}

\* Types; no more threads are started than the machine has.
TypeOK ==
  /\ withResult \in BOOLEAN /\ done \in BOOLEAN /\ work_queue \in Seq(Task) /\ threads \in 0..ThreadCount
  /\ pc \in [Thread -> PcLabel]
  /\ task \in [Worker -> Task \cup {Null}]
  /\ fut \in [Task -> {"none", "pending", "ready", "broken"}]

\* The order of the members: no worker, however it was started and wherever the
\* constructor or destructor interrupted it, outlives the queue.
MembersAlive == pc[Owner] \in {"free_queue", "gone"} =>
                  \A w \in Worker : pc[w] \in {"none", "exit"}

\* When the pool is gone no future is pending: get() may throw broken_promise
\* but never blocks for ever on a task that was left in the queue.
FuturesSettled == pc[Owner] = "gone" => \A x \in Task : fut[x] # "pending"

\* The inductive invariant.  Who is where, unless the program was terminated.
PhaseInv ==
  /\ pc[Owner] \in {"ctor", "catch", "open", "join", "free_queue", "gone", "terminated"}
  /\ \A w \in Worker :
       /\ pc[w] \in {"none", "loop", "pop", "run", "exit", "terminated"}
       /\ pc[w] = "terminated" <=> pc[Owner] = "terminated"
       /\ pc[w] # "terminated" => (pc[w] = "none" <=> w >= threads) /\ (pc[w] = "run" <=> task[w] # Null)
  /\ pc[Owner] # "terminated" => (done <=> pc[Owner] \in {"join", "free_queue", "gone"})
  /\ MembersAlive

\* A pending task is in one place: at one position of the queue, or with one
\* worker.  No other task is anywhere.
Queued(x) == \E k \in 1..Len(work_queue) : work_queue[k] = x
Running(x) == \E w \in Worker : task[w] = x

PlaceInv ==
  /\ \A x \in Task : fut[x] = "pending" <=> Queued(x) \/ Running(x)
  /\ \A x \in Task : ~(Queued(x) /\ Running(x))
  /\ \A k, l \in 1..Len(work_queue) : work_queue[k] = work_queue[l] => k = l
  /\ \A v, w \in Worker : task[v] = task[w] /\ task[v] # Null => v = w

IInv == TypeOK /\ PhaseInv /\ PlaceInv /\ FuturesSettled

StatusOf == [none |-> "new", pending |-> "queued", ready |-> "done", broken |-> "dropped"]
Lost(x) == fut[x] = "pending" /\ ~Queued(x)
absStatus == [x \in Task |-> IF Running(x) THEN "running"
                             ELSE IF Lost(x) THEN "lost" ELSE StatusOf[fut[x]]]
absPhase == IF pc[Owner] \in {"free_queue", "gone"} THEN "closed"
            ELSE IF done THEN "closing" ELSE "open"

Pool == INSTANCE TaskPool WITH status <- absStatus, phase <- absPhase

\* The pool runs every task at most once, drops none while it is open and loses none: a
\* task that is pending is in the queue or running.
ImplementsTaskPool == Pool!Spec

Terminated == pc[Owner] = "terminated"

\* While the pool is open a submitted task does not wait for ever, even when
\* tasks block on others, as long as there are more workers than such tasks.
TasksRun == \A x \in Task :
              fut[x] = "pending" ~> fut[x] = "ready" \/ done \/ Terminated

\* Destruction ends, and so does the unwinding of a constructor that threw,
\* however many tasks are still queued, unless a running one waits for these.
ShutdownEnds == pc[Owner] \in {"catch", "join"} ~>
                  pc[Owner] = "gone" \/ Terminated \/ \E w \in Worker : Blocked(w)

\* The comment in the destructor: when done is set to true, the worker threads
\* exit, even if there are still tasks in work_queue.
WorkersExit == done ~> Terminated \/ \A w \in Worker : w < threads => pc[w] = "exit"
=============================================================================
