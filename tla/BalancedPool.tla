---------------------------- MODULE BalancedPool ----------------------------
(***************************************************************************)
(* thread_pool_balanced_job: a pool whose workers keep the tasks they      *)
(* submit in a deque of their own, take the youngest of them first, then a *)
(* task of the pool's queue, then steal the oldest task of another deque.  *)
(*                                                                         *)
(* The model has the pool's whole life: the constructor, which starts the  *)
(* workers while it holds mtx and may fail half way; submit(), by the      *)
(* owner and by tasks; run_pending_task(), by the workers and the owner;   *)
(* and the destructor, with the destruction of the members in reverse      *)
(* order of their declaration.  A task may wait for those it submitted     *)
(* with get(); one that calls run_pending_task() meanwhile, as those of    *)
(* sorter_pool do, is modelled in ParallelSort.                            *)
(* An operation of pool_work_queue is one step because FineQueue           *)
(* implements FifoQueue, one of a work_stealing_queue because it is one    *)
(* critical section of the_mutex.                                          *)
(***************************************************************************)
EXTENDS Naturals, Sequences

CONSTANTS ThreadCount,  \* std::thread::hardware_concurrency()
          Owner,        \* the thread that constructs, uses and destroys the pool
          Task,         \* the tasks there are
          Roots,        \* those the owner submits
          Children,     \* Children[x]: those that x submits while it runs
          Awaiting,     \* the tasks that then wait for the futures of these
          CanThrow,     \* what may throw in the constructor: "thread", "queue"
          UIntSize,     \* one more than the largest unsigned int
          Null          \* no thread, no task

ASSUME CountAssumption == ThreadCount \in Nat /\ UIntSize \in Nat /\ ThreadCount < UIntSize
ASSUME TaskAssumption == /\ Roots \subseteq Task /\ Awaiting \subseteq Task
                         /\ Children \in [Task -> SUBSET Task]
ASSUME ThrowAssumption == CanThrow \subseteq {"thread", "queue"}
ASSUME NameAssumption == Null \notin Nat \cup {Owner} \cup Task /\ Owner \notin Nat

Worker == 0..ThreadCount - 1
Thread == Worker \cup {Owner}

VARIABLES
  done,             \* the flag that stops the workers
  mtx,              \* the holder of mtx
  pool_work_queue,  \* the tasks submitted by a thread without a deque
  queues,           \* queues[i + 1]: the deque of worker i, front first
  threads,          \* how many threads the vector threads holds
  alive,            \* the members that are not destroyed
  pc,               \* pc[t]: what thread t does next
  task,             \* task[t]: the task thread t runs
  i,                \* i[t]: the loop counter of pop_from_other_local_queue()
  fut               \* fut[x]: the state of the future that submit(x) returned

data == <<pool_work_queue, queues, fut>>
vars == <<done, mtx, threads, alive, pc, task, i, data>>

Init == /\ done = FALSE /\ mtx = Null /\ threads = 0
        /\ pool_work_queue = <<>> /\ queues = <<>>
        /\ alive = {"mtx", "queues", "pool_work_queue"}
        /\ pc = [t \in Thread |-> IF t = Owner THEN "ctor" ELSE "none"]
        /\ task = [t \in Thread |-> Null]
        /\ i = [t \in Thread |-> 0]
        /\ fut = [x \in Task |-> "none"]

Goto(t, from, to) == pc[t] = from /\ pc' = [pc EXCEPT ![t] = to]
-----------------------------------------------------------------------------
(* The constructor *)

CtorLock == /\ Goto(Owner, "ctor", "create")
            /\ mtx = Null /\ mtx' = Owner
            /\ UNCHANGED <<done, threads, alive, task, i, data>>

\* threads.emplace_back(&worker_thread, this, i)
CreateThread == /\ pc[Owner] = "create" /\ threads < ThreadCount
                /\ pc' = [pc EXCEPT ![Owner] = "add_queue", ![threads] = "start"]
                /\ threads' = threads + 1
                /\ UNCHANGED <<done, mtx, alive, task, i, data>>

AddQueue == /\ Goto(Owner, "add_queue", "create")
            /\ queues' = Append(queues, <<>>)
            /\ UNCHANGED <<done, mtx, threads, alive, task, i, pool_work_queue, fut>>

CtorDone == /\ threads = ThreadCount /\ Goto(Owner, "create", "open")
            /\ mtx' = Null
            /\ UNCHANGED <<done, threads, alive, task, i, data>>

\* emplace_back() or push_back() throws: unwinding unlocks mtx.
CtorThrows == /\ \/ "thread" \in CanThrow /\ threads < ThreadCount /\ Goto(Owner, "create", "catch")
                 \/ "queue" \in CanThrow /\ Goto(Owner, "add_queue", "catch")
              /\ mtx' = Null
              /\ UNCHANGED <<done, threads, alive, task, i, data>>
-----------------------------------------------------------------------------
(* The destructor, also of a pool whose constructor has thrown *)

\* Seeded bug: the destructor does not set done.
CloseQuietly == /\ \/ Goto(Owner, "open", "free_mtx")
                   \/ Goto(Owner, "catch", "free_mtx")
                /\ UNCHANGED <<done, mtx, threads, alive, task, i, data>>

\* done = true, at a moment the owner chooses or in the catch block.
Close == /\ \/ Goto(Owner, "open", "free_mtx")
            \/ Goto(Owner, "catch", "free_mtx")
         /\ done' = TRUE
         /\ UNCHANGED <<mtx, threads, alive, task, i, data>>

\* mtx is the member declared last, so it is the first to go.
FreeMtx == /\ Goto(Owner, "free_mtx", "join")
           /\ alive' = alive \ {"mtx"}
           /\ UNCHANGED <<done, mtx, threads, task, i, data>>

\* Seeded bug: the loop of ~join_threads() misses the last thread.
JoinAllButOne == /\ \A w \in Worker : w + 1 < threads => pc[w] = "exit"
                 /\ Goto(Owner, "join", "free_queues")
                 /\ UNCHANGED <<done, mtx, threads, alive, task, i, data>>

\* ~join_threads()
Join == /\ \A w \in Worker : w < threads => pc[w] = "exit"
        /\ Goto(Owner, "join", "free_queues")
        /\ UNCHANGED <<done, mtx, threads, alive, task, i, data>>

InPool == {pool_work_queue[k] : k \in 1..Len(pool_work_queue)}
InDeque(w) == {queues[w + 1][k] : k \in 1..Len(queues[w + 1])}
InDeques == UNION {InDeque(w) : w \in 0..Len(queues) - 1}

\* Destroying a packaged_task that never ran breaks its promise.
Break(X) == fut' = [x \in Task |-> IF x \in X THEN "broken" ELSE fut[x]]

FreeQueues == /\ Goto(Owner, "free_queues", "free_pool")
              /\ alive' = alive \ {"queues"}
              /\ queues' = <<>>
              /\ Break(InDeques)
              /\ UNCHANGED <<done, mtx, threads, task, i, pool_work_queue>>

\* Seeded bug: the queue does not delete the tasks it still holds.
FreePoolLeaks == /\ Goto(Owner, "free_pool", "gone")
                 /\ alive' = alive \ {"pool_work_queue"}
                 /\ pool_work_queue' = <<>>
                 /\ UNCHANGED <<done, mtx, threads, task, i, queues, fut>>

FreePool == /\ Goto(Owner, "free_pool", "gone")
            /\ alive' = alive \ {"pool_work_queue"}
            /\ pool_work_queue' = <<>>
            /\ Break(InPool)
            /\ UNCHANGED <<done, mtx, threads, task, i, queues>>
-----------------------------------------------------------------------------
(* worker_thread(index) *)

\* Seeded bug: the worker does not wait for the constructor.
LockUnguarded(w) == /\ Goto(w, "start", "unlock")
                    /\ mtx' = w
                    /\ UNCHANGED <<done, threads, alive, task, i, data>>

\* Locking a mutex after its destructor ran is undefined; the destructor of
\* std::mutex is trivial in the builds at hand and the lock still works.
Lock(w) == /\ Goto(w, "start", "unlock")
           /\ mtx = Null /\ mtx' = w
           /\ UNCHANGED <<done, threads, alive, task, i, data>>

Unlock(w) == /\ Goto(w, "unlock", "bind")
             /\ mtx' = Null
             /\ UNCHANGED <<done, threads, alive, task, i, data>>

\* local_work_queue = queues[my_index_].get(); reading past the end crashes.
Bind(w) == /\ Goto(w, "bind", IF w < Len(queues) THEN "loop" ELSE "crashed")
           /\ UNCHANGED <<done, mtx, threads, alive, task, i, data>>

CheckDone(w) == /\ Goto(w, "loop", IF done THEN "exit" ELSE "local")
                /\ UNCHANGED <<done, mtx, threads, alive, task, i, data>>
-----------------------------------------------------------------------------
(* run_pending_task(), by a worker or by the owner while it waits *)

Help == /\ Goto(Owner, "open", "local")
        /\ UNCHANGED <<done, mtx, threads, alive, task, i, data>>

Run(t, x) == /\ pc' = [pc EXCEPT ![t] = "run"]
             /\ task' = [task EXCEPT ![t] = x]

Back(t) == IF t = Owner THEN "open" ELSE "loop"

\* my_index_ is -1, as an unsigned int, in a thread that is not a worker.
Index(t) == IF t = Owner THEN UIntSize - 1 ELSE t

\* Seeded bug: the round begins with the thread's own deque, and so, in a thread that is
\* not a worker, with that of the largest unsigned int.
VictimFromOwn(t, k) == ((Index(t) + k) % UIntSize) % Len(queues)

Victim(t, k) == ((Index(t) + k + 1) % UIntSize) % Len(queues)

\* The youngest task of the thread's own deque; the owner has none.
PopLocal(t) ==
  /\ pc[t] = "local"
  /\ IF t \in Worker /\ queues[t + 1] # <<>>
     THEN /\ Run(t, Head(queues[t + 1]))
          /\ queues' = [queues EXCEPT ![t + 1] = Tail(@)]
     ELSE Goto(t, "local", "pool") /\ UNCHANGED <<task, queues>>
  /\ UNCHANGED <<done, mtx, threads, alive, i, pool_work_queue, fut>>

PopPool(t) ==
  /\ pc[t] = "pool"
  /\ IF pool_work_queue # <<>>
     THEN /\ Run(t, Head(pool_work_queue))
          /\ pool_work_queue' = Tail(pool_work_queue)
          /\ UNCHANGED i
     ELSE /\ Goto(t, "pool", "steal") /\ i' = [i EXCEPT ![t] = 0]
          /\ UNCHANGED <<task, pool_work_queue>>
  /\ UNCHANGED <<done, mtx, threads, alive, queues, fut>>

\* Seeded bug: try_steal() leaves the task it returns in the deque.
StealCopy(t) ==
  /\ pc[t] = "steal" /\ i[t] < Len(queues)
  /\ LET deque == queues[Victim(t, i[t]) + 1]
     IN IF deque # <<>> THEN Run(t, deque[Len(deque)]) /\ UNCHANGED <<i, queues>>
        ELSE i' = [i EXCEPT ![t] = @ + 1] /\ UNCHANGED <<pc, task, queues>>
  /\ UNCHANGED <<done, mtx, threads, alive, pool_work_queue, fut>>

\* Seeded bug: try_steal() empties the deque it takes a task from.
StealClears(t) ==
  /\ pc[t] = "steal" /\ i[t] < Len(queues)
  /\ LET j == Victim(t, i[t])
         deque == queues[j + 1]
     IN IF deque # <<>>
        THEN Run(t, deque[Len(deque)]) /\ queues' = [queues EXCEPT ![j + 1] = <<>>] /\ UNCHANGED i
        ELSE i' = [i EXCEPT ![t] = @ + 1] /\ UNCHANGED <<pc, task, queues>>
  /\ UNCHANGED <<done, mtx, threads, alive, pool_work_queue, fut>>

\* Seeded bug: thieves leave the last task of a deque to its owner.
StealAllButLast(t) ==
  /\ pc[t] = "steal" /\ i[t] < Len(queues)
  /\ LET j == Victim(t, i[t])
         deque == queues[j + 1]
     IN IF Len(deque) > 1
        THEN /\ Run(t, deque[Len(deque)])
             /\ queues' = [queues EXCEPT ![j + 1] = SubSeq(deque, 1, Len(deque) - 1)]
             /\ UNCHANGED i
        ELSE i' = [i EXCEPT ![t] = @ + 1] /\ UNCHANGED <<pc, task, queues>>
  /\ UNCHANGED <<done, mtx, threads, alive, pool_work_queue, fut>>

\* The oldest task of the next deque.
Steal(t) ==
  /\ pc[t] = "steal" /\ i[t] < Len(queues)
  /\ LET j == Victim(t, i[t])
         deque == queues[j + 1]
     IN IF deque # <<>>
        THEN /\ Run(t, deque[Len(deque)])
             /\ queues' = [queues EXCEPT ![j + 1] = SubSeq(deque, 1, Len(deque) - 1)]
             /\ UNCHANGED i
        ELSE i' = [i EXCEPT ![t] = @ + 1] /\ UNCHANGED <<pc, task, queues>>
  /\ UNCHANGED <<done, mtx, threads, alive, pool_work_queue, fut>>

\* Nothing to do anywhere: yield.
StealFails(t) ==
  /\ i[t] = Len(queues) /\ Goto(t, "steal", Back(t))
  /\ UNCHANGED <<done, mtx, threads, alive, task, i, data>>

\* get() waits for a future; the thread does not take another task meanwhile.
Blocked(t) == task[t] \in Awaiting /\ \E x \in Children[task[t]] : fut[x] = "pending"

\* task() returns or throws: either way the packaged_task sets its future.
Finish(t) ==
  /\ Goto(t, "run", Back(t))
  /\ \A x \in Children[task[t]] : fut[x] # "none"
  /\ ~Blocked(t)
  /\ fut' = [fut EXCEPT ![task[t]] = "ready"]
  /\ task' = [task EXCEPT ![t] = Null]
  /\ UNCHANGED <<done, mtx, threads, alive, i, pool_work_queue, queues>>
-----------------------------------------------------------------------------
(* submit(), by the owner or by a running task *)

Submits(t, x) == \/ t = Owner /\ pc[t] = "open" /\ x \in Roots
                 \/ pc[t] = "run" /\ x \in Children[task[t]]

Submit(t, x) ==
  /\ Submits(t, x) /\ fut[x] = "none"
  /\ fut' = [fut EXCEPT ![x] = "pending"]
  /\ IF t \in Worker
     THEN queues' = [queues EXCEPT ![t + 1] = <<x>> \o @] /\ UNCHANGED pool_work_queue
     ELSE pool_work_queue' = Append(pool_work_queue, x) /\ UNCHANGED queues
  /\ UNCHANGED <<done, mtx, threads, alive, pc, task, i>>
-----------------------------------------------------------------------------
Construct == CtorLock \/ CreateThread \/ AddQueue \/ CtorDone \/ CtorThrows
Destroy == (pc[Owner] = "catch" /\ Close) \/ FreeMtx \/ Join \/ FreeQueues \/ FreePool
StartUp(w) == Lock(w) \/ Unlock(w) \/ Bind(w)
RunPending(t) == \/ PopLocal(t) \/ PopPool(t) \/ Steal(t) \/ StealFails(t) \/ Finish(t)
                 \/ pc[t] = "run" /\ \E x \in Task : Submit(t, x)

OwnerStep == Construct \/ Destroy \/ RunPending(Owner)
WorkerStep(w) == StartUp(w) \/ CheckDone(w) \/ RunPending(w)
Choose == Help \/ (pc[Owner] = "open" /\ Close) \/ \E x \in Task : pc[Owner] = "open" /\ Submit(Owner, x)

Next == OwnerStep \/ Choose \/ \E w \in Worker : WorkerStep(w)

Spec == Init /\ [][Next]_vars

(* Every thread is scheduled again and again; the owner is not obliged to  *)
(* submit, to help or to destroy the pool.                                 *)
FairSpec == Spec /\ WF_vars(OwnerStep) /\ \A w \in Worker : WF_vars(WorkerStep(w))
-----------------------------------------------------------------------------
(* Properties *)

PcLabel == {"ctor", "create", "add_queue", "catch", "open", "free_mtx", "join",
            "free_queues", "free_pool", "gone", "none", "start", "unlock", "bind",
            "crashed", "loop", "exit", "local", "pool", "steal", "run"}

\* Types, and the range of the steal loop's counter.
TypeOK ==
  /\ done \in BOOLEAN /\ mtx \in Thread \cup {Null} /\ threads \in 0..ThreadCount
  /\ pool_work_queue \in Seq(Task)
  /\ queues \in Seq(Seq(Task))
  /\ alive \subseteq {"mtx", "queues", "pool_work_queue"}
  /\ pc \in [Thread -> PcLabel]
  /\ task \in [Thread -> Task \cup {Null}]
  /\ i \in [Thread -> 0..ThreadCount]
  /\ fut \in [Task -> {"none", "pending", "ready", "broken"}]

\* What the comment in worker_thread() asks of mtx: as long as the constructor
\* changes the vector queues, no worker reads it, to bind or to steal.
QueuesFrozen ==
  pc[Owner] \in {"create", "add_queue"} =>
    \A w \in Worker : pc[w] \in {"none", "start"}

\* The joiner stands between the workers and the members they use: whoever may
\* still touch the queues finds them alive, and a deque for each bound worker.
MembersAlive ==
  \A t \in Thread : pc[t] \in {"bind", "loop", "local", "pool", "steal", "run", "open"} =>
    /\ {"queues", "pool_work_queue"} \subseteq alive
    /\ t \in Worker => t < Len(queues)

\* Whoever goes round the deques to steal passes every one of them, and none twice,
\* although my_index_ is an unsigned int that wraps round in the owner.
RoundComplete ==
  \A t \in Thread : pc[t] = "steal" =>
    \A j \in 0..Len(queues) - 1 :
      \E k \in 0..Len(queues) - 1 :
        /\ Victim(t, k) = j
        /\ \A l \in 0..Len(queues) - 1 : Victim(t, l) = j => l = k

\* When the pool is gone no future is pending: get() may throw broken_promise
\* but never blocks for ever on a task that was left in a queue.
FuturesSettled == pc[Owner] = "gone" => \A x \in Task : fut[x] # "pending"

(* The inductive invariant.                                                *)
Busy == {"local", "pool", "steal", "run"}

\* Who is where: a thread that was not started is nowhere, and behind the
\* joiner all that were have ended.
LifeInv ==
  /\ pc[Owner] \in Busy \cup {"ctor", "create", "add_queue", "catch", "open", "free_mtx",
                              "join", "free_queues", "free_pool", "gone"}
  /\ \A w \in Worker :
       /\ pc[w] \in Busy \cup {"none", "start", "unlock", "bind", "crashed", "loop", "exit"}
       /\ pc[w] = "none" <=> w >= threads
       /\ pc[Owner] \in {"free_queues", "free_pool", "gone"} => pc[w] \in {"none", "exit"}
  /\ \A t \in Thread : pc[t] = "run" <=> task[t] # Null

\* mtx keeps the workers from the vector until the constructor is through.
MutexInv ==
  /\ mtx = Owner <=> pc[Owner] \in {"create", "add_queue"}
  /\ \A w \in Worker :
       /\ mtx = w <=> pc[w] = "unlock"
       /\ pc[Owner] \in {"ctor", "create", "add_queue"} => pc[w] \in {"none", "start"}

\* How many deques there are; a worker that has found its own keeps it.
QueuesInv ==
  /\ pc[Owner] = "ctor" => threads = 0
  /\ Len(queues) <= threads
  /\ pc[Owner] = "create" => Len(queues) = threads
  /\ pc[Owner] = "add_queue" => Len(queues) = threads - 1
  /\ pc[Owner] \notin {"free_pool", "gone"} =>
       /\ {"queues", "pool_work_queue"} \subseteq alive
       /\ "queue" \notin CanThrow /\ pc[Owner] # "add_queue" => Len(queues) = threads
       /\ \A w \in Worker : pc[w] \in Busy \cup {"loop"} => w < Len(queues)
  /\ pc[Owner] \in {"free_pool", "gone"} => queues = <<>>

\* A task whose future is pending is still in a queue or in somebody's hands.
PendingKept ==
  \A x \in Task : fut[x] = "pending" =>
    x \in InPool \/ x \in InDeques \/ \E t \in Thread : task[t] = x

IInv == TypeOK /\ LifeInv /\ MutexInv /\ QueuesInv /\ PendingKept /\ FuturesSettled

\* The other half: a task is in one place only, once, while its future is pending;
\* and done says that the destructor has begun.
NoRepeats(s) == \A k, l \in 1..Len(s) : s[k] = s[l] => k = l
Apart == /\ NoRepeats(pool_work_queue) /\ InPool \cap InDeques = {}
         /\ \A v \in 0..Len(queues) - 1 : NoRepeats(queues[v + 1])
         /\ \A v, w \in 0..Len(queues) - 1 : v # w => InDeque(v) \cap InDeque(w) = {}
PlaceInv ==
  /\ Apart
  /\ \A x \in InPool \cup InDeques : fut[x] = "pending" /\ \A t \in Thread : task[t] # x
  /\ \A t \in Thread : task[t] # Null => fut[task[t]] = "pending"
  /\ \A t, u \in Thread : task[t] = task[u] /\ task[t] # Null => t = u
  /\ done <=> pc[Owner] \in {"free_mtx", "join", "free_queues", "free_pool", "gone"}

Running(x) == \E t \in Thread : task[t] = x
StatusOf == [none |-> "new", pending |-> "queued", ready |-> "done", broken |-> "dropped"]
Lost(x) == fut[x] = "pending" /\ x \notin InPool \cup InDeques
absStatus == [x \in Task |-> IF Running(x) THEN "running"
                             ELSE IF Lost(x) THEN "lost" ELSE StatusOf[fut[x]]]
absPhase == IF pc[Owner] \in {"free_queues", "free_pool", "gone"} THEN "closed"
            ELSE IF done THEN "closing" ELSE "open"

Pool == INSTANCE TaskPool WITH status <- absStatus, phase <- absPhase

\* The pool runs every task at most once, drops none while it is open and loses none: a
\* task that is pending is in a queue or running, however owners and thieves compete.
ImplementsTaskPool == Pool!Spec

\* While the pool is open a submitted task does not wait for ever, whichever queue it is
\* in: also if it is in the deque of a worker that waits for it and cannot take it.
TasksRun == \A x \in Task : fut[x] = "pending" ~> fut[x] = "ready" \/ done

\* Destruction ends, and so does the unwinding of a constructor that threw: no worker
\* misses done and none is stuck on mtx, unless a running task waits for a queued one.
ShutdownEnds == pc[Owner] \in {"catch", "free_mtx"} ~>
                  pc[Owner] = "gone" \/ \E w \in Worker : Blocked(w)

\* The mutex outlives its last use, as the order of the members should ensure.
MutexOutlivesWorkers == \A w \in Worker : pc[w] = "unlock" => "mtx" \in alive
=============================================================================
