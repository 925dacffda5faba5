# TLA+ models of CppConcurrencyInAction

The repository is a collection of concurrent C++ templates after the book *C++
Concurrency in Action*: queues, a stack, a list and a lookup table that several
threads may use at once, three thread pools, parallel algorithms and four versions
of quicksort. This directory models them in TLA+, checks the models with TLC and
proves theorems about them with TLAPS.

To check a module: `tlc -config MCFineQueue.cfg MCFineQueue`; to check its proofs:
`tlapm QueueProofs.tla`. `PROJECT.json` lists the runs, the seeded bugs that show
that each property can fail, the source lines of each definition, the hazards and
the theorems.

## The system

| Component | State | Operations | Uses |
|---|---|---|---|
| `threadsafe_queue::threadsafe_queue` (threadsafe_queue.h:16-83) | a `std::queue`, one mutex, a condition variable | push, try_pop, wait_and_pop, empty | |
| `threadsafe_queue::queue` (:88-193) | a linked list with a dummy at the end, a mutex for each end, a condition variable | the same | |
| `threadsafe_stack` | a `std::stack`, one mutex | push, pop, empty, copy | |
| `threadsafe_list` | a linked list with a mutex in each node | push_front, for_each, find_first_if, remove_if, empty | |
| `threadsafe_lookup_table` | a vector of buckets, each a list and a reader-writer lock | value_for, add_or_update_mapping, remove_mapping, get_map | |
| `thread_pool` | `done`, a `threadsafe_queue`, threads, their joiner | constructor, submit, worker_thread, destructor | threadsafe_queue, join_threads |
| `thread_pool_with_result` | the same with a `queue` of `function_wrapper` | the same; submit returns a future | queue, join_threads, function_wrapper |
| `thread_pool_balanced_job` | the same, a deque for each worker, a mutex for the start-up, two `static thread_local` variables | the same, run_pending_task | queue, work_stealing_queue, join_threads |
| `sorter_pool` (quicksort_using_pool.h) | a balanced pool | do_sort | thread_pool_balanced_job |
| `sorter` (quicksort_using_chunk.h) | a stack of chunks with a promise each, threads, `done`, a mutex | do_sort, try_sort_chunk, sort_thread, destructor | threadsafe_stack |
| `parallel_for_each`, `parallel_find` and their async forms, `exception_safe_accumulate` | local: threads, futures, a promise, a flag | | join_threads |
| `thread_guard`, `scoped_thread`, `join_threads` | references to threads | destructors that join | |
| `function_wrapper` | an owned callable | move, call | |

The pools take their tasks from the queues, and the sorts run on a pool or on the
stack. Threads communicate only through these structures, atomic flags, and
promises and futures.

What is hard in each of them, and what makes it correct:

* **Queues.** A condition variable that is notified outside the waiter's mutex; two
  mutexes on one list, so that a pop works with a copy of `tail_` that may be stale;
  cells deleted after the lock was released. Correct: atomic FIFO behaviour
  (linearizability), memory safety, no data race, no hanging call, no lost wakeup.
* **Pools.** Start-up and destruction against workers that are already or still
  running, exceptions half way through the constructor, tasks that submit tasks,
  stealing from both ends. Correct: every task is run once or dropped at the end,
  futures are settled, members outlive their users, destruction ends.
* **Sorts.** Threads that run other parts, nested on their stack, while they wait for
  their own; a vector that is read without its mutex. Correct: no circle of waiting
  calls, a sorted result whoever sorted which part, nobody at work when the root
  call returns.
* **List, table.** Hand-over-hand locks, nodes deleted with their mutex, iterators
  used under a reader-writer lock, reads across several buckets. Correct: no use of
  a deleted node or a stale iterator, no deadlock, atomic operations, and exactly
  what `get_map` may return.
* **Algorithms.** Division of a range, racing writers of one promise, early stop,
  deferred futures, joining after an exception. Correct: every element is in one
  block, the result is a match and is reported if there is one, exceptions are not
  lost, no thread outlives the call.

`PROJECT.json` has the hazards line by line, with the properties that cover them, or
why none does.

## The modules

| Module | Models | Implements | Instance | Proofs |
|---|---|---|---|---|
| `FifoQueue` | what both queues promise | | | |
| `FineQueue` | `threadsafe_queue::queue` | `FifoQueue` | `MCFineQueue` | `QueueProofs` |
| `LockedQueue` | `threadsafe_queue::threadsafe_queue` | `FifoQueue` | `MCLockedQueue` | `QueueProofs` |
| `TaskPool` | what the pools promise | | | |
| `BalancedPool` | `thread_pool_balanced_job` | `TaskPool` | `MCBalancedPool` | `BalancedPoolProofs` |
| `SimplePool` | `thread_pool`, `thread_pool_with_result` | `TaskPool` | `MCSimplePool` | `SimplePoolProofs` |
| `AtomicList` | what the list promises | | | |
| `Selection` | parts of sequences, for both list modules | | | |
| `HandOverHandList` | `threadsafe_list` | `AtomicList` | `MCHandOverHandList` | `HandOverHandListProofs` |
| `KeyedTable` | what the lookup table promises | | | |
| `LookupTable` | `threadsafe_lookup_table` | `KeyedTable` | `MCLookupTable` | `LookupTableProofs` |
| `ParallelSort` | the four quicksorts | | `MCParallelSort` | `ParallelSortProofs` |
| `Blocks` | the division of a range into blocks | | | `BlockAlgorithmsProofs` |
| `BlockAlgorithms` | `parallel_for_each`, its async form, `parallel_find`, `exception_safe_accumulate` | | itself | `BlockAlgorithmsProofs` |
| `AsyncFind` | `parallel_find_async` | | itself | `AsyncFindProofs` |

### FifoQueue

The abstract queue: what both queues promise. `items` is a sequence; an operation
is called, takes effect in one step (`Enqueue`, `Dequeue`, `FindNothing`,
`TestEmpty`) and returns. `try_pop` may fail only when the queue is empty at that
moment.

### FineQueue: `threadsafe_queue::queue`

The state is the heap (`next`, `data`, and `live`, the cells that are allocated),
the members `head`, `tail` and the two mutexes, and for each thread the place it
has reached (`pc`), its operation and its locals: the argument or result (`val`),
the cell its local `unique_ptr` owns (`own`) and what `get_tail()` returned to it
(`seen`). `new` takes any free cell, also one that was just deleted, so a thread
that keeps a pointer too long meets the cell in its next life. `chain` is a history
variable, the cells from `head_` to `tail_`; no guard reads it.

| Code | Actions |
|---|---|
| push (133-157; the two overloads make the same accesses) | `PushCall`, `PushLock`, `PushSetData`, `PushSetNext`, `PushSetTail`, `PushNotify` |
| try_pop_head, wait_and_pop, empty: lock and test | `PopCall`, `LockHead`, `GetTail`, then `ReturnAnswer`, `Wait` or `FindElement` |
| pop_head, then the caller's part | `PopHead`, `Take` |
| condition variable | `Wait` releases the mutex and sleeps; `PushNotify` wakes every sleeper; `SpuriousWakeup` |

`Take` releases `head_mtx_` for `wait_and_pop` only: `try_pop_head` has released it
before the value is read.

### LockedQueue: `threadsafe_queue::threadsafe_queue`

The same for the queue with one mutex. `front()` and `pop()` are two steps, so that
the mutex has something to protect; `Notify` is `notify_all()` under the mutex
together with the unlock behind it, between which no other thread can do anything.
`Capacity` bounds the length at which a push may still be called.

### TaskPool

The abstract pool: a task is submitted, begun at most once, finished; while the
pool is open none is dropped; after the workers are joined, those still queued are.

### BalancedPool: `thread_pool_balanced_job`

The owner constructs the pool (`CtorLock`, `CreateThread`, `AddQueue`, `CtorDone`,
or `CtorThrows` at either of the two calls that may throw), submits tasks, helps
(`Help`, which enters `run_pending_task`), and closes it at any moment: `Close` sets
`done`, then the members go in reverse order of their declaration (`FreeMtx`,
`Join`, `FreeQueues`, `FreePool`). The same sequence is the unwinding of a
constructor that threw. A worker locks and unlocks `mtx`, binds its deque, and
loops: `CheckDone`, `PopLocal`, `PopPool`, `Steal` for each deque in turn,
`StealFails` (the yield), or the task: `Submit` for each child, then `Finish`, which
settles the future whether the task returned or threw. The tasks are the program's,
not the pool's: `Roots` says which the owner submits and `Children` which are
submitted by a running task, to the worker's own deque. A task in `Awaiting` then waits
for them with `get()` (`Blocked`), and its thread takes nothing else: only a thief can
take what lies in its deque. A task that calls `run_pending_task()` while it waits, as
those of `sorter_pool` do, nests other tasks on its stack; that is in `ParallelSort`.

The refinement of `TaskPool` maps a task to `running` if a thread runs it, to `queued`
if it is pending and in one of the queues, and to `lost`, a state that `TaskPool` does
not have, if it is pending and nowhere (`Lost`; the same in `SimplePool`).

An operation of `pool_work_queue` is one step, because the fine-grained queue
implements an atomic FIFO (run `fine_queue`); one of a `work_stealing_queue` is one
critical section. The index of a thread that is no worker is `UIntSize - 1`, as
`-1` is for an `unsigned int`, and the sum of the steal loop wraps.

Locking a mutex after its destruction is undefined; with the trivial destructor of
`std::mutex` in common builds the lock still works, and so it does in the model.
`MutexOutlivesWorkers` is the property that says it should not happen.

### SimplePool: `thread_pool` and `thread_pool_with_result`

One module for both, since their code differs only in the type of the tasks;
`withResult`, which never changes, tells them apart. The owner starts workers (`CreateThread`, or
`CreateThreadFails`), opens the pool (`CtorDone`), submits, and closes it (`Close`,
also in the catch block), joins (`Join`) and deletes the queue with what it still
holds (`FreeQueue`). A worker loops through `CheckDone`, `Pop` or `Yield`, and
`Finish`. A function that throws ends the program in `thread_pool` (`Terminate`)
and settles its future in the other one. Tasks in `Awaiting` finish only when the
futures of their `Children` are settled; meanwhile their worker takes no other task.

### AtomicList

The abstract list: `push_front`, `find_first_if`, `remove_if` and `empty` take
effect in one step on a sequence of values. `res` is what the caller has been shown
when the operation returns: every value a traversal passed to the caller's
function, or the answer of `empty`.

### HandOverHandList: `threadsafe_list`

The heap is modelled as in `FineQueue`, with a mutex in each cell (`mtx`); `cur`,
`nxt` and `own` are the locals `current`, `next` and the `unique_ptr` of each
thread. `find_first_if` is also `for_each` (a predicate that never holds), and a
`remove_if` of everything is also the destructor.

| Code | Actions |
|---|---|
| push_front (33-39) | `PushCall`, `LockFront`, `Link`, `SetFront`, `Return` |
| empty (90-93) | `Call`, `LockFront`, `TestEmpty`, `Return` |
| find_first_if, for_each (41-68) | `Call`, `LockFront`, then `ReadNext`, `LockNext`, `Unlock`, `Advance` for each node; `Found` or `AtEnd` |
| remove_if (70-88) | the same without `Unlock`; `Unlink`, `UnlockDead`, `Delete` for a node that is removed |

A traversal takes effect when it locks `head_`, long before it does its work. The
history variable `ahead` holds the set of the cells it is going to see if that is
true: the list at that moment, without the cells that the removals already under way
will remove (`Contents`). The refinement of `AtomicList` maps the answer of a
traversal to what it has shown so far (`seen`) followed by the values of the cells in
`ahead`, in the order of the list, so a traversal that overtook a removal, or was
overtaken, would change its answer on the way and fail.

### KeyedTable and LookupTable: `threadsafe_lookup_table`

`KeyedTable` is the abstract table: writing one key is atomic, reading one key is
atomic, and whoever reads many reads them part by part, each part at one instant.

In `LookupTable` a bucket is the set of its entries, since the order of its list
matters to nobody but `find_entry_for()`, which looks for a key. Each bucket has a
reader-writer lock: `shared`, the threads that hold a `shared_lock`, and `unique`,
the one that holds a `unique_lock`. `value_for`, `add_or_update_mapping` and
`remove_mapping` are `Call`, `LockShared` or `LockUnique`, `Find`, then `Read`,
`Update` or `Erase` through the iterator `found`; `get_map` locks a bucket and
copies it (`Copy`), one bucket after the other. The refinement maps a bucket to the
function of its keys and treats the keys of one bucket as the parts that `get_map`
reads together: it is no snapshot of the table, and nothing claims that it is.

### ParallelSort: the four quicksorts

One module for `quicksort_sequential`, `quicksort_using_futures`, `sorter_pool` and
`sorter`, because a call of `do_sort` is the same in all of them but for who sorts
the lower part; `kind`, which never changes, tells them apart. Each thread has a
stack of frames, one for each call it has begun, because a call that waits for its
lower part sorts other parts on top of itself (`Help`). A list is the set of its
elements: `std::partition` leaves them in any order, so any of them may be the
pivot. `queue` holds the parts nobody has taken yet: the last one pushed is taken
from the stack, any one from the pool (which is `TaskPool` here: a deque's end or
the front of the queue, of whichever deque), and from the futures either by a thread
of `std::async` or, if it was deferred, by the call that gets it.

| Code | Actions |
|---|---|
| `do_sort`, the lower part | `SortLower`, `AsyncLower`, `SubmitLower`, or `PushChunk` |
| starting threads (quicksort_using_chunk.h:99-104) | `ReadSize`, `Append1`, `Append2` |
| the higher part, by recursion | `CallHigher` |
| the waiting loop and `get()` | `TestFuture`, `Help`, `Return` |
| `sort_thread`, worker loop | `CheckDone`, `Try`; `AsyncThread` |
| `quicksort_using_...`, destructor | `Call`, `Close`, `Join` |

`Blocked` says when a thread cannot go on: the chunks' mutex is taken, or the future
is not ready and no part can be taken. `WaitsFor` says who holds the mutex or has the
call for that part on its stack. `NoDeadlock` is about these two; it is the part
of `Termination` that can be proved, for nestings that four elements do not reach.

`threads.size()` is read without `mtx` (:99). While another thread is inside
`emplace_back` that is a data race, and `ReadSize` takes either answer. Several
threads may pass the test before one of them appends, so more than
`hardware_concurrency() - 1` threads may be started; the sort does not depend on the
limit. `Hardware = 0` is an unknown number, for which `max_threads_num` is -1 and,
as a `size_t`, no limit. `Room` is the model's own bound: it has a thread for
everybody who is about to start one.

### Blocks, BlockAlgorithms

`Blocks` has the arithmetic: number of threads, size and limits of the blocks.
`BlockAlgorithms` runs the four algorithms that use it. The elements are positions;
`bad` are those at which the caller's function, `+=` or `==` throws, and `match`
those that `parallel_find` looks for. The caller creates a thread for each block but
the last (`CreateThread`; `CreateFails` if `std::thread` throws; `std::async` may
defer), works on the last block itself (`BeginOwn`, `EndOwn`), and collects the
results: `Get` one future after the other (running a deferred one), after `JoinAll`
in `accumulate`; `parallel_find` joins and looks at the flag (`Report`). Every
exit passes through `Join`, the destructors of the joiner and of the futures. A
block applies the function (`Apply`), or searches: `Test`, `Compare`, then
`SetValue`, `SetException` and `StoreFlag`, where a promise that is set already
throws, into the handler that tries to set it once more. `count` says how
often an element was taken.

`FindRight` says "a match", not "the first match": which of several matches
`parallel_find` returns depends on who sets the promise first.

### AsyncFind: `parallel_find_async`

A call is named by its range. A short range is scanned (`Test`, `Compare`, `Found`,
`Catch`); a long one is halved (`Split`), the right half by `std::async`, which may
defer it, the left one by the call itself. `LeftEnded` looks at the left result:
`Get` waits for the right half (`RunDeferred` runs it), `Drop` is the destructor of
a future that is not needed any more, also while an exception unwinds. A call that
was interrupted by the flag returns the end of its range, as if it had found
nothing; `InterruptedHalf` and `FindRight` say why this loses nothing.

## Runs

| Run | Instance | Checks |
|---|---|---|
| `fine_queue` | 3 threads, 4 cells, 2 values, all operations | `ImplementsFifo` (linearizability), `ListIntact`, `OneOwner` (no dangling pointer, double delete or leak), `NoDataRace`, `NoDeadlock` |
| `fine_queue_lost_wakeup` | one producer, one consumer | **violated**: `FrontDelivered` |
| `locked_queue` | 3 threads, 2 values, pushes called while the length is below 2 | `ImplementsFifo`, `NoLostWakeup` |
| `balanced_pool` | 3 workers and the owner, 3 tasks, of which one submits two others and waits for them; starting a thread may fail | `ImplementsTaskPool`, `QueuesFrozen`, `MembersAlive`, `FuturesSettled`, `RoundComplete` (a thief tries every deque once), `TasksRun`, `ShutdownEnds` |
| `balanced_pool_mutex` | 2 workers and the owner, 1 task | **violated**: `MutexOutlivesWorkers` |
| `simple_pools` | both pools, 3 workers, 4 tasks: one may throw, one waits for two others; starting a thread may fail | `ImplementsTaskPool`, `MembersAlive`, `FuturesSettled`, `TasksRun`, `ShutdownEnds` |
| `simple_pool_nested` | 2 workers, one task waits for another | **violated**: `WorkersExit` |
| `list` | a pusher, a remover, a thread with any other operation; 3 nodes, 2 values, all predicates | `ImplementsAtomicList` (linearizability), `ListIntact`, `DeadUnreachable`, `SeesSnapshot`, `NoDeadlock` |
| `lookup_table` | a writer, a reader and writer, a thread that copies the table; 3 keys in 2 buckets, 2 values | `ImplementsTable`, `KeysUnique`, `IteratorsValid`, `ReadersEnd` |
| `parallel_sort` | all four kinds, every subset of 4 elements (two with equal keys), 3 threads beside the caller | `Sorted`, `NoStragglers`, `NoDeadlock` (no circle of waiting calls), `Termination` |
| `block_algorithms` | all four algorithms, every range up to 6 elements, 0 to 4 hardware threads, any elements throwing or matching, `std::thread` may throw | `EachOnce`, `NoStragglers`, `FindRight`, `Ends` |
| `async_find` | every range up to 4 elements, any halves deferred, any elements throwing or matching | `InterruptedHalf`, `FindRight`, `NoStragglers`, `Ends` |

Every property of a passing run fails for at least one seeded bug (`PROJECT.json`,
"mutants"); the operators marked "Seeded bug" in the modules are these variants of
the code, and no specification uses them.

The bounds.

* Queues: four cells hold an empty queue and three pushes in progress, or two
  elements, the dummy and a cell about to be deleted; a cell is reused within a few
  operations. Three threads are a pusher and two pops that compete, or the reverse.
* Pools: of three workers one may block for good, and two and the helping owner compete
  for its tasks; with three deques a round that begins in the wrong place misses one,
  since 3 does not divide the number of unsigned ints. (With two, a round that starts
  anywhere is complete.) Of three tasks, one comes from the owner through the pool's
  queue and two from a running task, into a deque if a worker runs it and into the
  pool's queue if the owner does.
  The simple pools have three workers so that one may block for good.
* List: three nodes let one traversal overtake another between two nodes while the
  third is removed or pushed; two removals that follow each other need no third.
* Table: two keys of one bucket, one of the other; two threads that write the same
  key with different values; `get_map` passes from one bucket to the next.
* Sorts: four elements make four calls, enough for a call that is buried under
  another one on each of two stacks. It takes five elements before three threads
  wait at once, or one waits for another that waits itself on top of frames for
  other parts; the run has four because of its size, and `NoDeadlock`, the property
  that is about this, is proved for any number. The model has three threads beside the caller:
  the pool's three workers, or, with `Hardware = 3`, a `sorter` that wants two and
  may start a third through the unprotected test.
* Algorithms: `min_per_thread` is 2 for the blocks and 1 for the halves, instead of
  25, so that six (four) elements make three blocks with a remainder (three levels
  of halving). `Blocks` is proved for every value.

Deadlock is checked for the queues, the list and the table, where a thread may
always call something. It is not for the pools, sorts and algorithms, which end and
have liveness properties instead, nor for the consumer scenario, which may sleep.

### What the violated runs show

* **Lost wakeup** (threadsafe_queue.h:156). The consumer finds the queue empty at
  :172; the producer's whole push, including `notify_all()`, comes next; the
  consumer then sleeps at :173, beside the element. `push` does not take
  `head_mtx_`, so nothing keeps it out of that gap. A later push or a spurious
  wakeup repairs it; the last element of a producer may stay for ever. The consumer
  test (threadsafe_queue.cpp:71-119) sleeps between pushes, which hides it.
* **Destroyed mutex** (thread_pool_balanced_job.h:84). `mtx` is declared after
  `joiner` and therefore destroyed before the workers are joined; a worker that has
  not yet been scheduled then locks it (:91).
* **Blocked worker** (thread_pool_with_result.h:34). The comment at :55-56 says that
  the worker threads exit once `done` is set, even with tasks left in the queue. A
  worker whose task waits for one of those does not: the others leave, nobody runs
  the task, and `~join_threads` waits for ever. (The work-stealing pool is no better:
  its `ShutdownEnds` has the same exception.) While the pool is open the same is
  avoided by having more workers than blocking tasks (`TasksRun`).

## What the analysis shows besides

* The helping calls of the sorts cannot deadlock, for any number of workers, none
  included (theorem `NeverDeadlocked`): a call that waits does so for a part that was
  submitted after the call began, and whatever lies on top of it on its stack began
  later still, so the waits lead from older calls to younger ones and never round.
  What nesting costs is stack, which the model does not limit.
* A missing deque (thread_pool_balanced_job.h:127-128): the thread is started before
  its deque is appended. If appending throws, unwinding releases `mtx` before `done`
  is set, and the worker reads `queues[index]` past the end. The model has it
  (`"queue"` in `CanThrow`; `Bind` goes to `"crashed"`); the runs leave it out, since
  it takes an allocation that fails, and the theorem `MembersOutlive` names it as
  its assumption.
* A writer of the lookup table may wait for ever behind readers that overlap;
  `ReadersEnd` is claimed of readers only.

## Fairness

* `FineQueue` (in the consumer scenario only) and `LookupTable` assume strong
  fairness of each thread inside an operation: the scheduler keeps running it, and a
  thread that waits for a mutex which is free again and again gets it. The C++
  standard does not promise the latter for a single mutex, but without it no
  lock-based structure guarantees that a call ends. Calls and spurious wakeups are
  never owed.
* The pools, the sorts and the algorithms need only weak fairness of each thread:
  threads are preemptive, and where they wait, they wait for something that stays,
  or for a mutex that is taken only finitely often.
  The owner of a pool is not obliged to submit, help or close.
* The list is checked for safety only: `NoDeadlock` says that who is waited for is
  inside an operation and waits, if at all, further down a finite list.

## Proofs

All theorems hold for any values of the constants that meet the named assumptions of
the modules: that the special values (`Null`, `Absent`, `End`, `Owner`) are none of
the others, that counts are natural numbers, that the argument functions have the
right domain, and that there is at least one cell, bucket and element per thread.
In `BlockAlgorithms` the bounds `MaxLength` and `MaxHardware` are constants of this
kind too. Where a module has an inductive invariant it is `IInv`, its conjuncts are
named, and the proof has a lemma per conjunct and a step per action.

* `QueueProofs`, first about `FineQueue`: `IInv`, and from it `TypeOK`, `ListIntact`, `OneOwner`,
  `NoDataRace` and `NoDeadlock`. `IInv` adds what the locks protect: which thread
  holds which mutex at which point (`LockInv`), and what a thread knows there
  (`LocalInv`). The step that needs it is `PopHead`: a pop must find a cell behind
  `head_` although `tail_` may have moved since it was read. It does because the
  cell it saw is still in the chain (nobody else removes cells while it holds
  `head_mtx_`) and is not the first one. The refinement of `FifoQueue` needs one fact
  more (`ValueInv`): the values of the cells between the first and the last are the
  abstract queue, and who has a cell in its hands has its value too.
  Then about `LockedQueue`, which the module takes as the instance `Locked`, with
  variables of its own: its invariant, with `NoLostWakeup`, and the refinement
  `Locked!Spec => Locked!ImplementsFifo`.
* `LookupTableProofs`: exclusion of readers and writers (`LockInv`) makes a writer
  alone in its bucket; so the iterator it found stays valid until its use
  (`IteratorsValid`); so it updates the key's entry if there is one and appends one
  only if there is none (`KeysUnique`); so a bucket is a function of its keys, and
  each step is a step of `KeyedTable` (`Refinement`).
* `HandOverHandListProofs`: `IInv` says who holds which mutex (`LockInv`), where a
  traversal stands (`StandInv`), that the pointers follow `chain` (`ChainInv`), and
  that every cell belongs to the list or to one thread (`OwnInv`). That gives
  `ListIntact`, `DeadUnreachable` (a cell that is deleted was behind a mutex its
  deleter still holds, so nobody stands there and nobody is on the way to it) and
  `NoDeadlock` (a thread holds mutexes no further down than where it stands and waits
  only for the next). `SeesSnapshot` is about the future of a traversal and needs
  `AheadInv`: what lies behind its position and it is not to see, a removal further
  in front is going to unlink; and what a removal is going to unlink, nobody who
  follows it is to see. The refinement of `AtomicList` rests on lemmas about
  `Select`: the selected elements are those at the places a strictly increasing list of
  numbers names (`Lists`), so values selected through other cells at other places are
  the same values in the same order (`Reindexed`), and selecting twice is selecting
  once (`ValuesWithout`). With `RestInv` (what an operation has shown and been called
  with before its effect) every step of a thread is one of the abstract list by that
  thread or changes nothing that can be seen outside (`Outside`): a value that is
  passed to the caller moves from what is to be shown to what has been shown
  (`ShowsFirst`, `ShowsRest`), and a node that is unlinked was not to be seen by
  anybody else (`Unlinks`) and counted no more (`Contents`).
* `BlockAlgorithmsProofs`, first about `Blocks`: the number of threads and the size of
  a block are at least one and at most the length; each block begins where the one
  before it ends, and every index is in exactly one. The non-linear facts about
  products and quotients are lemmas of their own. Then the algorithms: blocks that were begun are where `Blocks` says, and what
  they have come past neither throws nor matches (`BlockInv`); what the caller knows
  at each of its steps (`PhaseInv`); what `count` counts (`CountInv`), which needs
  that the blocks are disjoint; the flag follows the promise (`FindInv`). They give
  `EachOnce`, `NoStragglers` and `FindRight`.
* `SimplePoolProofs`: the owner's phase determines `done` and who may still run
  (`PhaseInv`); a pending task is at one position of the queue or with one worker
  (`PlaceInv`). They give `MembersAlive`, `FuturesSettled` and the refinement of
  `TaskPool`.
* `BalancedPoolProofs`: `mtx` keeps the workers out until the constructor is through
  (`MutexInv`), the number of deques follows the number of threads (`QueuesInv`),
  behind the joiner all workers have ended (`LifeInv`), and a pending task is still
  somewhere: in the pool's queue, a deque or a thread's hands (`PendingKept`). They
  give `QueuesFrozen`, `FuturesSettled`, and, if appending a deque does not throw,
  `MembersAlive`. The refinement of `TaskPool` needs that the places where a task can
  be are apart (`PlaceInv`): no task is twice in one queue, in two queues, or in a
  queue and in a thread's hands, so a steal takes what nobody else will run.
  That no pending task is lost follows from `PendingKept` (`NoneLost`).
  `EveryDequeTried` proves `RoundComplete`: a round of `pop_from_other_local_queue()`
  tries each deque exactly once, also for the owner, whose `my_index_` is -1 as an
  unsigned int, provided that the number of deques is at most half of the unsigned
  ints there are. (Beyond that, a worker's `my_index_ + i + 1` would wrap round too.)
* `AsyncFindProofs`: the calls form a tree; two ranges are nested or disjoint, and what
  lies below a call that split lies below one of its halves (`TreeInv`). What a leaf
  has passed holds nothing of interest (`LeafInv`); what a call knows of its halves at
  each step (`HalfInv`); an exception has a cause and a result matches
  (`ResultInv`). The point is `EndInv`: below a call that has ended everything has
  ended or was never started, and if anything below brings news, a match or an
  exception, so does the call. Since whoever raised the flag brings news (`DoneInv`),
  a search that was interrupted never reports the end of the range. They give
  `TypeOK`, `InterruptedHalf`, `FindRight` and `NoStragglers`.
* `ParallelSortProofs`: the calls of `do_sort` on all stacks form a tree. Each has
  partitioned its elements (`ShapeInv`), and two of them sort disjoint parts of the
  list or one works inside a part of the other (`TreeInv`). Each works for somebody
  (`LinkInv`): the call whose lower part it took, the call below it on the stack, whose
  higher part it is, or the caller. Nobody does work twice: while a lower part is being
  sorted its future is not ready and its chunk is not on the stack (`LowerInv`), a
  higher part is sorted only by a call straight above (`HigherInv`), and a chunk on the
  stack is waited for (`QueueInv`). Since the pivots name the futures, nobody may have
  touched the futures of a part that was not begun (`FreshInv`). What is ready is sorted
  (`ResultInv`); that a result put together from a sorted lower part, the pivot and a
  sorted higher part is sorted is the lemma `SortedJoin`. `StackStep` takes each action
  apart into changes of the top frame, pushes and pops, for which there is a lemma each.
  When the first call returns every other call would work inside one of its parts, so
  there is none (`LastOne`): this is what makes `NoStragglers` hold and `~sorter()`
  safe. They give `TypeOK` (no `get()` of a future that is not ready), `Sorted` and
  `NoStragglers`, for every number of elements, keys and threads and all four versions.
  `NoDeadlock` needs an invariant about who waits for whom (`WaitInv`). A part that a
  call still needs is there to be taken or being sorted (`NothingLost`), so a thread
  that cannot go on has a younger call on another stack to wait for. Younger is made
  precise without a history variable: the calls can be numbered so that on each stack
  the numbers rise and a call needs only calls with higher numbers (`InOrder`); a
  push extends the numbering with the next number, a pop restricts it. Of the top
  calls of a group that waits for itself, take the one with the largest number
  (`Largest`): the call it needs has a larger number, the top call of that stack one at
  least as large, and that stack is in the group too (`NobodyStuck`). The threads that hold the chunks' mutex never wait inside it, so the
  futures are all that is waited for.
  `IInv` is defined beside its proof; TLC found it invariant on the instance of
  `MCParallelSort`, and `NothingLost` and the absence of circles likewise.

Only checked by TLC: the liveness properties (fairness and ENABLED are outside the
prover).

## Not modelled

* `thread_guard` and `scoped_thread`: a destructor that joins one thread, used by
  their own demonstration only. `join_threads` is modelled wherever it is used.
* `threadsafe_stack`: its `push` and `pop(T&)` are steps of `ParallelSort`; `pop()`
  and `empty()` are called by the test program alone, the copy constructor by
  nobody. Each is one critical section of the one mutex.
* `function_wrapper`: its type erasure has no state; its moves are the `Run` of the
  pools.
* Exceptions of element types: comparisons in the sorts, assignments and copies in
  the containers. The element types in the repository do not throw.
* `std::thread` failing in `sorter`: nothing in the code handles it.
* Memory: the depth of nested frames (the repository's README reports crashes of the
  sorts for large inputs), and the recursion of a list's destructor.
* Two balanced pools at once, which share the `static thread_local` members.
* A predicate of the list that calls the list again.
* `num_buckets = 0`, which divides by zero: assumed away (`BucketAssumption`).
* `parallel_partial_sum` and `parallel_partial_sum_barrier`, whose bodies are empty;
  test programs, printing and build files.

The operations of `pool_work_queue`, `work_queue` and the stack are single steps of
the pools and sorts, because the queues implement an atomic FIFO (proved for both)
and the stack has one mutex.
