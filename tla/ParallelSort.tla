---------------------------- MODULE ParallelSort ----------------------------
(***************************************************************************)
(* The four versions of quicksort.  Each call sorts the elements that are  *)
(* not less than its pivot itself, by recursion; they differ in who sorts  *)
(* the lower part:                                                         *)
(*   sequential  the call itself, first;                                   *)
(*   futures     std::async, on a thread of its own or, if deferred, the   *)
(*               call when it gets the future;                             *)
(*   pool        a task of a thread_pool_balanced_job (sorter_pool);       *)
(*   chunk       a chunk on a threadsafe_stack, for threads that the calls *)
(*               start as they go (sorter).                                *)
(* In the last two a call that waits for its lower part sorts others in    *)
(* the meantime, nested on its own stack of frames.                        *)
(*                                                                         *)
(* A list is the set of its elements, since std::partition may leave them  *)
(* in any order: any element may be the first one and so the pivot.  Each  *)
(* element is the pivot of one call, and its name.                         *)
(***************************************************************************)
EXTENDS Naturals, Sequences, FiniteSets

CONSTANTS Elem,      \* the elements there are
          Key,       \* what operator< compares; two elements may have the same key
          Kind,      \* the versions to consider
          Main,      \* the thread that calls the sort
          Worker,    \* the threads there may be, a bound on those a sorter starts
          Hardware,  \* std::thread::hardware_concurrency()
          Pending,   \* a future that is not ready
          Null       \* nobody

ASSUME KeyAssumption == Key \in [Elem -> Nat]
ASSUME KindAssumption == Kind \subseteq {"sequential", "futures", "pool", "chunk"}
ASSUME HardwareAssumption == Hardware \in Nat
ASSUME FiniteAssumption == IsFiniteSet(Worker)
ASSUME NameAssumption == /\ Main \notin Worker /\ Null \notin Worker \cup {Main} \cup Elem
                         /\ Pending \notin Seq(Elem)

Thread == Worker \cup {Main}

VARIABLES
  kind,    \* which version runs
  input,   \* the elements of the list to be sorted
  main,    \* what quicksort_using_...() does
  frames,  \* frames[t]: the calls of do_sort on the stack of thread t
  queue,   \* the lower parts nobody has taken yet
  fut,     \* fut[e]: the future of the lower part of the call whose pivot is e
  state,   \* state[w]: where worker w is in its loop
  threads, \* the size of the sorter's vector threads
  mtx,     \* the holder of the sorter's mtx
  done,    \* the flag that ends the workers
  output   \* the sorted list

vars == <<kind, input, main, frames, queue, fut, state, threads, mtx, done, output>>

Init == /\ kind \in Kind
        /\ input \in SUBSET Elem
        /\ main = "call"
        /\ frames = [t \in Thread |-> <<>>]
        /\ queue = <<>>
        /\ fut = [e \in Elem |-> Pending]
        /\ state = [w \in Worker |-> IF kind = "pool" THEN "loop" ELSE "none"]
        /\ threads = 0 /\ mtx = Null /\ done = FALSE
        /\ output = <<>>
-----------------------------------------------------------------------------
(* Frames *)

Top(t) == frames[t][Len(frames[t])]
Below(t) == SubSeq(frames[t], 1, Len(frames[t]) - 1)
At(t, pc) == frames[t] # <<>> /\ Top(t).pc = pc

\* Seeded bug: elements with the pivot's key are lost.
NewFrameStrict(e, C, job) ==
  [pivot |-> e, job |-> job, pc |-> "submit", res |-> <<>>,
   lower  |-> {x \in C : Key[x] < Key[e]},
   higher |-> {x \in C : Key[x] > Key[e]}]

\* A call for the elements C begins: the pivot is taken off the list and the
\* rest partitioned.  job is the call whose lower part this is, if it is one.
NewFrame(e, C, job) ==
  [pivot |-> e, job |-> job, pc |-> "submit", res |-> <<>>,
   lower  |-> {x \in C \ {e} : Key[x] < Key[e]},
   higher |-> {x \in C \ {e} : Key[x] >= Key[e]}]

Goto(t, pc) == frames' = [frames EXCEPT ![t][Len(frames[t])].pc = pc]

\* sort_chunk(): an empty chunk is done at once, another one is a call above
\* the frames fs.
Sort(t, fs, j) ==
  IF j.data = {}
  THEN /\ fut' = [fut EXCEPT ![j.of] = <<>>]
       /\ frames' = [frames EXCEPT ![t] = fs]
  ELSE /\ \E e \in j.data : frames' = [frames EXCEPT ![t] = Append(fs, NewFrame(e, j.data, j.of))]
       /\ UNCHANGED fut

\* The frames of t after its top frame went on to pc.
GoneOn(t, pc) == Append(Below(t), [Top(t) EXCEPT !.pc = pc])
-----------------------------------------------------------------------------
(* do_sort(): the lower part *)

Lower(t) == [of |-> Top(t).pivot, data |-> Top(t).lower]

SortLower(t) == /\ kind = "sequential" /\ At(t, "submit")
                /\ Sort(t, GoneOn(t, "higher"), Lower(t))
                /\ UNCHANGED <<kind, input, main, queue, state, threads, mtx, done, output>>

AsyncLower(t) == /\ kind = "futures" /\ At(t, "submit")
                 /\ queue' = Append(queue, Lower(t))
                 /\ Goto(t, "higher")
                 /\ UNCHANGED <<kind, input, main, fut, state, threads, mtx, done, output>>

SubmitLower(t) == /\ kind = "pool" /\ At(t, "submit")
                  /\ queue' = Append(queue, Lower(t))
                  /\ Goto(t, "higher")
                  /\ UNCHANGED <<kind, input, main, fut, state, threads, mtx, done, output>>

\* stack.push(): takes the stack's mutex for one step.
StackPush(c) == queue' = Append(queue, c)

PushChunk(t) == /\ kind = "chunk" /\ At(t, "submit")
                /\ StackPush(Lower(t))
                /\ Goto(t, "size")
                /\ UNCHANGED <<kind, input, main, fut, state, threads, mtx, done, output>>

\* The model has a thread left for everyone who is about to start one.
Room == threads + Cardinality({u \in Thread : At(u, "spawn") \/ At(u, "append")})
          < Cardinality(Worker)

\* max_threads_num is an int, and -1 is the largest size_t.
BelowLimit == Hardware = 0 \/ threads < Hardware - 1

\* threads.size() is read without mtx.  While another thread appends, the read
\* is a data race and may give any answer.
ReadSize(t) == /\ At(t, "size")
               /\ \E b \in IF mtx = Null THEN {BelowLimit} ELSE BOOLEAN :
                    Goto(t, IF b /\ Room THEN "spawn" ELSE "higher")
               /\ UNCHANGED <<kind, input, main, queue, fut, state, threads, mtx, done, output>>

Append1(t) == /\ At(t, "spawn") /\ mtx = Null
              /\ mtx' = t
              /\ Goto(t, "append")
              /\ UNCHANGED <<kind, input, main, queue, fut, state, threads, done, output>>

\* threads.emplace_back() has started the thread, which waits for nobody.
Append2(t) == /\ At(t, "append")
              /\ \E w \in Worker : state[w] = "none" /\ state' = [state EXCEPT ![w] = "loop"]
              /\ threads' = threads + 1
              /\ mtx' = Null
              /\ Goto(t, "higher")
              /\ UNCHANGED <<kind, input, main, queue, fut, done, output>>
-----------------------------------------------------------------------------
(* do_sort(): the higher part, and the wait for the lower one *)

CallHigher(t) == /\ At(t, "higher")
                 /\ LET f == Top(t) IN
                      IF f.higher = {} THEN Goto(t, "wait")
                      ELSE \E e \in f.higher :
                             frames' = [frames EXCEPT ![t] = Append(@, NewFrame(e, f.higher, Null))]
                 /\ UNCHANGED <<kind, input, main, queue, fut, state, threads, mtx, done, output>>

\* new_lower.wait_for(0): go on, or help.
TestFuture(t) == /\ At(t, "wait")
                 /\ Goto(t, IF fut[Top(t).pivot] # Pending THEN "get" ELSE "help")
                 /\ UNCHANGED <<kind, input, main, queue, fut, state, threads, mtx, done, output>>

\* stack.pop(): false if the stack is empty, else the chunk pushed last.
StackTop == {Len(queue)} \cap DOMAIN queue

\* Seeded bug: a call waits for its lower part without helping.
MayTakeNothing(t) == IF frames[t] # <<>> THEN {} ELSE DOMAIN queue

\* The lower parts thread t may take: the stack gives the last one, the pool
\* any (from a deque's end or the queue's front); a future is either run by a
\* thread of its own or by the call that gets it.
MayTake(t) == CASE kind = "chunk" -> StackTop
                [] kind = "pool" -> DOMAIN queue
                [] kind = "futures" /\ frames[t] = <<>> -> DOMAIN queue
                [] OTHER -> {k \in DOMAIN queue : queue[k].of = Top(t).pivot}

\* Seeded bug: what is taken is not removed.
StaysThere(s, k) == s

Without(s, k) == SubSeq(s, 1, k - 1) \o SubSeq(s, k + 1, Len(s))

Take(t, fs) == \E k \in MayTake(t) : /\ Sort(t, fs, queue[k])
                                     /\ queue' = Without(queue, k)

\* try_sort_chunk(), run_pending_task(), or get() of a deferred future.
Help(t) == /\ At(t, "help")
           /\ \/ Take(t, GoneOn(t, "wait"))
              \/ MayTake(t) = {} /\ Goto(t, "wait") /\ UNCHANGED <<queue, fut>>
           /\ UNCHANGED <<kind, input, main, state, threads, mtx, done, output>>

Result(f) == fut[f.pivot] \o <<f.pivot>> \o f.res

\* The call returns to the loop that took its part, whose promise it keeps; to
\* the call below, as new_higher; or to quicksort_using_...().
Return(t) ==
  /\ At(t, "get")
  /\ LET f == Top(t)
         fs == Below(t)
     IN IF f.job # Null
        THEN /\ fut' = [fut EXCEPT ![f.job] = Result(f)]
             /\ frames' = [frames EXCEPT ![t] = fs]
             /\ UNCHANGED <<main, output>>
        ELSE IF fs # <<>>
        THEN /\ frames' = [frames EXCEPT ![t] = [fs EXCEPT ![Len(fs)].res = Result(f),
                                                          ![Len(fs)].pc = "wait"]]
             /\ UNCHANGED <<fut, main, output>>
        ELSE /\ output' = Result(f)
             /\ frames' = [frames EXCEPT ![t] = fs]
             /\ main' = IF kind \in {"pool", "chunk"} THEN "dtor" ELSE "return"
             /\ UNCHANGED fut
  /\ UNCHANGED <<kind, input, queue, state, threads, mtx, done>>
-----------------------------------------------------------------------------
(* quicksort_using_...() and the destructor of its sorter *)

Call == /\ main = "call"
        /\ IF input = {} THEN main' = "return" /\ UNCHANGED frames
           ELSE /\ main' = "sort"
                /\ \E e \in input : frames' = [frames EXCEPT ![Main] = <<NewFrame(e, input, Null)>>]
        /\ UNCHANGED <<kind, input, queue, fut, state, threads, mtx, done, output>>

\* Seeded bug: the destructor joins the threads without telling them to end.
CloseOnly == /\ main = "dtor"
             /\ main' = "join"
             /\ UNCHANGED <<kind, input, frames, queue, fut, state, threads, mtx, done, output>>

Close == /\ main = "dtor"
         /\ main' = "join" /\ done' = TRUE
         /\ UNCHANGED <<kind, input, frames, queue, fut, state, threads, mtx, output>>

Join == /\ main = "join" /\ \A w \in Worker : state[w] \in {"none", "exit"}
        /\ main' = "return"
        /\ UNCHANGED <<kind, input, frames, queue, fut, state, threads, mtx, done, output>>
-----------------------------------------------------------------------------
(* sort_thread() and the workers of the pool *)

CheckDone(w) == /\ state[w] = "loop" /\ frames[w] = <<>>
                /\ state' = [state EXCEPT ![w] = IF done THEN "exit" ELSE "try"]
                /\ UNCHANGED <<kind, input, main, frames, queue, fut, threads, mtx, done, output>>

Try(w) == /\ state[w] = "try"
          /\ state' = [state EXCEPT ![w] = "loop"]
          /\ \/ Take(w, <<>>)
             \/ MayTake(w) = {} /\ UNCHANGED <<frames, queue, fut>>
          /\ UNCHANGED <<kind, input, main, threads, mtx, done, output>>

\* A thread std::async() has started.
AsyncThread(w) == /\ kind = "futures" /\ frames[w] = <<>>
                  /\ Take(w, <<>>)
                  /\ UNCHANGED <<kind, input, main, state, threads, mtx, done, output>>
-----------------------------------------------------------------------------
DoSort(t) == \/ SortLower(t) \/ AsyncLower(t) \/ SubmitLower(t)
             \/ PushChunk(t) \/ ReadSize(t) \/ Append1(t) \/ Append2(t)
             \/ CallHigher(t) \/ TestFuture(t) \/ Help(t) \/ Return(t)

MainStep == Call \/ DoSort(Main) \/ Close \/ Join

WorkerStep(w) == DoSort(w) \/ CheckDone(w) \/ Try(w) \/ AsyncThread(w)

Next == MainStep \/ \E w \in Worker : WorkerStep(w)

Spec == Init /\ [][Next]_vars

(* Every thread is scheduled again and again.                              *)
FairSpec == Spec /\ WF_vars(MainStep) /\ \A w \in Worker : WF_vars(WorkerStep(w))
-----------------------------------------------------------------------------
(* Properties *)

Frame == [pivot : Elem, job : Elem \cup {Null}, res : Seq(Elem),
          pc : {"submit", "size", "spawn", "append", "higher", "wait", "help", "get"},
          lower : SUBSET Elem, higher : SUBSET Elem]

\* Types; in particular get() is called on futures that are ready only.
TypeOK ==
  /\ kind \in Kind /\ input \in SUBSET Elem
  /\ main \in {"call", "sort", "dtor", "join", "return"}
  /\ frames \in [Thread -> Seq(Frame)]
  /\ queue \in Seq([of : Elem, data : SUBSET Elem])
  /\ fut \in [Elem -> Seq(Elem) \cup {Pending}]
  /\ state \in [Worker -> {"none", "loop", "try", "exit"}]
  /\ threads \in 0..Cardinality(Worker)
  /\ mtx \in Thread \cup {Null} /\ done \in BOOLEAN
  /\ output \in Seq(Elem)
  /\ \A t \in Thread : At(t, "get") => fut[Top(t).pivot] # Pending

Ended == main \in {"dtor", "join", "return"}

\* The list that is returned holds every element of the input once, in order,
\* whichever threads sorted its parts.
Sorted ==
  Ended => /\ Len(output) = Cardinality(input)
           /\ {output[k] : k \in DOMAIN output} = input
           /\ \A k \in 1..Len(output) - 1 : Key[output[k]] <= Key[output[k + 1]]

\* When the root call returns nobody works for it any more.  The destructor of
\* sorter runs through threads without mtx: no other thread may still append to
\* it, nor take a chunk off a stack that is about to be destroyed.
NoStragglers ==
  Ended => queue = <<>> /\ mtx = Null /\ \A t \in Thread : frames[t] = <<>>

\* A thread that cannot go on, and those it waits for: the one that holds mtx, or the
\* one that sorts the lower part of its top call.
Blocked(t) ==
  \/ At(t, "spawn") /\ mtx # Null
  \/ (At(t, "wait") \/ At(t, "help")) /\ fut[Top(t).pivot] = Pending /\ MayTake(t) = {}

WaitsFor(t) ==
  IF At(t, "spawn") THEN {mtx}
  ELSE {u \in Thread : \E k \in DOMAIN frames[u] : frames[u][k].job = Top(t).pivot}

\* However the threads have nested each other's parts on their stacks while they
\* waited, no group of them waits for each other only, and none needs a thread that is
\* idle: there may be no worker at all.
NoDeadlock ==
  \A S \in (SUBSET Thread) \ {{}} : \E t \in S : ~Blocked(t) \/ ~(WaitsFor(t) \subseteq S)

\* Every call ends, and with it the sort: threads that are scheduled again and again do
\* not only never wait in a circle, they find the parts they need and run out of them.
Termination == <>(main = "return")
=============================================================================
