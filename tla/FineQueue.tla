------------------------------ MODULE FineQueue ------------------------------
(***************************************************************************)
(* threadsafe_queue::queue<T>: a linked list whose last cell is a dummy,   *)
(* with one mutex for the head and one for the tail.  push() takes only    *)
(* tail_mtx_; the pops and empty() hold head_mtx_ and take tail_mtx_ for   *)
(* the instant in which get_tail() reads tail_.                            *)
(*                                                                         *)
(* The heap is a set Node of cells.  A cell outside live is free, and      *)
(* new may hand out a cell that was deleted before.  Each step of a thread *)
(* is one access to the shared state; op, val, own and seen are its local  *)
(* variables.  The finiteness of Node is the only bound on the model.      *)
(***************************************************************************)
EXTENDS Naturals, Sequences

CONSTANTS Thread,   \* the threads that use the queue
          Value,    \* the values of T
          Node,     \* the heap cells a node can be allocated in
          Calls,    \* Calls[t]: the operations thread t may call
          Null      \* the null pointer, a free mutex, no value

\* try_pop stands for try_pop() and try_pop_ref for try_pop(T&), which read
\* the value at different moments; both overloads of wait_and_pop read it at
\* the same one.
Op == {"push", "try_pop", "try_pop_ref", "wait_and_pop", "empty"}

ASSUME NullAssumption == Null \notin (Thread \cup Value \cup Node)
ASSUME NodeAssumption == Node # {}
ASSUME CallsAssumption == Calls \in [Thread -> SUBSET Op]

VARIABLES
  next,      \* next[n]: the cell n's unique_ptr next points to
  data,      \* data[n]: what n's shared_ptr data points to
  live,      \* the allocated cells
  head,      \* head_
  tail,      \* tail_
  headMtx,   \* the holder of head_mtx_
  tailMtx,   \* the holder of tail_mtx_
  pc,        \* pc[t]: the access thread t makes next
  op,        \* op[t]: the operation t is executing
  val,       \* val[t]: new_data of a push, value of a try_pop(T&)
  own,       \* own[t]: the cell of t's local unique_ptr (tmp, old_head)
  seen,      \* seen[t]: what get_tail() returned to t
  chain      \* history: the cells from head to tail, read by no guard

heap == <<next, data, live>>
ends == <<head, tail, chain>>
locals == <<op, val, own, seen>>
vars == <<heap, ends, headMtx, tailMtx, pc, locals>>

\* The constructor: one cell, which is the dummy, and both ends point to it.
Init == \E dummy \in Node :
  /\ next = [n \in Node |-> Null]
  /\ data = [n \in Node |-> Null]
  /\ live = {dummy}
  /\ head = dummy /\ tail = dummy /\ chain = <<dummy>>
  /\ headMtx = Null /\ tailMtx = Null
  /\ pc = [t \in Thread |-> "idle"]
  /\ op = [t \in Thread |-> "none"]
  /\ val = [t \in Thread |-> Null]
  /\ own = [t \in Thread |-> Null]
  /\ seen = [t \in Thread |-> Null]

Goto(t, from, to) == pc[t] = from /\ pc' = [pc EXCEPT ![t] = to]
------------------------------------------------------------------------------
(* push *)

\* The value and the new dummy are allocated before any lock is taken.
PushCall(t, v) ==
  /\ "push" \in Calls[t]
  /\ Goto(t, "idle", "lock_tail")
  /\ \E n \in Node \ live :
       /\ live' = live \cup {n}
       /\ next' = [next EXCEPT ![n] = Null]
       /\ data' = [data EXCEPT ![n] = Null]
       /\ own' = [own EXCEPT ![t] = n]
  /\ op' = [op EXCEPT ![t] = "push"]
  /\ val' = [val EXCEPT ![t] = v]
  /\ UNCHANGED <<ends, headMtx, tailMtx, seen>>

\* Seeded bug: push() takes no lock.
PushLockUnguarded(t) ==
  /\ Goto(t, "lock_tail", "set_data")
  /\ tailMtx' = t
  /\ UNCHANGED <<heap, ends, headMtx, locals>>

PushLock(t) ==
  /\ Goto(t, "lock_tail", "set_data")
  /\ tailMtx = Null
  /\ tailMtx' = t
  /\ UNCHANGED <<heap, ends, headMtx, locals>>

\* tail_->data = new_data
PushSetData(t) ==
  /\ Goto(t, "set_data", "set_next")
  /\ data' = [data EXCEPT ![tail] = val[t]]
  /\ UNCHANGED <<next, live, ends, headMtx, tailMtx, locals>>

\* Seeded bug: push() forgets to link the new cell.
PushSetNextUnlinked(t) ==
  /\ Goto(t, "set_next", "set_tail")
  /\ UNCHANGED <<heap, ends, headMtx, tailMtx, locals>>

\* tail_->next = std::move(tmp)
PushSetNext(t) ==
  /\ Goto(t, "set_next", "set_tail")
  /\ next' = [next EXCEPT ![tail] = own[t]]
  /\ UNCHANGED <<data, live, ends, headMtx, tailMtx, locals>>

\* tail_ = new_tail, and the end of the block that holds tail_mtx_.
PushSetTail(t) ==
  /\ Goto(t, "set_tail", "notify")
  /\ tail' = own[t]
  /\ chain' = Append(chain, own[t])
  /\ tailMtx' = Null
  /\ own' = [own EXCEPT ![t] = Null]
  /\ val' = [val EXCEPT ![t] = Null]
  /\ UNCHANGED <<heap, head, headMtx, op, seen>>

\* notify_all(), with no mutex held: whoever sleeps at this instant wakes up
\* and competes for head_mtx_; whoever is about to sleep does not hear it.
PushNotify(t) ==
  /\ pc[t] = "notify"
  /\ pc' = [u \in Thread |-> IF u = t THEN "idle"
                             ELSE IF pc[u] = "sleep" THEN "lock_head" ELSE pc[u]]
  /\ op' = [op EXCEPT ![t] = "none"]
  /\ UNCHANGED <<heap, ends, headMtx, tailMtx, val, own, seen>>
------------------------------------------------------------------------------
(* try_pop, wait_and_pop and empty *)

PopCall(t, o) ==
  /\ o \in Calls[t] \ {"push"}
  /\ Goto(t, "idle", "lock_head")
  /\ op' = [op EXCEPT ![t] = o]
  /\ UNCHANGED <<heap, ends, headMtx, tailMtx, val, own, seen>>

\* Seeded bug: the pops take no lock on the head.
LockHeadUnguarded(t) ==
  /\ Goto(t, "lock_head", "get_tail")
  /\ headMtx' = t
  /\ UNCHANGED <<heap, ends, tailMtx, locals>>

LockHead(t) ==
  /\ Goto(t, "lock_head", "get_tail")
  /\ headMtx = Null
  /\ headMtx' = t
  /\ UNCHANGED <<heap, ends, tailMtx, locals>>

\* get_tail(): tail_ can move on as soon as this step is over.
GetTail(t) ==
  /\ Goto(t, "get_tail", "compare")
  /\ tailMtx = Null
  /\ seen' = [seen EXCEPT ![t] = tail]
  /\ UNCHANGED <<heap, ends, headMtx, tailMtx, op, val, own>>

FoundEmpty(t) == head = seen[t]

\* try_pop() finds nothing, or empty() has its answer: unlock and return.
ReturnAnswer(t) ==
  /\ op[t] = "empty" \/ (op[t] \in {"try_pop", "try_pop_ref"} /\ FoundEmpty(t))
  /\ Goto(t, "compare", "idle")
  /\ headMtx' = Null
  /\ op' = [op EXCEPT ![t] = "none"]
  /\ seen' = [seen EXCEPT ![t] = Null]
  /\ UNCHANGED <<heap, ends, tailMtx, val, own>>

\* data_cond_.wait(uniqueLock): releases head_mtx_ and sleeps in one step.
Wait(t) ==
  /\ op[t] = "wait_and_pop" /\ FoundEmpty(t)
  /\ Goto(t, "compare", "sleep")
  /\ headMtx' = Null
  /\ seen' = [seen EXCEPT ![t] = Null]
  /\ UNCHANGED <<heap, ends, tailMtx, op, val, own>>

\* A condition variable may wake up without a notification.
SpuriousWakeup(t) ==
  /\ Goto(t, "sleep", "lock_head")
  /\ UNCHANGED <<heap, ends, headMtx, tailMtx, locals>>

\* The emptiness test failed.  try_pop(T&) copies *head_->data first.
FindElement(t) ==
  /\ op[t] # "empty" /\ ~FoundEmpty(t)
  /\ Goto(t, "compare", "pop_head")
  /\ val' = [val EXCEPT ![t] = IF op[t] = "try_pop_ref" THEN data[head] ELSE Null]
  /\ seen' = [seen EXCEPT ![t] = Null]
  /\ UNCHANGED <<heap, ends, headMtx, tailMtx, op, own>>

\* pop_head(): the old head moves to a local unique_ptr.  try_pop_head() then
\* returns, which releases head_mtx_; wait_and_pop() keeps it.
PopHead(t) ==
  /\ Goto(t, "pop_head", "take")
  /\ own' = [own EXCEPT ![t] = head]
  /\ head' = next[head]
  /\ next' = [next EXCEPT ![head] = Null]
  /\ chain' = Tail(chain)
  /\ headMtx' = IF op[t] = "wait_and_pop" THEN headMtx ELSE Null
  /\ UNCHANGED <<data, live, tail, tailMtx, op, val, seen>>

\* Seeded bug: wait_and_pop() returns with head_mtx_ held.
TakeStaysLocked(t) ==
  /\ Goto(t, "take", "idle")
  /\ live' = live \ {own[t]}
  /\ data' = [data EXCEPT ![own[t]] = Null]
  /\ own' = [own EXCEPT ![t] = Null]
  /\ val' = [val EXCEPT ![t] = Null]
  /\ op' = [op EXCEPT ![t] = "none"]
  /\ UNCHANGED <<next, ends, headMtx, tailMtx, seen>>

\* Seeded bug: the cell is not deleted.
TakeLeaks(t) ==
  /\ Goto(t, "take", "idle")
  /\ own' = [own EXCEPT ![t] = Null]
  /\ val' = [val EXCEPT ![t] = Null]
  /\ op' = [op EXCEPT ![t] = "none"]
  /\ headMtx' = IF op[t] = "wait_and_pop" THEN Null ELSE headMtx
  /\ UNCHANGED <<heap, ends, tailMtx, seen>>

\* The caller gets the value (Taken), then old_head deletes its cell.
Take(t) ==
  /\ Goto(t, "take", "idle")
  /\ live' = live \ {own[t]}
  /\ data' = [data EXCEPT ![own[t]] = Null]
  /\ own' = [own EXCEPT ![t] = Null]
  /\ val' = [val EXCEPT ![t] = Null]
  /\ op' = [op EXCEPT ![t] = "none"]
  /\ headMtx' = IF op[t] = "wait_and_pop" THEN Null ELSE headMtx
  /\ UNCHANGED <<next, ends, tailMtx, seen>>

\* The value t's pop hands to its caller: try_pop(T&) has copied it already,
\* the other overloads read old_head->data now.
Taken(t) == IF op[t] = "try_pop_ref" THEN val[t] ELSE data[own[t]]
------------------------------------------------------------------------------
Start(t) == \/ \E v \in Value : PushCall(t, v)
            \/ \E o \in Op : PopCall(t, o)

PushStep(t) == \/ PushLock(t) \/ PushSetData(t) \/ PushSetNext(t)
               \/ PushSetTail(t) \/ PushNotify(t)

PopStep(t) == \/ LockHead(t) \/ GetTail(t) \/ ReturnAnswer(t) \/ Wait(t)
              \/ FindElement(t) \/ PopHead(t) \/ Take(t)

Step(t) == PushStep(t) \/ PopStep(t)

Next == \E t \in Thread : Start(t) \/ Step(t) \/ SpuriousWakeup(t)

Spec == Init /\ [][Next]_vars

(* A thread inside an operation keeps running, and no thread waits forever *)
(* for a mutex that is released again and again.  Calling an operation and *)
(* waking up spuriously are never owed.                                    *)
FairSpec == Spec /\ \A t \in Thread : SF_vars(Step(t))
------------------------------------------------------------------------------
(* Properties *)

PcLabel == {"idle", "lock_tail", "set_data", "set_next", "set_tail", "notify",
            "lock_head", "get_tail", "compare", "pop_head", "take", "sleep"}

\* Types.  head_ and tail_ always point to a cell, even in an empty queue:
\* a pop that ran past the dummy would leave head_ null.
TypeOK ==
  /\ next \in [Node -> Node \cup {Null}]
  /\ data \in [Node -> Value \cup {Null}]
  /\ live \in SUBSET Node
  /\ head \in Node /\ tail \in Node /\ chain \in Seq(Node)
  /\ headMtx \in Thread \cup {Null} /\ tailMtx \in Thread \cup {Null}
  /\ pc \in [Thread -> PcLabel]
  /\ op \in [Thread -> Op \cup {"none"}]
  /\ val \in [Thread -> Value \cup {Null}]
  /\ own \in [Thread -> Node \cup {Null}]
  /\ seen \in [Thread -> Node \cup {Null}]

InChain == {chain[i] : i \in 1..Len(chain)}

\* The list is never broken: from head_ the next pointers lead to tail_ through
\* distinct cells, and every cell before the dummy holds a value.
ListIntact ==
  /\ Len(chain) > 0 /\ chain[1] = head /\ chain[Len(chain)] = tail
  /\ \A i \in 1..Len(chain) - 1 : next[chain[i]] = chain[i + 1] /\ data[chain[i]] \in Value
  /\ \A i, j \in 1..Len(chain) : chain[i] = chain[j] => i = j

\* Every allocated cell has exactly one owner: it is in the list, or in the
\* local unique_ptr of one thread.  So no thread follows a pointer into a
\* deleted cell, no cell is deleted twice and none is leaked.
OneOwner ==
  /\ live = InChain \cup {own[t] : t \in {u \in Thread : own[u] # Null}}
  /\ \A t \in Thread : own[t] \notin InChain
  /\ \A t, u \in Thread : own[t] = own[u] /\ own[t] # Null => t = u

\* The cells whose fields thread t's next access reads or writes.
Touches(t) ==
  CASE pc[t] \in {"set_data", "set_next"} -> {tail}
    [] pc[t] = "pop_head" -> {head}
    [] pc[t] = "compare" /\ op[t] # "empty" /\ ~FoundEmpty(t) -> {head}
    [] pc[t] = "take" -> {own[t]}
    [] OTHER -> {}

\* push() and the pops hold different mutexes, yet never touch the same cell
\* at the same time: a popper that saw head_ # get_tail() works on a cell that
\* no pusher will write again, although its copy of tail_ may be stale.
NoDataRace == \A t, u \in Thread : t # u => Touches(t) \cap Touches(u) = {}

(* The inductive invariant: what the locks protect while they are held. *)
HoldsHead(t) == \/ pc[t] \in {"get_tail", "compare", "pop_head"}
                \/ pc[t] = "take" /\ op[t] = "wait_and_pop"
HoldsTail(t) == pc[t] \in {"set_data", "set_next", "set_tail"}
LockInv == \A t \in Thread : /\ HoldsHead(t) <=> headMtx = t
                             /\ HoldsTail(t) <=> tailMtx = t

Pushing(t) == pc[t] = "lock_tail" \/ HoldsTail(t)
LocalInv == \A t \in Thread :
  /\ own[t] # Null <=> Pushing(t) \/ pc[t] = "take"
  /\ Pushing(t) => val[t] \in Value
  /\ pc[t] \in {"set_next", "set_tail"} => data[tail] \in Value
  /\ pc[t] = "set_tail" => next[tail] = own[t]
  /\ pc[t] = "compare" => seen[t] \in InChain
  /\ pc[t] = "pop_head" => Len(chain) > 1 /\ op[t] # "empty"

\* All of the above at once: together they are preserved by every step.
IInv == TypeOK /\ ListIntact /\ OneOwner /\ LockInv /\ LocalInv

(* The queue implements FifoQueue: a push takes effect at tail_ = new_tail, *)
(* a pop at head_ = next, and try_pop() and empty() on an empty queue in    *)
(* get_tail().  The answer of a pop is what Take will hand out, so a cell   *)
(* overwritten or deleted between unlinking and reading it would show.      *)
Answered(t) == \/ pc[t] \in {"notify", "take"}
               \/ /\ pc[t] = "compare"
                  /\ op[t] = "empty" \/ (op[t] \in {"try_pop", "try_pop_ref"} /\ FoundEmpty(t))

absItems == [i \in 1..Len(chain) - 1 |-> data[chain[i]]]
absOp == [t \in Thread |-> IF Answered(t) THEN "done"
                           ELSE IF op[t] = "try_pop_ref" THEN "try_pop" ELSE op[t]]
absVal == [t \in Thread |-> IF pc[t] = "take" THEN Taken(t)
                            ELSE IF pc[t] = "compare" /\ op[t] = "empty" THEN FoundEmpty(t)
                            ELSE IF pc[t] = "pop_head" THEN Null ELSE val[t]]

Fifo == INSTANCE FifoQueue WITH items <- absItems, op <- absOp, val <- absVal

ImplementsFifo == Fifo!Spec

\* The thread t has to wait for, if any: the holder of the mutex it is to lock.
WaitsFor(t) == CASE pc[t] = "lock_head" -> headMtx
                 [] pc[t] \in {"lock_tail", "get_tail"} -> tailMtx
                 [] OTHER -> Null

\* No call hangs on a mutex.  head_mtx_ is held while tail_mtx_ is locked, but
\* not the reverse: whoever is waited for can go on, or waits for someone who
\* can; nobody returns or sleeps with a mutex.
NoDeadlock == \A t \in Thread : WaitsFor(t) # Null =>
  LET u == WaitsFor(t)
      v == IF WaitsFor(u) = Null THEN u ELSE WaitsFor(u)
  IN pc[u] \notin {"idle", "sleep"} /\ pc[v] \notin {"idle", "sleep"} /\ WaitsFor(v) = Null

\* What the consumer test counts on: while a consumer sleeps in wait_and_pop(),
\* the element at the front of the queue does not stay there for ever.
FrontDelivered ==
  \A n \in Node : (head = n /\ n # tail /\ \E t \in Thread : pc[t] = "sleep") ~> head # n
==============================================================================
