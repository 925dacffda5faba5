----------------------------- MODULE LockedQueue -----------------------------
(***************************************************************************)
(* threadsafe_queue::threadsafe_queue<T>: a std::queue under one mutex.    *)
(* push() notifies while it holds the mutex, so no waiter can be between   *)
(* its test and its sleep when the notification is sent.                   *)
(*                                                                         *)
(* Each step of a thread is one access to data_ or mtx_.  The overloads of *)
(* one operation make the same accesses and share their actions.           *)
(***************************************************************************)
EXTENDS Naturals, Sequences

CONSTANTS Thread, Value, Null,
          Calls,     \* Calls[t]: the operations thread t may call
          Capacity   \* bound of the model: pushes are called while the queue is shorter

Op == {"push", "try_pop", "wait_and_pop", "empty"}

ASSUME NullAssumption == Null \notin Thread \cup Value
ASSUME CallsAssumption == Calls \in [Thread -> SUBSET Op] /\ Capacity \in Nat

VARIABLES
  data,  \* data_
  mtx,   \* the holder of mtx_
  pc,    \* pc[t]: the access thread t makes next
  op,    \* op[t]: the operation t is executing
  val    \* val[t]: the argument of a push, or the result t's pop will return

vars == <<data, mtx, pc, op, val>>

Init == /\ data = <<>>
        /\ mtx = Null
        /\ pc = [t \in Thread |-> "idle"]
        /\ op = [t \in Thread |-> "none"]
        /\ val = [t \in Thread |-> Null]

Goto(t, from, to) == pc[t] = from /\ pc' = [pc EXCEPT ![t] = to]

CallPush(t, v) == /\ "push" \in Calls[t] /\ Len(data) < Capacity
                  /\ Goto(t, "idle", "lock")
                  /\ op' = [op EXCEPT ![t] = "push"]
                  /\ val' = [val EXCEPT ![t] = v]
                  /\ UNCHANGED <<data, mtx>>

Call(t, o) == /\ o \in Calls[t] \ {"push"}
              /\ Goto(t, "idle", "lock")
              /\ op' = [op EXCEPT ![t] = o]
              /\ UNCHANGED <<data, mtx, val>>

Lock(t) == /\ mtx = Null /\ Goto(t, "lock", "body")
           /\ mtx' = t
           /\ UNCHANGED <<data, op, val>>

\* Seeded bug: the new element goes to the wrong end.
PushFront(t) == /\ op[t] = "push" /\ Goto(t, "body", "notify")
                /\ data' = <<val[t]>> \o data
                /\ val' = [val EXCEPT ![t] = Null]
                /\ UNCHANGED <<mtx, op>>

PushBack(t) == /\ op[t] = "push" /\ Goto(t, "body", "notify")
               /\ data' = Append(data, val[t])
               /\ val' = [val EXCEPT ![t] = Null]
               /\ UNCHANGED <<mtx, op>>

\* Seeded bug: push() notifies nobody.
NotifyNobody(t) == /\ Goto(t, "notify", "idle")
                   /\ mtx' = Null
                   /\ op' = [op EXCEPT ![t] = "none"]
                   /\ UNCHANGED <<data, val>>

\* notify_all(), then the guard unlocks mtx_; the sleepers queue up for it.
Notify(t) ==
  /\ pc[t] = "notify"
  /\ pc' = [u \in Thread |-> IF u = t THEN "idle"
                             ELSE IF pc[u] = "sleep" THEN "lock" ELSE pc[u]]
  /\ mtx' = Null
  /\ op' = [op EXCEPT ![t] = "none"]
  /\ UNCHANGED <<data, val>>

FindNothing(t) == /\ op[t] = "try_pop" /\ data = <<>> /\ Goto(t, "body", "return")
                  /\ mtx' = Null
                  /\ UNCHANGED <<data, op, val>>

TestEmpty(t) == /\ op[t] = "empty" /\ Goto(t, "body", "return")
                /\ val' = [val EXCEPT ![t] = data = <<>>]
                /\ mtx' = Null
                /\ UNCHANGED <<data, op>>

\* data_cond_.wait(uniqueLock): releases mtx_ and sleeps in one step.
Wait(t) == /\ op[t] = "wait_and_pop" /\ data = <<>> /\ Goto(t, "body", "sleep")
           /\ mtx' = Null
           /\ UNCHANGED <<data, op, val>>

SpuriousWakeup(t) == Goto(t, "sleep", "lock") /\ UNCHANGED <<data, mtx, op, val>>

\* The result is read from data_.front() ...
Front(t) == /\ op[t] \in {"try_pop", "wait_and_pop"} /\ data # <<>> /\ Goto(t, "body", "pop")
            /\ val' = [val EXCEPT ![t] = Head(data)]
            /\ UNCHANGED <<data, mtx, op>>

\* ... and only then is the element removed, all under one lock.
Pop(t) == /\ Goto(t, "pop", "return")
          /\ data' = Tail(data)
          /\ mtx' = Null
          /\ UNCHANGED <<op, val>>

Return(t) == /\ Goto(t, "return", "idle")
             /\ op' = [op EXCEPT ![t] = "none"]
             /\ val' = [val EXCEPT ![t] = Null]
             /\ UNCHANGED <<data, mtx>>
------------------------------------------------------------------------------
Start(t) == (\E v \in Value : CallPush(t, v)) \/ (\E o \in Op : Call(t, o))

Step(t) == \/ Lock(t) \/ PushBack(t) \/ Notify(t) \/ FindNothing(t) \/ TestEmpty(t)
           \/ Wait(t) \/ Front(t) \/ Pop(t) \/ Return(t)

Next == \E t \in Thread : Start(t) \/ Step(t) \/ SpuriousWakeup(t)

Spec == Init /\ [][Next]_vars

------------------------------------------------------------------------------
(* Properties *)

PcLabel == {"idle", "lock", "body", "notify", "sleep", "pop", "return"}

\* Types, and the length the bound on pushes allows.
TypeOK == /\ data \in Seq(Value)
          /\ mtx \in Thread \cup {Null}
          /\ pc \in [Thread -> PcLabel]
          /\ op \in [Thread -> Op \cup {"none"}]
          /\ val \in [Thread -> Value \cup BOOLEAN \cup {Null}]

\* What the mutex protects: between front() and pop() nobody else changes
\* data_, so the element removed is the one the caller gets.
LockInv == \A t \in Thread :
  /\ pc[t] \in {"body", "notify", "pop"} <=> mtx = t
  /\ pc[t] = "pop" => data # <<>> /\ val[t] = Head(data)

\* No wakeup is lost: a thread sleeps beside a queue with elements only while
\* the push that will wake it still holds the mutex.
NoLostWakeup ==
  data # <<>> /\ (\E t \in Thread : pc[t] = "sleep") => \E t \in Thread : pc[t] = "notify"

\* What the operation and the arguments of a thread are at each point.
LocalInv == \A t \in Thread :
  /\ pc[t] = "idle" <=> op[t] = "none"
  /\ pc[t] = "sleep" => op[t] = "wait_and_pop"
  /\ pc[t] = "notify" => op[t] = "push"
  /\ pc[t] = "pop" => op[t] \in {"try_pop", "wait_and_pop"}
  /\ pc[t] \in {"lock", "body"} /\ op[t] = "push" => val[t] \in Value
  /\ pc[t] \in {"idle", "notify", "sleep"} => val[t] = Null
  /\ pc[t] \in {"lock", "body"} /\ op[t] # "push" => val[t] = Null

IInv == TypeOK /\ LockInv /\ NoLostWakeup /\ LocalInv

(* The queue implements FifoQueue: push takes effect at data_.push(), the  *)
(* pops at data_.pop(), the others at their test of data_.empty().         *)
absOp == [t \in Thread |-> IF pc[t] \in {"notify", "return"} THEN "done" ELSE op[t]]
absVal == [t \in Thread |-> IF pc[t] = "pop" THEN Null ELSE val[t]]

Fifo == INSTANCE FifoQueue WITH items <- data, op <- absOp, val <- absVal

ImplementsFifo == Fifo!Spec
==============================================================================
