------------------------------ MODULE FifoQueue ------------------------------
(***************************************************************************)
(* What the two queues of threadsafe_queue.h promise their callers: every  *)
(* operation takes effect atomically, at one instant between its call and  *)
(* its return, on a first-in first-out sequence of values.                 *)
(*                                                                         *)
(* op[t] is the operation thread t has called, "done" once it has taken    *)
(* effect and "none" outside a call; val[t] is the argument of a push that *)
(* has not taken effect, or the answer of an operation that has.           *)
(***************************************************************************)
EXTENDS Sequences

CONSTANTS Thread, Value, Null

VARIABLES items, op, val

vars == <<items, op, val>>

Init == /\ items = <<>>
        /\ op = [t \in Thread |-> "none"]
        /\ val = [t \in Thread |-> Null]

\* Thread t's pending call takes effect and its answer is a.
Answer(t, a) == /\ op' = [op EXCEPT ![t] = "done"]
                /\ val' = [val EXCEPT ![t] = a]

CallPush(t, v) == /\ op[t] = "none"
                  /\ op' = [op EXCEPT ![t] = "push"]
                  /\ val' = [val EXCEPT ![t] = v]
                  /\ UNCHANGED items

Call(t, o) == /\ op[t] = "none"
              /\ op' = [op EXCEPT ![t] = o]
              /\ UNCHANGED <<items, val>>

Enqueue(t) == /\ op[t] = "push"
              /\ items' = Append(items, val[t])
              /\ Answer(t, Null)

Dequeue(t) == /\ op[t] \in {"try_pop", "wait_and_pop"}
              /\ items # <<>>
              /\ items' = Tail(items)
              /\ Answer(t, Head(items))

\* Only try_pop may come back with nothing, and only from an empty queue.
FindNothing(t) == /\ op[t] = "try_pop"
                  /\ items = <<>>
                  /\ Answer(t, Null)
                  /\ UNCHANGED items

TestEmpty(t) == /\ op[t] = "empty"
                /\ Answer(t, items = <<>>)
                /\ UNCHANGED items

Return(t) == /\ op[t] = "done"
             /\ op' = [op EXCEPT ![t] = "none"]
             /\ val' = [val EXCEPT ![t] = Null]
             /\ UNCHANGED items

Next == \E t \in Thread :
          \/ \E v \in Value : CallPush(t, v)
          \/ \E o \in {"try_pop", "wait_and_pop", "empty"} : Call(t, o)
          \/ Enqueue(t) \/ Dequeue(t) \/ FindNothing(t) \/ TestEmpty(t)
          \/ Return(t)

Spec == Init /\ [][Next]_vars
==============================================================================
