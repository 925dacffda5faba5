----------------------------- MODULE AtomicList -----------------------------
(***************************************************************************)
(* What threadsafe_list promises: every operation takes effect atomically, *)
(* at one instant between its call and its return, on a sequence of        *)
(* values, although no operation ever locks more than two nodes.           *)
(*                                                                         *)
(* res[t] is what thread t's operation has shown its caller: the values a  *)
(* traversal passed to the caller's function, or the answer of empty().    *)
(***************************************************************************)
EXTENDS Selection

CONSTANTS Thread, Value

VARIABLES items, op, arg, res

vars == <<items, op, arg, res>>

\* s without its elements in P.
Without(s, P) == Select(s, {k \in DOMAIN s : s[k] \notin P})

Init == /\ items = <<>>
        /\ op = [t \in Thread |-> "none"]
        /\ arg = [t \in Thread |-> {}]
        /\ res = [t \in Thread |-> <<>>]

\* A push has one value in its argument, a traversal the values that satisfy
\* its predicate.
Call(t, o, P) == /\ op[t] = "none"
                 /\ op' = [op EXCEPT ![t] = o]
                 /\ arg' = [arg EXCEPT ![t] = P]
                 /\ UNCHANGED <<items, res>>

Effect(t, o, r) == /\ op[t] = o
                   /\ op' = [op EXCEPT ![t] = "done"]
                   /\ arg' = [arg EXCEPT ![t] = {}]
                   /\ res' = [res EXCEPT ![t] = r]

PushFront(t) == /\ Effect(t, "push_front", <<>>)
                /\ \E v \in arg[t] : items' = <<v>> \o items

FindFirstIf(t) == /\ Effect(t, "find_first_if", UpToFirst(items, arg[t]))
                  /\ UNCHANGED items

RemoveIf(t) == /\ Effect(t, "remove_if", items)
               /\ items' = Without(items, arg[t])

Empty(t) == /\ Effect(t, "empty", << items = <<>> >>)
            /\ UNCHANGED items

Return(t) == /\ op[t] = "done"
             /\ op' = [op EXCEPT ![t] = "none"]
             /\ res' = [res EXCEPT ![t] = <<>>]
             /\ UNCHANGED <<items, arg>>

Next == \E t \in Thread :
          \/ \E v \in Value : Call(t, "push_front", {v})
          \/ \E o \in {"find_first_if", "remove_if"}, P \in SUBSET Value : Call(t, o, P)
          \/ Call(t, "empty", {})
          \/ PushFront(t) \/ FindFirstIf(t) \/ RemoveIf(t) \/ Empty(t) \/ Return(t)

Spec == Init /\ [][Next]_vars
=============================================================================
