------------------------------ MODULE TaskPool ------------------------------
(***************************************************************************)
(* What the thread pools promise whoever submits a task: it is run at most *)
(* once, by one thread; while the pool is open none is thrown away; and    *)
(* once the destructor has joined the workers nothing runs any more, so    *)
(* the tasks that are still queued are dropped.                            *)
(***************************************************************************)
CONSTANT Task

VARIABLES status, phase

vars == <<status, phase>>

Init == /\ status = [x \in Task |-> "new"]
        /\ phase = "open"

Move(x, from, to) == /\ status[x] = from
                     /\ status' = [status EXCEPT ![x] = to]
                     /\ UNCHANGED phase

Submit(x) == phase # "closed" /\ Move(x, "new", "queued")

Begin(x) == phase # "closed" /\ Move(x, "queued", "running")

Finish(x) == Move(x, "running", "done")

Close == phase = "open" /\ phase' = "closing" /\ UNCHANGED status

\* All workers are joined.
Closed == /\ phase = "closing" /\ \A x \in Task : status[x] # "running"
          /\ phase' = "closed"
          /\ UNCHANGED status

Drop == /\ phase = "closed"
        /\ \E X \in SUBSET {x \in Task : status[x] = "queued"} :
             status' = [x \in Task |-> IF x \in X THEN "dropped" ELSE status[x]]
        /\ UNCHANGED phase

Next == \/ \E x \in Task : Submit(x) \/ Begin(x) \/ Finish(x)
        \/ Close \/ Closed \/ Drop

Spec == Init /\ [][Next]_vars
=============================================================================
