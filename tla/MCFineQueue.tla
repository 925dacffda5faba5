----------------------------- MODULE MCFineQueue -----------------------------
(* Small instances of FineQueue. *)
EXTENDS FineQueue, TLC

\* Every thread may call every operation.
AnyCall == [t \in Thread |-> Op]

\* The consumer test: one producer, the other threads only wait_and_pop().
CONSTANT Producer
TestCalls == [t \in Thread |-> IF t = Producer THEN {"push"} ELSE {"wait_and_pop"}]

Symmetry == Permutations(Thread) \cup Permutations(Node) \cup Permutations(Value)
==============================================================================
