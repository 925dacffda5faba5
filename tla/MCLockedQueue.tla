---------------------------- MODULE MCLockedQueue ----------------------------
(* Small instances of LockedQueue. *)
EXTENDS LockedQueue, TLC

\* Every thread may call every operation.
AnyCall == [t \in Thread |-> Op]

Symmetry == Permutations(Thread) \cup Permutations(Value)
==============================================================================
