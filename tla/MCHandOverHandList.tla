------------------------- MODULE MCHandOverHandList -------------------------
(* Small instances of HandOverHandList. *)
EXTENDS HandOverHandList, TLC

\* Every thread may call every operation.
AnyCall == [t \in Thread |-> Op]

\* One thread pushes, one removes, the others traverse and ask for emptiness.
CONSTANTS Pusher, Remover
RoleCalls == [t \in Thread |-> IF t = Pusher THEN {"push_front"}
                               ELSE IF t = Remover THEN {"remove_if"}
                               ELSE Op \ {"push_front"}]

Symmetry == Permutations(Node) \cup Permutations(Value)
=============================================================================
