--------------------------- MODULE MCParallelSort ---------------------------
(* Small instances of ParallelSort. *)
EXTENDS ParallelSort

CONSTANTS w1, w2, w3

\* The last two elements have the same key.
MCKey == [e \in Elem |-> IF e = Cardinality(Elem) THEN e - 1 ELSE e]
=============================================================================
