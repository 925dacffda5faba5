---------------------------- MODULE MCSimplePool ----------------------------
(* Small instances of SimplePool. *)
EXTENDS SimplePool

CONSTANTS a, b, c, d

\* a submits c and d while it runs.
MCChildren == [x \in Task |-> IF x = a THEN {c, d} \cap Task ELSE {}]
=============================================================================
