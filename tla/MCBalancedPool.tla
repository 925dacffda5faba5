--------------------------- MODULE MCBalancedPool ---------------------------
(* Small instances of BalancedPool. *)
EXTENDS BalancedPool

CONSTANTS a, b, c, d

\* a submits c and d while it runs, as a recursive sort does.
MCChildren == [x \in Task |-> IF x = a THEN {c, d} \cap Task ELSE {}]
=============================================================================
