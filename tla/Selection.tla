----------------------------- MODULE Selection -----------------------------
(***************************************************************************)
(* Parts of sequences, for AtomicList and its implementation: SelectSeq    *)
(* without an operator for an argument, so that it can be reasoned about.  *)
(***************************************************************************)
EXTENDS Naturals, Sequences, FiniteSets

\* The i-th number of the set K.
Nth(K, i) == CHOOSE k \in K : Cardinality({j \in K : j <= k}) = i

\* The elements of s at the places in K, in their order.
Select(s, K) == [i \in 1..Cardinality(K) |-> s[Nth(K, i)]]

\* s up to and including its first element in P.
UpToFirst(s, P) ==
  LET hits == {k \in DOMAIN s : s[k] \in P}
  IN IF hits = {} THEN s ELSE SubSeq(s, 1, Nth(hits, 1))
=============================================================================
