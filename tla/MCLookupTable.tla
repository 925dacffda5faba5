--------------------------- MODULE MCLookupTable ---------------------------
(* Small instances of LookupTable. *)
EXTENDS LookupTable

CONSTANTS t1, t2, t3, k1, k2, k3, a, b

\* Two keys collide.
MCHash == [k \in Key |-> IF k = k3 THEN 1 ELSE 0]

\* A thread that writes, one that reads and writes, and one that reads all keys.
\* Two of them write k1, with different values, and one may erase what another
\* is about to update or read; k2 shares its bucket.
MCCalls == [t \in Thread |->
  CASE t = t1 -> {KeyCall("add_or_update_mapping", k, a) : k \in {k1, k3}}
                   \cup {KeyCall("remove_mapping", k, Absent) : k \in Key}
    [] t = t2 -> {KeyCall("value_for", k, Absent) : k \in {k1, k3}}
                   \cup {KeyCall("add_or_update_mapping", k, b) : k \in {k1, k2}}
    [] OTHER -> {KeyCall("get_map", Null, Absent)}]
=============================================================================
