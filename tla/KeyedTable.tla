----------------------------- MODULE KeyedTable -----------------------------
(***************************************************************************)
(* What threadsafe_lookup_table promises.  Writing one key is atomic, and  *)
(* so is reading one.  Whoever reads many keys reads them part by part:    *)
(* each part at one instant between the call and the return, all of them   *)
(* at no common instant.                                                   *)
(***************************************************************************)
CONSTANTS Thread, Key, Value,
          Part,    \* the sets of keys that are read together
          Absent   \* the value of a key that is not in the table

VARIABLES
  dict,  \* dict[k]: the value of key k
  op,    \* op[t]: what thread t is doing
  keys,  \* keys[t]: the keys it still has to read or write
  val,   \* val[t]: the value it will write
  res    \* res[t]: the values it has read

vars == <<dict, op, keys, val, res>>

Init == /\ dict = [k \in Key |-> Absent]
        /\ op = [t \in Thread |-> "none"]
        /\ keys = [t \in Thread |-> {}]
        /\ val = [t \in Thread |-> Absent]
        /\ res = [t \in Thread |-> [k \in Key |-> Absent]]

Call(t, o, K, v) == /\ op[t] = "none"
                    /\ op' = [op EXCEPT ![t] = o]
                    /\ keys' = [keys EXCEPT ![t] = K]
                    /\ val' = [val EXCEPT ![t] = v]
                    /\ UNCHANGED <<dict, res>>

Read(t, P) == /\ op[t] = "read" /\ P \cap keys[t] # {}
              /\ res' = [res EXCEPT ![t] = [k \in Key |-> IF k \in P \cap keys[t] THEN dict[k]
                                                          ELSE res[t][k]]]
              /\ keys' = [keys EXCEPT ![t] = @ \ P]
              /\ UNCHANGED <<dict, op, val>>

Write(t) == /\ op[t] = "write" /\ keys[t] # {}
            /\ dict' = [k \in Key |-> IF k \in keys[t] THEN val[t] ELSE dict[k]]
            /\ keys' = [keys EXCEPT ![t] = {}]
            /\ val' = [val EXCEPT ![t] = Absent]
            /\ UNCHANGED <<op, res>>

Return(t) == /\ op[t] # "none" /\ keys[t] = {}
             /\ op' = [op EXCEPT ![t] = "none"]
             /\ res' = [res EXCEPT ![t] = [k \in Key |-> Absent]]
             /\ UNCHANGED <<dict, keys, val>>

Next == \E t \in Thread :
          \/ \E k \in Key : Call(t, "read", {k}, Absent)
          \/ Call(t, "read", Key, Absent)
          \/ \E k \in Key, v \in Value \cup {Absent} : Call(t, "write", {k}, v)
          \/ \E P \in Part : Read(t, P)
          \/ Write(t) \/ Return(t)

Spec == Init /\ [][Next]_vars
=============================================================================
