---------------------------- MODULE LookupTable ----------------------------
(***************************************************************************)
(* threadsafe_lookup_table: a hash table with a reader-writer lock in each *)
(* bucket.                                                                 *)
(*                                                                         *)
(* A bucket is the set of its entries: the order of its list matters only  *)
(* to find_entry_for(), which looks for a key.  Each step of a thread is   *)
(* an operation on the lock or a pass over the list; the unlock belongs to *)
(* the last step before it.                                                *)
(***************************************************************************)
EXTENDS Naturals

CONSTANTS Thread, Key, Value,
          Hash,        \* Hash[k]: what hasher returns for key k
          NumBuckets,  \* num_buckets
          Calls,       \* Calls[t]: the calls thread t may make
          Absent,      \* the default_value of a value_for(), and what it stands for
          End,         \* end() of a bucket's list
          Null

Readers == {"value_for", "get_map"}
Writers == {"add_or_update_mapping", "remove_mapping"}

\* The calls there are, with their arguments; Absent and Null stand for none.
KeyCall(o, k, v) == [op |-> o, key |-> k, val |-> v]
Invocation ==
  {KeyCall(o, k, Absent) : o \in {"value_for", "remove_mapping"}, k \in Key}
    \cup {KeyCall("add_or_update_mapping", k, v) : k \in Key, v \in Value}
    \cup {KeyCall("get_map", Null, Absent)}

ASSUME BucketAssumption == NumBuckets \in Nat \ {0} /\ Hash \in [Key -> Nat]
ASSUME CallsAssumption == Calls \in [Thread -> SUBSET Invocation]
ASSUME NameAssumption == /\ Null \notin Thread \cup Key /\ Absent \notin Value
                         /\ End \notin Key \X Value

Bucket == 0..NumBuckets - 1

\* get_bucket()
BucketOf(k) == Hash[k] % NumBuckets

VARIABLES
  data,    \* data[b]: the entries of bucket b
  shared,  \* shared[b]: the threads that hold b's mutex with a shared_lock
  unique,  \* unique[b]: the thread that holds it with a unique_lock
  pc, op,  \* what thread t does next, and in which operation
  key,     \* key[t]: its argument key
  val,     \* val[t]: its argument value
  idx,     \* idx[t]: the bucket it is in
  found,   \* found[t]: its iterator found_entry
  res      \* res[t]: the values it has read

vars == <<data, shared, unique, pc, op, key, val, idx, found, res>>
locks == <<shared, unique>>
args == <<op, key, val>>

Nothing == [k \in Key |-> Absent]

Init == /\ data = [b \in Bucket |-> {}]
        /\ shared = [b \in Bucket |-> {}]
        /\ unique = [b \in Bucket |-> Null]
        /\ pc = [t \in Thread |-> "idle"]
        /\ op = [t \in Thread |-> "none"]
        /\ key = [t \in Thread |-> Null]
        /\ val = [t \in Thread |-> Absent]
        /\ idx = [t \in Thread |-> 0]
        /\ found = [t \in Thread |-> End]
        /\ res = [t \in Thread |-> Nothing]

Goto(t, from, to) == pc[t] = from /\ pc' = [pc EXCEPT ![t] = to]
-----------------------------------------------------------------------------
\* get_map() begins with the first bucket.
Call(t, c) == /\ Goto(t, "idle", "lock")
              /\ op' = [op EXCEPT ![t] = c.op]
              /\ key' = [key EXCEPT ![t] = c.key]
              /\ val' = [val EXCEPT ![t] = c.val]
              /\ idx' = [idx EXCEPT ![t] = IF c.op = "get_map" THEN 0 ELSE BucketOf(c.key)]
              /\ UNCHANGED <<data, locks, found, res>>

AfterLock(t) == IF op[t] = "get_map" THEN "copy" ELSE "find"

LockShared(t) == /\ op[t] \in Readers /\ unique[idx[t]] = Null
                 /\ Goto(t, "lock", AfterLock(t))
                 /\ shared' = [shared EXCEPT ![idx[t]] = @ \cup {t}]
                 /\ UNCHANGED <<data, unique, args, idx, found, res>>

\* Seeded bug: a writer takes a shared_lock too.
LockUniqueShared(t) == /\ op[t] \in Writers /\ unique[idx[t]] = Null
                       /\ Goto(t, "lock", AfterLock(t))
                       /\ shared' = [shared EXCEPT ![idx[t]] = @ \cup {t}]
                       /\ UNCHANGED <<data, unique, args, idx, found, res>>

LockUnique(t) == /\ op[t] \in Writers /\ unique[idx[t]] = Null /\ shared[idx[t]] = {}
                 /\ Goto(t, "lock", AfterLock(t))
                 /\ unique' = [unique EXCEPT ![idx[t]] = t]
                 /\ UNCHANGED <<data, shared, args, idx, found, res>>

Unlock(t) == /\ shared' = [shared EXCEPT ![idx[t]] = @ \ {t}]
             /\ unique' = [unique EXCEPT ![idx[t]] = IF @ = t THEN Null ELSE @]

\* Seeded bug: find_entry_for() takes the bucket's first entry, whatever its key.
FindAny(t) == /\ Goto(t, "find", "use")
              /\ LET hits == data[idx[t]]
                 IN \E e \in IF hits = {} THEN {End} ELSE hits : found' = [found EXCEPT ![t] = e]
              /\ UNCHANGED <<data, locks, args, idx, res>>

\* find_entry_for()
Find(t) == /\ Goto(t, "find", "use")
           /\ LET hits == {e \in data[idx[t]] : e[1] = key[t]}
              IN \E e \in IF hits = {} THEN {End} ELSE hits : found' = [found EXCEPT ![t] = e]
           /\ UNCHANGED <<data, locks, args, idx, res>>

Read(t) == /\ op[t] = "value_for" /\ Goto(t, "use", "return")
           /\ res' = [res EXCEPT ![t][key[t]] = IF found[t] = End THEN Absent ELSE found[t][2]]
           /\ found' = [found EXCEPT ![t] = End]
           /\ Unlock(t)
           /\ UNCHANGED <<data, args, idx>>

\* Seeded bug: the entry is appended without a look at the iterator.
PushAlways(t) == /\ op[t] = "add_or_update_mapping" /\ Goto(t, "use", "return")
                 /\ data' = [data EXCEPT ![idx[t]] = @ \cup {<<key[t], val[t]>>}]
                 /\ found' = [found EXCEPT ![t] = End]
                 /\ Unlock(t)
                 /\ UNCHANGED <<args, idx, res>>

\* Seeded bug: the writer returns with the lock held.
UpdateKeepsLock(t) == /\ op[t] = "add_or_update_mapping" /\ Goto(t, "use", "return")
                      /\ data' = [data EXCEPT ![idx[t]] = (@ \ {found[t]}) \cup {<<key[t], val[t]>>}]
                      /\ found' = [found EXCEPT ![t] = End]
                      /\ UNCHANGED <<locks, args, idx, res>>

\* found_entry->second = value, or push_back().
Update(t) == /\ op[t] = "add_or_update_mapping" /\ Goto(t, "use", "return")
             /\ data' = [data EXCEPT ![idx[t]] = (@ \ {found[t]}) \cup {<<key[t], val[t]>>}]
             /\ found' = [found EXCEPT ![t] = End]
             /\ Unlock(t)
             /\ UNCHANGED <<args, idx, res>>

Erase(t) == /\ op[t] = "remove_mapping" /\ Goto(t, "use", "return")
            /\ data' = [data EXCEPT ![idx[t]] = @ \ {found[t]}]
            /\ found' = [found EXCEPT ![t] = End]
            /\ Unlock(t)
            /\ UNCHANGED <<args, idx, res>>

\* The value of key k among the entries E, if it is there.
ValueIn(E, k) == LET vs == {e[2] : e \in {x \in E : x[1] = k}}
                 IN IF vs = {} THEN Absent ELSE CHOOSE v \in vs : TRUE

\* get_map(): map::insert() keeps the entry that has the key already.
Copy(t) ==
  /\ Goto(t, "copy", IF idx[t] + 1 = NumBuckets THEN "return" ELSE "lock")
  /\ res' = [res EXCEPT ![t] = [k \in Key |-> IF @[k] # Absent THEN @[k]
                                             ELSE ValueIn(data[idx[t]], k)]]
  /\ idx' = [idx EXCEPT ![t] = IF @ + 1 = NumBuckets THEN @ ELSE @ + 1]
  /\ Unlock(t)
  /\ UNCHANGED <<data, args, found>>

Return(t) == /\ Goto(t, "return", "idle")
             /\ op' = [op EXCEPT ![t] = "none"]
             /\ key' = [key EXCEPT ![t] = Null]
             /\ val' = [val EXCEPT ![t] = Absent]
             /\ idx' = [idx EXCEPT ![t] = 0]
             /\ res' = [res EXCEPT ![t] = Nothing]
             /\ UNCHANGED <<data, locks, found>>
-----------------------------------------------------------------------------
Start(t) == \E c \in Calls[t] : Call(t, c)

Step(t) == \/ LockShared(t) \/ LockUnique(t) \/ Find(t) \/ Read(t) \/ Update(t) \/ Erase(t)
           \/ Copy(t) \/ Return(t)

Next == \E t \in Thread : Start(t) \/ Step(t)

Spec == Init /\ [][Next]_vars

(* A thread inside an operation goes on, and gets a mutex that is free for *)
(* it again and again.                                                     *)
FairSpec == Spec /\ \A t \in Thread : SF_vars(Step(t))
-----------------------------------------------------------------------------
(* Properties *)

\* Types.
TypeOK == /\ data \in [Bucket -> SUBSET (Key \X Value)]
          /\ shared \in [Bucket -> SUBSET Thread]
          /\ unique \in [Bucket -> Thread \cup {Null}]
          /\ pc \in [Thread -> {"idle", "lock", "find", "use", "copy", "return"}]
          /\ op \in [Thread -> Readers \cup Writers \cup {"none"}]
          /\ key \in [Thread -> Key \cup {Null}]
          /\ val \in [Thread -> Value \cup {Absent}]
          /\ idx \in [Thread -> Bucket]
          /\ found \in [Thread -> (Key \X Value) \cup {End}]
          /\ res \in [Thread -> [Key -> Value \cup {Absent}]]

\* No key has two entries, or one in a bucket where nobody looks for it.
KeysUnique == \A b \in Bucket : \A e \in data[b] :
                /\ BucketOf(e[1]) = b
                /\ \A f \in data[b] : f[1] = e[1] => f = e

\* An iterator is used only while it is valid: between find_entry_for() and the
\* use of what it found nobody else erases or updates that entry, or adds one.
IteratorsValid == \A t \in Thread : pc[t] = "use" =>
  \A e \in data[idx[t]] \cup {found[t]} : e # End =>
    (e[1] = key[t] <=> e = found[t]) /\ e \in data[idx[t]]

\* Who holds which lock, and what a thread inside an operation knows.
LockInv ==
  /\ \A b \in Bucket : unique[b] # Null => shared[b] = {}
  /\ \A t \in Thread, b \in Bucket :
       /\ t \in shared[b] <=> op[t] \in Readers /\ pc[t] \in {"find", "use", "copy"} /\ idx[t] = b
       /\ unique[b] = t <=> op[t] \in Writers /\ pc[t] \in {"find", "use"} /\ idx[t] = b

LocalInv == \A t \in Thread :
  /\ pc[t] = "idle" <=> op[t] = "none"
  /\ op[t] \notin {"none", "get_map"} => key[t] \in Key /\ idx[t] = BucketOf(key[t])
  /\ op[t] = "add_or_update_mapping" => val[t] \in Value
  /\ op[t] # "add_or_update_mapping" => val[t] = Absent
  /\ pc[t] \in {"find", "use"} => op[t] # "get_map"
  /\ pc[t] = "copy" => op[t] = "get_map"
  /\ pc[t] # "use" => found[t] = End
  /\ pc[t] \in {"idle", "lock", "find", "use"} /\ op[t] # "get_map" => res[t] = Nothing
  /\ op[t] \in Writers => res[t] = Nothing
  /\ op[t] = "get_map" /\ pc[t] \in {"lock", "copy"} =>
       \A k \in Key : BucketOf(k) >= idx[t] => res[t][k] = Absent

IInv == TypeOK /\ KeysUnique /\ IteratorsValid /\ LockInv /\ LocalInv

(* The table implements KeyedTable.  The keys of a bucket are read         *)
(* together by get_map(); value_for() reads one, when it uses its          *)
(* iterator.                                                               *)
Unread(t) == IF pc[t] \in {"idle", "return"} THEN {}
             ELSE IF op[t] = "get_map" THEN {k \in Key : BucketOf(k) >= idx[t]}
             ELSE {key[t]}

InBucket(b) == {k \in Key : BucketOf(k) = b}
Part == {{k} : k \in Key} \cup {InBucket(b) : b \in Bucket}

absDict == [k \in Key |-> ValueIn(data[BucketOf(k)], k)]
absOp == [t \in Thread |-> IF op[t] \in Readers THEN "read"
                           ELSE IF op[t] \in Writers THEN "write" ELSE "none"]
absKeys == [t \in Thread |-> Unread(t)]
absVal == [t \in Thread |-> IF pc[t] = "return" THEN Absent ELSE val[t]]

Table == INSTANCE KeyedTable WITH dict <- absDict, op <- absOp, keys <- absKeys, val <- absVal

\* Every operation on one key is atomic, and get_map() returns for each bucket
\* what it held at one instant during the call.
ImplementsTable == Table!Spec

\* A lookup ends however many threads write: a writer holds a mutex only for a
\* moment.  (A writer may wait for ever, for readers that overlap.)
ReadersEnd == \A t \in Thread : op[t] \in Readers ~> op[t] = "none"
=============================================================================
