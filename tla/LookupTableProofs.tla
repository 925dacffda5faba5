-------------------------- MODULE LookupTableProofs --------------------------
(* Proofs about LookupTable, for any number of threads, keys, values and   *)
(* buckets, and any hash function.                                         *)
EXTENDS LookupTable, TLAPS

USE NameAssumption

\* A key belongs to a bucket, whatever the hash function returns.
LEMMA BucketOfKey == \A k \in Key : BucketOf(k) \in Bucket
BY BucketAssumption DEF BucketOf, Bucket

LEMMA FirstBucket == 0 \in Bucket
BY BucketAssumption DEF Bucket

\* What a call passes to an operation.
LEMMA CallArguments ==
  ASSUME NEW t \in Thread, NEW c \in Calls[t]
  PROVE  /\ c.op \in Readers \cup Writers
         /\ c.op = "get_map" => c.key = Null
         /\ c.op # "get_map" => c.key \in Key
         /\ c.op = "add_or_update_mapping" => c.val \in Value
         /\ c.op # "add_or_update_mapping" => c.val = Absent
<1>1. c \in Invocation
  BY CallsAssumption
<1>2. CASE c \in {KeyCall(o, k, Absent) : o \in {"value_for", "remove_mapping"}, k \in Key}
  BY <1>2 DEF KeyCall, Readers, Writers
<1>3. CASE c \in {KeyCall("add_or_update_mapping", k, v) : k \in Key, v \in Value}
  BY <1>3 DEF KeyCall, Readers, Writers
<1>4. CASE c = KeyCall("get_map", Null, Absent)
  BY <1>4 DEF KeyCall, Readers, Writers
<1>5. QED  BY <1>1, <1>2, <1>3, <1>4 DEF Invocation

\* The value of a key in a bucket, if there is one; if the key is there once, the
\* value of that entry.
LEMMA ValueInType ==
  ASSUME NEW E \in SUBSET (Key \X Value), NEW k \in Key
  PROVE  ValueIn(E, k) \in Value \cup {Absent}
<1> DEFINE vs == {e[2] : e \in {x \in E : x[1] = k}}
<1>1. vs \subseteq Value
  OBVIOUS
<1>2. vs # {} => (CHOOSE v \in vs : TRUE) \in vs
  OBVIOUS
<1> HIDE DEF vs
<1>3. ValueIn(E, k) = IF vs = {} THEN Absent ELSE CHOOSE v \in vs : TRUE
  BY DEF vs, ValueIn
<1>4. QED  BY <1>1, <1>2, <1>3

LEMMA ValueInHit ==
  ASSUME NEW E \in SUBSET (Key \X Value), NEW f \in E, \A e \in E : e[1] = f[1] => e = f
  PROVE  ValueIn(E, f[1]) = f[2]
<1>1. {e[2] : e \in {x \in E : x[1] = f[1]}} = {f[2]}
  OBVIOUS
<1>2. QED  BY <1>1 DEF ValueIn

LEMMA ValueInMiss ==
  ASSUME NEW E, NEW k, \A e \in E : e[1] # k
  PROVE  ValueIn(E, k) = Absent
BY DEF ValueIn

\* Entries with other keys do not matter.
LEMMA ValueInOther ==
  ASSUME NEW E, NEW D, NEW k, {x \in E : x[1] = k} = {x \in D : x[1] = k}
  PROVE  ValueIn(E, k) = ValueIn(D, k)
BY DEF ValueIn

LEMMA TypeStep == TypeOK /\ LocalInv /\ [Next]_vars => TypeOK'
<1> SUFFICES ASSUME TypeOK, LocalInv, [Next]_vars  PROVE TypeOK'
  OBVIOUS
<1> USE DEF TypeOK, Goto, args, locks, Unlock
<1>1. ASSUME NEW t \in Thread, NEW c \in Calls[t], Call(t, c)  PROVE TypeOK'
  <2>1. (IF c.op = "get_map" THEN 0 ELSE BucketOf(c.key)) \in Bucket
    BY CallArguments, BucketOfKey, FirstBucket
  <2>2. /\ c.op \in Readers \cup Writers /\ c.key \in Key \cup {Null}
        /\ c.val \in Value \cup {Absent}
    BY CallArguments
  <2>3. QED  BY <1>1, <2>1, <2>2 DEF Call
<1>2. ASSUME NEW t \in Thread, LockShared(t)  PROVE TypeOK'
  BY <1>2 DEF LockShared, AfterLock
<1>3. ASSUME NEW t \in Thread, LockUnique(t)  PROVE TypeOK'
  BY <1>3 DEF LockUnique, AfterLock
<1>4. ASSUME NEW t \in Thread, Find(t)  PROVE TypeOK'
  <2> DEFINE hits == {e \in data[idx[t]] : e[1] = key[t]}
  <2>1. PICK e \in IF hits = {} THEN {End} ELSE hits : found' = [found EXCEPT ![t] = e]
    BY <1>4 DEF Find
  <2>2. e \in (Key \X Value) \cup {End}
    BY <2>1
  <2>3. QED  BY <1>4, <2>1, <2>2 DEF Find
<1>5. ASSUME NEW t \in Thread, Read(t)  PROVE TypeOK'
  <2>1. key[t] \in Key /\ (found[t] # End => found[t][2] \in Value)
    BY <1>5 DEF Read, LocalInv
  <2>2. res' \in [Thread -> [Key -> Value \cup {Absent}]]
    BY <1>5, <2>1 DEF Read
  <2>3. QED  BY <1>5, <2>2 DEF Read
<1>6. ASSUME NEW t \in Thread, Update(t)  PROVE TypeOK'
  <2>1. key[t] \in Key /\ val[t] \in Value
    BY <1>6 DEF Update, LocalInv
  <2>2. data' \in [Bucket -> SUBSET (Key \X Value)]
    BY <1>6, <2>1 DEF Update
  <2>3. QED  BY <1>6, <2>2 DEF Update
<1>7. ASSUME NEW t \in Thread, Erase(t)  PROVE TypeOK'
  BY <1>7 DEF Erase
<1>8. ASSUME NEW t \in Thread, Copy(t)  PROVE TypeOK'
  <2>1. \A k \in Key : ValueIn(data[idx[t]], k) \in Value \cup {Absent}
    BY ValueInType
  <2>2. res' \in [Thread -> [Key -> Value \cup {Absent}]]
    BY <1>8, <2>1 DEF Copy
  <2>4. idx' \in [Thread -> Bucket]
    BY <1>8, BucketAssumption DEF Copy, Bucket
  <2>5. QED  BY <1>8, <2>2, <2>4 DEF Copy
<1>9. ASSUME NEW t \in Thread, Return(t)  PROVE TypeOK'
  BY <1>9, FirstBucket DEF Return, Nothing
<1>10. CASE UNCHANGED vars
  BY <1>10 DEF vars
<1>11. QED
  BY <1>1, <1>2, <1>3, <1>4, <1>5, <1>6, <1>7, <1>8, <1>9, <1>10 DEF Next, Start, Step

\* Reader-writer exclusion: a lock that is taken is free of whoever excludes it.
LEMMA LockStep == TypeOK /\ LocalInv /\ LockInv /\ [Next]_vars => LockInv'
<1> SUFFICES ASSUME TypeOK, LocalInv, LockInv, [Next]_vars  PROVE LockInv'
  OBVIOUS
<1> USE DEF TypeOK, LockInv, Goto, args, locks, Unlock, Readers, Writers
<1>1. ASSUME NEW t \in Thread, NEW c \in Calls[t], Call(t, c)  PROVE LockInv'
  BY <1>1 DEF Call
<1>2. ASSUME NEW t \in Thread, LockShared(t)  PROVE LockInv'
  BY <1>2 DEF LockShared, AfterLock
<1>3. ASSUME NEW t \in Thread, LockUnique(t)  PROVE LockInv'
  BY <1>3 DEF LockUnique, AfterLock
<1>4. ASSUME NEW t \in Thread, Find(t)  PROVE LockInv'
  BY <1>4 DEF Find
<1>5. ASSUME NEW t \in Thread, Read(t)  PROVE LockInv'
  BY <1>5 DEF Read
<1>6. ASSUME NEW t \in Thread, Update(t)  PROVE LockInv'
  BY <1>6 DEF Update
<1>7. ASSUME NEW t \in Thread, Erase(t)  PROVE LockInv'
  BY <1>7 DEF Erase
<1>8. ASSUME NEW t \in Thread, Copy(t)  PROVE LockInv'
  <2>1. op[t] = "get_map"
    BY <1>8 DEF Copy, LocalInv
  <2>2. QED  BY <1>8, <2>1 DEF Copy
<1>9. ASSUME NEW t \in Thread, Return(t)  PROVE LockInv'
  BY <1>9 DEF Return
<1>10. CASE UNCHANGED vars
  BY <1>10 DEF vars
<1>11. QED
  BY <1>1, <1>2, <1>3, <1>4, <1>5, <1>6, <1>7, <1>8, <1>9, <1>10 DEF Next, Start, Step

LEMMA LocalStep == TypeOK /\ LocalInv /\ KeysUnique /\ [Next]_vars => LocalInv'
<1> SUFFICES ASSUME TypeOK, LocalInv, KeysUnique, [Next]_vars  PROVE LocalInv'
  OBVIOUS
<1> USE DEF TypeOK, LocalInv, Goto, args, locks, Readers, Writers
<1>1. ASSUME NEW t \in Thread, NEW c \in Calls[t], Call(t, c)  PROVE LocalInv'
  BY <1>1, CallArguments DEF Call, Nothing
<1>2. ASSUME NEW t \in Thread, LockShared(t)  PROVE LocalInv'
  BY <1>2 DEF LockShared, AfterLock
<1>3. ASSUME NEW t \in Thread, LockUnique(t)  PROVE LocalInv'
  BY <1>3 DEF LockUnique, AfterLock
<1>4. ASSUME NEW t \in Thread, Find(t)  PROVE LocalInv'
  BY <1>4 DEF Find
<1>5. ASSUME NEW t \in Thread, Read(t)  PROVE LocalInv'
  BY <1>5 DEF Read
<1>6. ASSUME NEW t \in Thread, Update(t)  PROVE LocalInv'
  BY <1>6 DEF Update
<1>7. ASSUME NEW t \in Thread, Erase(t)  PROVE LocalInv'
  BY <1>7 DEF Erase
<1>8. ASSUME NEW t \in Thread, Copy(t)  PROVE LocalInv'
  <2>1. \A b \in Bucket : b \in Nat
    BY DEF Bucket
  <2>2. \A k \in Key : BucketOf(k) > idx[t] => ValueIn(data[idx[t]], k) = Absent
    <3> SUFFICES ASSUME NEW k \in Key, BucketOf(k) > idx[t]
                 PROVE  ValueIn(data[idx[t]], k) = Absent
      OBVIOUS
    <3>1. \A e \in data[idx[t]] : e[1] # k
      BY <2>1 DEF KeysUnique
    <3>2. QED  BY <3>1, ValueInMiss
  <2>3. op[t] = "get_map" /\ pc[t] = "copy"
    BY <1>8 DEF Copy
  <2>4. ASSUME pc'[t] = "lock", NEW k \in Key, BucketOf(k) >= idx'[t]  PROVE res'[t][k] = Absent
    <3>1. idx'[t] = idx[t] + 1
      BY <1>8, <2>4 DEF Copy
    <3>2. BucketOf(k) > idx[t] /\ BucketOf(k) >= idx[t]
      BY <2>1, <2>4, <3>1, BucketOfKey
    <3>3. res[t][k] = Absent /\ ValueIn(data[idx[t]], k) = Absent
      BY <2>2, <2>3, <3>2
    <3>4. QED  BY <1>8, <3>3 DEF Copy
  <2>5. /\ pc'[t] \in {"lock", "return"} /\ op' = op /\ key' = key /\ val' = val /\ found' = found
        /\ \A u \in Thread \ {t} : pc'[u] = pc[u] /\ idx'[u] = idx[u] /\ res'[u] = res[u]
    BY <1>8 DEF Copy
  <2>6. QED  BY <2>3, <2>4, <2>5
<1>9. ASSUME NEW t \in Thread, Return(t)  PROVE LocalInv'
  BY <1>9 DEF Return
<1>10. CASE UNCHANGED vars
  BY <1>10 DEF vars
<1>11. QED
  BY <1>1, <1>2, <1>3, <1>4, <1>5, <1>6, <1>7, <1>8, <1>9, <1>10 DEF Next, Start, Step

\* Whoever changes a bucket is alone in it, so that the iterators of all others
\* stay valid; and it finds the entry of its key if there is one, so that it adds
\* no second one.
LEMMA EntryStep == IInv /\ [Next]_vars => (KeysUnique /\ IteratorsValid)'
<1> SUFFICES ASSUME IInv, [Next]_vars  PROVE KeysUnique' /\ IteratorsValid'
  OBVIOUS
<1> USE DEF IInv, TypeOK, Goto, args, locks, Readers, Writers
<1> DEFINE Quiet(t) == /\ data' = data
                       /\ \A u \in Thread \ {t} : /\ pc'[u] = pc[u] /\ idx'[u] = idx[u]
                                                  /\ key'[u] = key[u] /\ found'[u] = found[u]
<1>0. ASSUME NEW t \in Thread, Quiet(t), pc'[t] # "use"  PROVE KeysUnique' /\ IteratorsValid'
  BY <1>0 DEF KeysUnique, IteratorsValid
<1>1. ASSUME NEW t \in Thread, NEW c \in Calls[t], Call(t, c)  PROVE KeysUnique' /\ IteratorsValid'
  BY <1>0, <1>1 DEF Call
<1>2. ASSUME NEW t \in Thread, LockShared(t)  PROVE KeysUnique' /\ IteratorsValid'
  BY <1>0, <1>2 DEF LockShared, AfterLock
<1>3. ASSUME NEW t \in Thread, LockUnique(t)  PROVE KeysUnique' /\ IteratorsValid'
  BY <1>0, <1>3 DEF LockUnique, AfterLock
<1>4. ASSUME NEW t \in Thread, Find(t)  PROVE KeysUnique' /\ IteratorsValid'
  <2>1. KeysUnique'
    BY <1>4 DEF Find, KeysUnique
  <2> DEFINE hits == {e \in data[idx[t]] : e[1] = key[t]}
  <2>2. PICK h \in IF hits = {} THEN {End} ELSE hits : found' = [found EXCEPT ![t] = h]
    BY <1>4 DEF Find
  <2>3. \A e \in data[idx[t]] : e # End
    OBVIOUS
  <2>4. \A e \in data[idx[t]] \cup {h} : e # End => (e[1] = key[t] <=> e = h) /\ e \in data[idx[t]]
    BY <2>2, <2>3 DEF KeysUnique
  <2>5. IteratorsValid'
    BY <1>4, <2>2, <2>4 DEF Find, IteratorsValid
  <2>6. QED  BY <2>1, <2>5
<1>5. ASSUME NEW t \in Thread, Read(t)  PROVE KeysUnique' /\ IteratorsValid'
  BY <1>0, <1>5 DEF Read
<1> DEFINE Alone(t) == \A u \in Thread \ {t} : pc[u] = "use" => idx[u] # idx[t]
<1>6. ASSUME NEW t \in Thread, op[t] \in Writers, pc[t] = "use"  PROVE Alone(t)
  <2> DEFINE b == idx[t]
  <2>0. b \in Bucket
    OBVIOUS
  <2> HIDE DEF b
  <2>1. unique[b] = t /\ shared[b] = {}
    BY <1>6, <2>0 DEF LockInv, b
  <2>2. \A u \in Thread : pc[u] = "use" => op[u] \in Readers \cup Writers
    BY DEF LocalInv
  <2>3. ASSUME NEW u \in Thread \ {t}, pc[u] = "use", idx[u] = b  PROVE FALSE
    BY <2>0, <2>1, <2>2, <2>3 DEF LockInv
  <2>4. QED  BY <2>3 DEF b
<1>7. ASSUME NEW t \in Thread, Alone(t), pc'[t] = "return",
             \A b \in Bucket \ {idx[t]} : data'[b] = data[b],
             \A u \in Thread \ {t} : /\ pc'[u] = pc[u] /\ idx'[u] = idx[u]
                                     /\ key'[u] = key[u] /\ found'[u] = found[u]
      PROVE IteratorsValid'
  BY <1>7 DEF IteratorsValid
<1>8. ASSUME NEW t \in Thread, Update(t)  PROVE KeysUnique' /\ IteratorsValid'
  <2>1. IteratorsValid'
    BY <1>6, <1>7, <1>8 DEF Update
  <2>2. key[t] \in Key /\ idx[t] = BucketOf(key[t])
    BY <1>8 DEF Update, LocalInv
  <2>3. \A e \in data[idx[t]] \ {found[t]} : e[1] # key[t]
    BY <1>8 DEF Update, IteratorsValid
  <2>4. data' = [data EXCEPT ![idx[t]] = (data[idx[t]] \ {found[t]}) \cup {<<key[t], val[t]>>}]
    BY <1>8 DEF Update
  <2>5. \A b \in Bucket : b # idx[t] => data'[b] = data[b]
    BY <2>4
  <2>6. data'[idx[t]] = (data[idx[t]] \ {found[t]}) \cup {<<key[t], val[t]>>}
    BY <2>4
  <2>7. \A e \in data'[idx[t]] :
          /\ BucketOf(e[1]) = idx[t]
          /\ \A f \in data'[idx[t]] : f[1] = e[1] => f = e
    BY <2>2, <2>3, <2>6 DEF KeysUnique
  <2>8. KeysUnique'
    BY <2>5, <2>7 DEF KeysUnique
  <2>9. QED  BY <2>1, <2>8
<1>9. ASSUME NEW t \in Thread, Erase(t)  PROVE KeysUnique' /\ IteratorsValid'
  <2>1. IteratorsValid'
    BY <1>6, <1>7, <1>9 DEF Erase
  <2>2. KeysUnique'
    BY <1>9 DEF Erase, KeysUnique
  <2>3. QED  BY <2>1, <2>2
<1>10. ASSUME NEW t \in Thread, Copy(t)  PROVE KeysUnique' /\ IteratorsValid'
  BY <1>0, <1>10 DEF Copy
<1>11. ASSUME NEW t \in Thread, Return(t)  PROVE KeysUnique' /\ IteratorsValid'
  BY <1>0, <1>11 DEF Return
<1>12. CASE UNCHANGED vars
  BY <1>12 DEF vars, KeysUnique, IteratorsValid
<1>13. QED
  BY <1>1, <1>2, <1>3, <1>4, <1>5, <1>8, <1>9, <1>10, <1>11, <1>12 DEF Next, Start, Step

\* The invariant of the table is inductive.
THEOREM Invariance == Spec => []IInv
<1>1. Init => IInv
  BY FirstBucket DEF Init, IInv, TypeOK, KeysUnique, IteratorsValid, LockInv, LocalInv, Nothing,
                     Readers, Writers
<1>2. IInv /\ [Next]_vars => IInv'
  BY TypeStep, LockStep, LocalStep, EntryStep DEF IInv
<1>3. QED  BY <1>1, <1>2, PTL DEF Spec

\* Types of the table, for any number of threads, keys and buckets.
THEOREM TypeCorrect == Spec => []TypeOK
<1>1. IInv => TypeOK
  BY DEF IInv
<1>2. QED  BY <1>1, Invariance, PTL

\* No key is ever in the table twice, or in a bucket where get_bucket() does not
\* lead, however many threads add it at the same time.
THEOREM NoKeyTwice == Spec => []KeysUnique
<1>1. IInv => KeysUnique
  BY DEF IInv
<1>2. QED  BY <1>1, Invariance, PTL

\* What find_entry_for() returned is what the list still holds when it is used.
THEOREM IteratorsStayValid == Spec => []IteratorsValid
<1>1. IInv => IteratorsValid
  BY DEF IInv
<1>2. QED  BY <1>1, Invariance, PTL

\* What the keys of a bucket have to do with the other buckets' entries.
LEMMA DictOfBucket ==
  ASSUME TypeOK, KeysUnique, NEW b \in Bucket, NEW k \in Key
  PROVE  IF BucketOf(k) = b THEN ValueIn(data[b], k) = absDict[k]
                            ELSE ValueIn(data[b], k) = Absent
<1>1. CASE BucketOf(k) = b
  BY <1>1 DEF absDict
<1>2. CASE BucketOf(k) # b
  <2>1. \A e \in data[b] : e[1] # k
    BY <1>2 DEF KeysUnique
  <2>2. QED  BY <1>2, <2>1, ValueInMiss
<1>3. QED  BY <1>1, <1>2

\* A writer changes the value of its key and of no other.
LEMMA DictOfWrite ==
  ASSUME IInv, NEW t \in Thread, pc[t] = "use", op[t] \in Writers,
         NEW new \in SUBSET {<<key[t], val[t]>>}, new = {} <=> val[t] = Absent,
         new \subseteq Key \X Value,
         data' = [data EXCEPT ![idx[t]] = (data[idx[t]] \ {found[t]}) \cup new]
  PROVE  absDict' = [k \in Key |-> IF k = key[t] THEN val[t] ELSE absDict[k]]
<1> USE DEF IInv, TypeOK
<1> DEFINE b == idx[t]
           E == (data[b] \ {found[t]}) \cup new
           f == <<key[t], val[t]>>
<1>1. /\ b \in Bucket /\ key[t] \in Key /\ b = BucketOf(key[t]) /\ E \in SUBSET (Key \X Value)
      /\ data'[b] = E /\ \A c \in Bucket \ {b} : data'[c] = data[c]
  BY DEF LocalInv, Writers
<1>2. \A e \in data[b] \ {found[t]} : e[1] # key[t]
  BY DEF IteratorsValid
<1>3. \A k \in Key \ {key[t]} : {x \in E : x[1] = k} = {x \in data[b] : x[1] = k}
  <2>1. found[t] # End => found[t][1] = key[t]
    BY DEF IteratorsValid
  <2>2. \A e \in data[b] : e # End
    OBVIOUS
  <2>3. QED  BY <2>1, <2>2
<1>4. new = {} => \A e \in E : e[1] # key[t]
  BY <1>2
<1>5. f[1] = key[t] /\ f[2] = val[t] /\ (new = {} \/ new = {f})
  <2>1. f[1] = key[t] /\ f[2] = val[t]
    OBVIOUS
  <2>2. ASSUME new # {}  PROVE new = {f}
    <3>1. PICK x \in new : TRUE
      BY <2>2
    <3>2. x = f
      BY <3>1
    <3>3. QED  BY <3>1, <3>2
  <2>3. QED  BY <2>1, <2>2
<1> HIDE DEF f
<1>6. new # {} => f \in E /\ \A e \in E : e[1] = f[1] => e = f
  BY <1>2, <1>5
<1> HIDE DEF b, E
<1>7. ASSUME NEW k \in Key, k # key[t]  PROVE ValueIn(data'[BucketOf(k)], k) = ValueIn(data[BucketOf(k)], k)
  <2>1. CASE BucketOf(k) # b
    BY <1>1, <2>1, BucketOfKey
  <2>2. CASE BucketOf(k) = b
    <3>1. ValueIn(E, k) = ValueIn(data[b], k)
      <4>1. {x \in E : x[1] = k} = {x \in data[b] : x[1] = k}
        BY <1>3, <1>7
      <4>2. QED  BY <4>1, ValueInOther
    <3>2. QED  BY <1>1, <2>2, <3>1
  <2>3. QED  BY <2>1, <2>2
<1>8. ValueIn(E, key[t]) = val[t]
  <2>1. CASE new = {}
    BY <1>4, <2>1, ValueInMiss
  <2>2. CASE new # {}
    <3>1. ValueIn(E, f[1]) = f[2]
      BY <1>1, <1>6, <2>2, ValueInHit
    <3>2. QED  BY <1>5, <3>1
  <2>3. QED  BY <2>1, <2>2
<1>9. \A k \in Key : ValueIn(data'[BucketOf(k)], k) = IF k = key[t] THEN val[t] ELSE absDict[k]
  BY <1>1, <1>7, <1>8 DEF absDict
<1>10. absDict' = [k \in Key |-> ValueIn(data'[BucketOf(k)], k)]
  BY DEF absDict
<1>11. QED  BY <1>9, <1>10

\* A thread that is about to return has nothing left to read or write.
LEMMA KeysDone ==
  ASSUME TypeOK, NEW t \in Thread, pc' = [pc EXCEPT ![t] = "return"], UNCHANGED <<op, key, idx>>
  PROVE  absKeys' = [absKeys EXCEPT ![t] = {}]
<1>1. Unread(t)' = {}
  BY DEF TypeOK, Unread
<1>2. \A u \in Thread \ {t} : Unread(u)' = Unread(u)
  BY DEF TypeOK, Unread
<1>3. QED  BY <1>1, <1>2 DEF absKeys

\* Every step of the table is a step of KeyedTable or changes nothing there: a
\* write takes effect when the entry is changed, a read when it is looked at.
LEMMA StepRefines == IInv /\ [Next]_vars => [Table!Next]_(Table!vars)
<1> SUFFICES ASSUME IInv, [Next]_vars  PROVE [Table!Next]_(Table!vars)
  OBVIOUS
<1> USE DEF IInv, TypeOK, Goto, args, locks, Readers, Writers
<1>1. ASSUME NEW t \in Thread, NEW c \in Calls[t], Call(t, c)  PROVE Table!Next
  <2>1. absDict' = absDict
    BY <1>1 DEF Call, absDict
  <2>2. op[t] = "none" /\ pc[t] = "idle" /\ absOp[t] = "none" /\ res' = res /\ pc'[t] = "lock" /\ op'[t] = c.op
    BY <1>1 DEF Call, LocalInv, absOp
  <2>3. CASE c.op = "get_map"
    <3>1. \A k \in Key : BucketOf(k) >= 0
      BY BucketOfKey DEF Bucket
    <3>2. absKeys' = [absKeys EXCEPT ![t] = Key]
      <4>1. Unread(t)' = Key
        BY <1>1, <2>3, <3>1 DEF Call, Unread
      <4>2. \A u \in Thread \ {t} : Unread(u)' = Unread(u)
        BY <1>1 DEF Call, Unread
      <4>3. QED  BY <4>1, <4>2 DEF absKeys
    <3>3. absOp' = [absOp EXCEPT ![t] = "read"]
      BY <1>1, <2>3 DEF Call, absOp
    <3>4. absVal' = [absVal EXCEPT ![t] = Absent]
      BY <1>1, <2>3, CallArguments DEF Call, absVal
    <3>5. Table!Call(t, "read", Key, Absent)
      BY <2>1, <2>2, <3>2, <3>3, <3>4 DEF Table!Call
    <3>6. QED  BY <3>5 DEF Table!Next
  <2>4. CASE c.op # "get_map"
    <3>1. c.key \in Key /\ c.op \in {"value_for", "add_or_update_mapping", "remove_mapping"}
      BY <2>4, CallArguments
    <3>2. absKeys' = [absKeys EXCEPT ![t] = {c.key}]
      <4>1. Unread(t)' = {c.key}
        BY <1>1, <2>4 DEF Call, Unread
      <4>2. \A u \in Thread \ {t} : Unread(u)' = Unread(u)
        BY <1>1 DEF Call, Unread
      <4>3. QED  BY <4>1, <4>2 DEF absKeys
    <3>3. absVal' = [absVal EXCEPT ![t] = c.val] /\ c.val \in Value \cup {Absent}
      BY <1>1, CallArguments DEF Call, absVal
    <3>4. CASE c.op = "value_for"
      <4>1. c.val = Absent
        BY <3>4, CallArguments
      <4>2. absOp' = [absOp EXCEPT ![t] = "read"]
        BY <1>1, <3>4 DEF Call, absOp
      <4>3. Table!Call(t, "read", {c.key}, Absent)
        BY <2>1, <2>2, <3>2, <3>3, <4>1, <4>2 DEF Table!Call
      <4>4. QED  BY <3>1, <4>3 DEF Table!Next
    <3>5. CASE c.op \in {"add_or_update_mapping", "remove_mapping"}
      <4>1. absOp' = [absOp EXCEPT ![t] = "write"]
        BY <1>1, <3>5 DEF Call, absOp
      <4>2. Table!Call(t, "write", {c.key}, c.val)
        BY <2>1, <2>2, <3>2, <3>3, <4>1 DEF Table!Call
      <4>3. QED  BY <3>1, <3>3, <4>2 DEF Table!Next
    <3>6. QED  BY <3>1, <3>4, <3>5
  <2>5. QED  BY <2>3, <2>4
<1>2. ASSUME NEW t \in Thread, LockShared(t)  PROVE UNCHANGED Table!vars
  BY <1>2 DEF LockShared, AfterLock, Table!vars, absDict, absOp, absKeys, absVal, Unread
<1>3. ASSUME NEW t \in Thread, LockUnique(t)  PROVE UNCHANGED Table!vars
  BY <1>3 DEF LockUnique, AfterLock, Table!vars, absDict, absOp, absKeys, absVal, Unread
<1>4. ASSUME NEW t \in Thread, Find(t)  PROVE UNCHANGED Table!vars
  BY <1>4 DEF Find, Table!vars, absDict, absOp, absKeys, absVal, Unread
<1>5. ASSUME NEW t \in Thread, Read(t)  PROVE Table!Next
  <2> DEFINE k == key[t]
  <2>1. /\ op[t] = "value_for" /\ pc[t] = "use" /\ pc'[t] = "return" /\ k \in Key
        /\ idx[t] = BucketOf(k) /\ res[t] = Nothing /\ val[t] = Absent
    BY <1>5 DEF Read, LocalInv
  <2>2. ValueIn(data[idx[t]], k) = IF found[t] = End THEN Absent ELSE found[t][2]
    <3>1. CASE found[t] = End
      <4>1. \A e \in data[idx[t]] : e # End
        OBVIOUS
      <4>2. \A e \in data[idx[t]] : e[1] # k
        BY <2>1, <3>1, <4>1 DEF IteratorsValid
      <4>3. QED  BY <3>1, <4>2, ValueInMiss
    <3>2. CASE found[t] # End
      <4>1. found[t][1] = k /\ found[t] \in data[idx[t]] /\ \A e \in data[idx[t]] : e[1] = found[t][1] => e = found[t]
        BY <2>1, <3>2 DEF IteratorsValid
      <4>2. ValueIn(data[idx[t]], found[t][1]) = found[t][2]
        BY <4>1, ValueInHit
      <4>3. QED  BY <3>2, <4>1, <4>2
    <3>3. QED  BY <3>1, <3>2
  <2>3. absDict[k] = IF found[t] = End THEN Absent ELSE found[t][2]
    BY <2>1, <2>2 DEF absDict
  <2>4. absDict' = absDict /\ absOp' = absOp /\ absVal' = absVal
    BY <1>5, <2>1 DEF Read, absDict, absOp, absVal
  <2>5. absKeys[t] = {k} /\ absKeys' = [absKeys EXCEPT ![t] = @ \ {k}] /\ absOp[t] = "read"
    <3>1. absKeys[t] = {k} /\ absOp[t] = "read"
      BY <2>1 DEF absKeys, Unread, absOp
    <3>2. absKeys' = [absKeys EXCEPT ![t] = {}]
      BY <1>5, KeysDone DEF Read
    <3>3. QED  BY <3>1, <3>2
  <2>6. res' = [res EXCEPT ![t] = [x \in Key |-> IF x \in {k} \cap absKeys[t] THEN absDict[x] ELSE res[t][x]]]
    <3>1. res' = [res EXCEPT ![t] = [res[t] EXCEPT ![k] = absDict[k]]]
      BY <1>5, <2>3 DEF Read
    <3>2. [res[t] EXCEPT ![k] = absDict[k]] = [x \in Key |-> IF x \in {k} \cap absKeys[t] THEN absDict[x] ELSE res[t][x]]
      BY <2>1, <2>5
    <3>3. QED  BY <3>1, <3>2
  <2>7. Table!Read(t, {k}) /\ {k} \in Part
    BY <2>1, <2>4, <2>5, <2>6 DEF Table!Read, Part
  <2>8. QED  BY <2>7 DEF Table!Next
<1>6. ASSUME NEW t \in Thread, Update(t) \/ Erase(t)  PROVE Table!Next
  <2> DEFINE new == IF op[t] = "add_or_update_mapping" THEN {<<key[t], val[t]>>} ELSE {}
  <2>1. /\ op[t] \in {"add_or_update_mapping", "remove_mapping"} /\ pc[t] = "use" /\ pc'[t] = "return"
        /\ key[t] \in Key /\ (op[t] = "add_or_update_mapping" => val[t] \in Value)
        /\ (op[t] # "add_or_update_mapping" => val[t] = Absent) /\ op' = op /\ val' = val /\ key' = key
        /\ idx' = idx /\ res' = res /\ pc' = [pc EXCEPT ![t] = "return"]
    BY <1>6 DEF Update, Erase, LocalInv
  <2>2. data' = [data EXCEPT ![idx[t]] = (data[idx[t]] \ {found[t]}) \cup new]
    <3>1. CASE Update(t)
      BY <3>1 DEF Update
    <3>2. CASE Erase(t)
      <4>1. (data[idx[t]] \ {found[t]}) \cup new = data[idx[t]] \ {found[t]}
        BY <3>2 DEF Erase
      <4>2. QED  BY <3>2, <4>1 DEF Erase
    <3>3. QED  BY <1>6, <3>1, <3>2
  <2>3. new \in SUBSET {<<key[t], val[t]>>} /\ (new = {} <=> val[t] = Absent) /\ new \subseteq Key \X Value
    <3>1. CASE op[t] = "add_or_update_mapping"
      BY <2>1, <3>1
    <3>2. CASE op[t] # "add_or_update_mapping"
      BY <2>1, <3>2
    <3>3. QED  BY <3>1, <3>2
  <2> HIDE DEF new
  <2>4. absDict' = [k \in Key |-> IF k = key[t] THEN val[t] ELSE absDict[k]]
    <3>1. op[t] \in Writers
      BY <2>1
    <3>2. QED  BY <2>1, <2>2, <2>3, <3>1, DictOfWrite
  <2>5. absKeys[t] = {key[t]} /\ absVal[t] = val[t] /\ absOp[t] = "write"
    BY <2>1 DEF absKeys, Unread, absVal, absOp
  <2>6. absKeys' = [absKeys EXCEPT ![t] = {}] /\ absVal' = [absVal EXCEPT ![t] = Absent] /\ absOp' = absOp
    <3>1. absKeys' = [absKeys EXCEPT ![t] = {}]
      BY <2>1, KeysDone
    <3>2. absVal' = [absVal EXCEPT ![t] = Absent]
      BY <2>1 DEF absVal
    <3>3. absOp' = absOp
      BY <2>1 DEF absOp
    <3>4. QED  BY <3>1, <3>2, <3>3
  <2>7. absDict' = [k \in Key |-> IF k \in absKeys[t] THEN absVal[t] ELSE absDict[k]]
    BY <2>4, <2>5
  <2>8. Table!Write(t)
    BY <2>1, <2>5, <2>6, <2>7 DEF Table!Write
  <2>9. QED  BY <2>8 DEF Table!Next
<1>7. ASSUME NEW t \in Thread, Copy(t)  PROVE [Table!Next]_(Table!vars)
  <2> DEFINE b == idx[t]
             P == InBucket(b)
  <2>1. /\ op[t] = "get_map" /\ pc[t] = "copy" /\ val[t] = Absent /\ b \in Bucket
        /\ \A k \in Key : BucketOf(k) >= b => res[t][k] = Absent
    BY <1>7 DEF Copy, LocalInv
  <2>2. absDict' = absDict /\ absOp' = absOp /\ absVal' = absVal
    BY <1>7, <2>1 DEF Copy, absDict, absOp, absVal
  <2>3. absKeys[t] = {k \in Key : BucketOf(k) >= b} /\ absOp[t] = "read"
    BY <2>1 DEF absKeys, Unread, absOp
  <2>4. Unread(t)' = Unread(t) \ P
    <3>1. CASE b + 1 = NumBuckets
      <4>1. \A k \in Key : BucketOf(k) >= b => BucketOf(k) = b
        BY <3>1, BucketOfKey, BucketAssumption DEF Bucket
      <4>2. Unread(t)' = {}
        BY <1>7, <3>1 DEF Copy, Unread
      <4>3. QED  BY <2>1, <4>1, <4>2 DEF Unread, InBucket
    <3>2. CASE b + 1 # NumBuckets
      <4>1. \A k \in Key : BucketOf(k) >= b + 1 <=> BucketOf(k) >= b /\ BucketOf(k) # b
        BY <2>1, BucketOfKey DEF Bucket
      <4>2. Unread(t)' = {k \in Key : BucketOf(k) >= b + 1}
        BY <1>7, <2>1, <3>2 DEF Copy, Unread
      <4>3. QED  BY <2>1, <4>1, <4>2 DEF Unread, InBucket
    <3>3. QED  BY <3>1, <3>2
  <2>5. \A u \in Thread \ {t} : Unread(u)' = Unread(u)
    BY <1>7 DEF Copy, Unread
  <2>6. absKeys' = [absKeys EXCEPT ![t] = @ \ P]
    BY <2>4, <2>5 DEF absKeys
  <2> DEFINE new == [k \in Key |-> IF k \in P \cap absKeys[t] THEN absDict[k] ELSE res[t][k]]
  <2>7. res' = [res EXCEPT ![t] = new]
    <3>1. ASSUME NEW k \in Key
          PROVE  (IF res[t][k] # Absent THEN res[t][k] ELSE ValueIn(data[b], k))
                   = IF k \in P \cap absKeys[t] THEN absDict[k] ELSE res[t][k]
      <4>1. CASE BucketOf(k) = b
        <5>1. k \in P \cap absKeys[t] /\ res[t][k] = Absent
          BY <2>1, <2>3, <4>1, BucketOfKey DEF InBucket, Bucket
        <5>2. QED  BY <2>1, <4>1, <5>1, DictOfBucket
      <4>2. CASE BucketOf(k) # b
        <5>1. k \notin P
          BY <4>2 DEF InBucket
        <5>2. QED  BY <2>1, <4>2, <5>1, DictOfBucket
      <4>3. QED  BY <4>1, <4>2
    <3>2. res' = [res EXCEPT ![t] = [k \in Key |-> IF res[t][k] # Absent THEN res[t][k]
                                                   ELSE ValueIn(data[b], k)]]
      BY <1>7 DEF Copy
    <3>3. [k \in Key |-> IF res[t][k] # Absent THEN res[t][k] ELSE ValueIn(data[b], k)] = new
      BY <3>1
    <3>4. QED  BY <3>2, <3>3
  <2>8. CASE P \cap absKeys[t] = {}
    <3>1. new = res[t]
      BY <2>8
    <3>2. absKeys' = absKeys
      BY <2>6, <2>8 DEF absKeys
    <3>3. res' = res
      BY <2>7, <3>1
    <3>4. QED  BY <2>2, <3>2, <3>3 DEF Table!vars
  <2>9. CASE P \cap absKeys[t] # {}
    <3>1. Table!Read(t, P) /\ P \in Part
      BY <2>1, <2>2, <2>3, <2>6, <2>7, <2>9 DEF Table!Read, Part
    <3>2. QED  BY <3>1 DEF Table!Next
  <2>10. QED  BY <2>8, <2>9
<1>8. ASSUME NEW t \in Thread, Return(t)  PROVE Table!Next
  <2>1. op[t] # "none" /\ pc[t] = "return" /\ pc'[t] = "idle" /\ op'[t] = "none"
    BY <1>8 DEF Return, LocalInv
  <2>2. absOp[t] # "none" /\ absKeys[t] = {}
    BY <2>1 DEF absOp, absKeys, Unread
  <2>3. absOp' = [absOp EXCEPT ![t] = "none"]
    BY <1>8 DEF Return, absOp
  <2>4. absDict' = absDict /\ absKeys' = absKeys /\ absVal' = absVal
    <3>1. absDict' = absDict
      BY <1>8 DEF Return, absDict
    <3>2. \A u \in Thread : Unread(u)' = Unread(u)
      BY <1>8, <2>1 DEF Return, Unread
    <3>3. absVal' = absVal
      BY <1>8 DEF Return, absVal
    <3>4. QED  BY <3>1, <3>2, <3>3 DEF absKeys
  <2>5. Table!Return(t)
    BY <1>8, <2>2, <2>3, <2>4 DEF Return, Nothing, Table!Return
  <2>6. QED  BY <2>5 DEF Table!Next
<1>9. CASE UNCHANGED vars
  BY <1>9 DEF vars, Table!vars, absDict, absOp, absKeys, absVal, Unread
<1>10. QED
  BY <1>1, <1>2, <1>3, <1>4, <1>5, <1>6, <1>7, <1>8, <1>9 DEF Next, Start, Step

\* Linearizability: operations on one key seem to take place one after the other
\* on a plain table, and get_map() to copy each bucket at one instant.
THEOREM Refinement == Spec => ImplementsTable
<1>1. Init => Table!Init
  <2> SUFFICES ASSUME Init  PROVE Table!Init
    OBVIOUS
  <2>1. absDict = [k \in Key |-> Absent]
    <3>1. \A k \in Key : ValueIn(data[BucketOf(k)], k) = Absent
      BY BucketOfKey, ValueInMiss DEF Init
    <3>2. QED  BY <3>1 DEF absDict
  <2>2. QED  BY <2>1 DEF Init, Nothing, Table!Init, absOp, absKeys, absVal, Unread, Readers, Writers
<1>2. QED
  BY <1>1, StepRefines, Invariance, PTL DEF Spec, ImplementsTable, Table!Spec
==============================================================================
