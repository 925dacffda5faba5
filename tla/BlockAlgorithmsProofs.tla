----------------------- MODULE BlockAlgorithmsProofs -----------------------
(* Proofs about Blocks and BlockAlgorithms, for ranges of any length, any  *)
(* number of hardware threads, and any min_per_thread.                     *)
EXTENDS BlockAlgorithms, TLAPS

-----------------------------------------------------------------------------
(* The division of a range into blocks *)

\* What division does: the facts the provers need about \div by a variable.
LEMMA Division ==
  ASSUME NEW a \in Nat, NEW d \in Nat \ {0}
  PROVE  a \div d \in Nat /\ d * (a \div d) <= a /\ a < d * (a \div d) + d
OBVIOUS

\* Products are monotonic.
LEMMA Monotonic ==
  ASSUME NEW a \in Nat, NEW b \in Nat, NEW c \in Nat, a <= b
  PROVE  a * c <= b * c /\ c * a <= c * b /\ a * c \in Nat
OBVIOUS

\* At least one thread and no more than there are elements: no block is empty, and
\* the length is never divided by zero.
THEOREM ThreadNumBounds ==
  ASSUME NEW len \in Nat \ {0}, NEW hw \in Nat
  PROVE  /\ ThreadNum(len, hw) \in 1..len
         /\ BlockSize(len, hw) \in 1..len
<1> DEFINE M == MinPerThread
           a == len + M - 1
           maxThreads == a \div M
           T == ThreadNum(len, hw)
<1>1. M \in Nat \ {0} /\ a \in Nat
  BY MinAssumption
<1>2. maxThreads \in Nat /\ M * maxThreads <= a /\ a < M * maxThreads + M
  BY <1>1, Division
<1> HIDE DEF maxThreads
<1>3. maxThreads >= 1
  <2>1. CASE maxThreads = 0
    BY <1>1, <1>2, <2>1
  <2>2. QED  BY <1>2, <2>1
<1>4. maxThreads <= len
  <2> SUFFICES ASSUME maxThreads >= len + 1  PROVE FALSE
    BY <1>2
  <2>1. (len + 1) * M <= maxThreads * M
    BY <1>1, <1>2, Monotonic
  <2>2. len * M >= len
    BY <1>1
  <2>3. QED  BY <1>1, <1>2, <2>1, <2>2
<1>5. T \in 1..len
  BY <1>2, <1>3, <1>4 DEF ThreadNum, maxThreads
<1> HIDE DEF T
<1>6. len \div T \in Nat /\ T * (len \div T) <= len /\ len < T * (len \div T) + T
  BY <1>5, Division
<1> DEFINE B == len \div T
<1> HIDE DEF B
<1>7. B # 0
  BY <1>5, <1>6 DEF B
<1>8. B <= len
  <2>1. 1 * B <= T * B
    BY <1>5, <1>6, Monotonic DEF B
  <2>2. QED  BY <1>5, <1>6, <2>1 DEF B
<1>9. QED  BY <1>5, <1>6, <1>7, <1>8 DEF B, T, BlockSize

\* The blocks are in order and within the range, and each begins where the one
\* before it ends: the loop's block_start is the next block's.
THEOREM BlocksInOrder ==
  ASSUME NEW len \in Nat \ {0}, NEW hw \in Nat,
         NEW b \in 0..ThreadNum(len, hw) - 1
  PROVE  /\ BlockStart(len, hw, b) \in 0..len - 1
         /\ BlockEnd(len, hw, b) \in 1..len
         /\ BlockStart(len, hw, b) < BlockEnd(len, hw, b)
         /\ b < ThreadNum(len, hw) - 1 =>
              /\ BlockEnd(len, hw, b) = BlockStart(len, hw, b + 1)
              /\ BlockEnd(len, hw, b)
                   = BlockStart(len, hw, b) + BlockSize(len, hw)
         /\ \A j \in 0..ThreadNum(len, hw) - 1 :
              b < j => BlockEnd(len, hw, b) <= BlockStart(len, hw, j)
<1> DEFINE T == ThreadNum(len, hw)
           B == BlockSize(len, hw)
           S(k) == BlockStart(len, hw, k)
           E(k) == BlockEnd(len, hw, k)
<1>1. T \in 1..len /\ B \in 1..len
  BY ThreadNumBounds
<1>2. T * B <= len
  BY <1>1, Division DEF BlockSize
<1>3. \A k : S(k) = k * B /\ E(k) = IF k = T - 1 THEN len ELSE (k + 1) * B
  BY DEF BlockStart, BlockEnd
<1> HIDE DEF T, B, S, E
<1>4. \A k \in 0..T - 1 : k * B \in Nat /\ (k + 1) * B = k * B + B /\ (k + 1) * B <= T * B
  BY <1>1, Monotonic DEF T
<1>5. ASSUME NEW j \in 0..T - 1, b < j  PROVE E(b) <= S(j)
  <2>1. (b + 1) * B <= j * B
    BY <1>1, <1>5, Monotonic DEF T
  <2>2. QED  BY <1>1, <1>3, <1>5, <2>1 DEF T
<1>6. S(b) \in 0..len - 1 /\ E(b) \in 1..len /\ S(b) < E(b)
  BY <1>1, <1>2, <1>3, <1>4 DEF T
<1>7. b < T - 1 => E(b) = S(b + 1) /\ E(b) = S(b) + B
  BY <1>1, <1>3, <1>4 DEF T
<1>8. QED  BY <1>5, <1>6, <1>7 DEF T, B, S, E

\* Every element of the range is in a block, and in no other.
THEOREM BlocksPartition ==
  ASSUME NEW len \in Nat \ {0}, NEW hw \in Nat, NEW e \in 0..len - 1
  PROVE  \E b \in 0..ThreadNum(len, hw) - 1 :
           /\ BlockStart(len, hw, b) <= e /\ e < BlockEnd(len, hw, b)
           /\ \A j \in (0..ThreadNum(len, hw) - 1) \ {b} :
                ~(BlockStart(len, hw, j) <= e /\ e < BlockEnd(len, hw, j))
<1> DEFINE T == ThreadNum(len, hw)
           B == BlockSize(len, hw)
           S(k) == BlockStart(len, hw, k)
           E(k) == BlockEnd(len, hw, k)
           I == 0..T - 1
<1>1. T \in 1..len /\ B \in 1..len
  BY ThreadNumBounds
<1>2. \A k : S(k) = k * B /\ E(k) = IF k = T - 1 THEN len ELSE (k + 1) * B
  BY DEF BlockStart, BlockEnd
<1>3. \A k, l \in I : k < l => E(k) <= S(l)
  BY BlocksInOrder
<1>4. \A k \in I : S(k) \in Int /\ E(k) \in Int
  BY BlocksInOrder
<1> HIDE DEF T, B, S, E
<1>5. \E k \in I : S(k) <= e /\ e < E(k)
  <2>1. CASE (T - 1) * B <= e
    BY <1>1, <1>2, <2>1
  <2>2. CASE e < (T - 1) * B
    <3> DEFINE k == e \div B
    <3>1. k \in Nat /\ B * k <= e /\ e < B * k + B
      BY <1>1, Division
    <3> HIDE DEF k
    <3>2. k < T - 1
      <4> SUFFICES ASSUME T - 1 <= k  PROVE FALSE
        BY <1>1, <3>1
      <4>1. (T - 1) * B <= k * B
        BY <1>1, <3>1, Monotonic
      <4>2. QED  BY <1>1, <2>2, <3>1, <4>1
    <3>3. (k + 1) * B = B * k + B /\ k * B = B * k
      BY <1>1, <3>1
    <3>4. S(k) = B * k /\ E(k) = B * k + B
      <4>1. S(k) = k * B /\ E(k) = IF k = T - 1 THEN len ELSE (k + 1) * B
        BY <1>2
      <4>2. k # T - 1
        BY <1>1, <3>1, <3>2
      <4>3. QED  BY <3>3, <4>1, <4>2
    <3>5. k \in I
      BY <1>1, <3>1, <3>2
    <3>6. QED  BY <3>1, <3>4, <3>5
  <2>3. QED  BY <1>1, <2>1, <2>2
<1>6. PICK k \in I : S(k) <= e /\ e < E(k)
  BY <1>5
<1>7. ASSUME NEW j \in I \ {k}, S(j) <= e, e < E(j)  PROVE FALSE
  <2>1. j < k \/ k < j
    BY <1>1, <1>7
  <2>2. QED  BY <1>1, <1>3, <1>4, <1>6, <1>7, <2>1
<1>8. \E m \in I : S(m) <= e /\ e < E(m) /\ \A j \in I \ {m} : ~(S(j) <= e /\ e < E(j))
  BY <1>6, <1>7
<1>9. QED  BY <1>8 DEF T, S, E

-----------------------------------------------------------------------------
(* The algorithms *)

USE BoundAssumption DEF input, caller, work

\* The numbers of the loops over the blocks.
LEMMA Numbers ==
  ASSUME TypeOK, length # 0
  PROVE  /\ thread_num \in 1..length /\ block_size \in 1..length
         /\ Last \in 0..length - 1 /\ Last \in Block /\ Last < thread_num
         /\ length \in 1..MaxLength
<1>1. length \in Nat \ {0} /\ hardware \in Nat /\ length <= MaxLength
  BY DEF TypeOK
<1>2. thread_num \in 1..length /\ block_size \in 1..length
  BY <1>1, ThreadNumBounds DEF thread_num, block_size
<1>3. QED  BY <1>1, <1>2 DEF Last, Block

\* Where the blocks are.
LEMMA Places ==
  ASSUME TypeOK, length # 0, NEW b \in 0..Last
  PROVE  /\ BlockStart(length, hardware, b) \in 0..length - 1
         /\ BlockEnd(length, hardware, b) \in 1..length
         /\ BlockStart(length, hardware, b) < BlockEnd(length, hardware, b)
         /\ b < Last => /\ BlockEnd(length, hardware, b) = BlockStart(length, hardware, b + 1)
                        /\ BlockEnd(length, hardware, b)
                             = BlockStart(length, hardware, b) + block_size
         /\ b = Last => BlockEnd(length, hardware, b) = length
<1>1. length \in Nat \ {0} /\ hardware \in Nat
  BY DEF TypeOK
<1>2. b \in 0..ThreadNum(length, hardware) - 1
  BY DEF Last, thread_num
<1>3. QED  BY <1>1, <1>2, BlocksInOrder DEF Last, thread_num, block_size, BlockEnd

\* Blocks that were begun have no element in common, and if all were begun and
\* have come to their end, every element is in one of them.
LEMMA Disjoint ==
  ASSUME TypeOK, BlockInv, NEW b \in Block, NEW c \in Block, b # c, st[b] # "none", st[c] # "none",
         NEW e \in Elem, begin[b] <= e, e < end[b]
  PROVE  ~(begin[c] <= e /\ e < end[c])
<1>1. length \in Nat \ {0} /\ hardware \in Nat
  BY DEF TypeOK, Elem
<1>2. thread_num \in 1..length
  BY <1>1, Numbers
<1>3. b \in 0..ThreadNum(length, hardware) - 1 /\ c \in 0..ThreadNum(length, hardware) - 1
  BY <1>2 DEF BlockInv, BlockFact, Block, thread_num
<1>4. PICK m \in 0..ThreadNum(length, hardware) - 1 :
        \A j \in (0..ThreadNum(length, hardware) - 1) \ {m} :
          ~(BlockStart(length, hardware, j) <= e /\ e < BlockEnd(length, hardware, j))
  BY <1>1, BlocksPartition DEF Elem
<1>5. b = m
  BY <1>3, <1>4 DEF BlockInv, BlockFact
<1>6. QED  BY <1>3, <1>4, <1>5 DEF BlockInv, BlockFact

LEMMA Covered ==
  ASSUME TypeOK, BlockInv, NEW e \in Elem,
         \A b \in Block : b < thread_num => st[b] # "none" /\ pos[b] = end[b]
  PROVE  \E b \in Block : b < thread_num /\ e \in Mine(b)
<1>1. length \in Nat \ {0} /\ hardware \in Nat
  BY DEF TypeOK, Elem
<1>2. thread_num \in 1..length /\ length \in 1..MaxLength
  BY <1>1, Numbers
<1>3. PICK m \in 0..ThreadNum(length, hardware) - 1 :
        BlockStart(length, hardware, m) <= e /\ e < BlockEnd(length, hardware, m)
  BY <1>1, BlocksPartition DEF Elem
<1>4. m \in Block /\ m < thread_num
  BY <1>2, <1>3 DEF Block, thread_num
<1>5. QED  BY <1>3, <1>4 DEF BlockInv, BlockFact, Mine

\* Where the loops of the caller are.
LEMMA AtCreate ==
  ASSUME TypeOK, PhaseInv, pc = "create"
  PROVE  /\ length # 0 /\ i \in 0..Last /\ i \in Block
         /\ start = BlockStart(length, hardware, i) /\ start \in 0..length - 1
         /\ i < Last => /\ start + block_size = BlockEnd(length, hardware, i)
                        /\ start + block_size = BlockStart(length, hardware, i + 1)
                        /\ start + block_size \in 0..length /\ i + 1 \in 0..MaxLength
<1>1. length # 0 /\ i < thread_num /\ start = BlockStart(length, hardware, i) /\ i \in Nat
  BY DEF PhaseInv, CallerInv, TypeOK
<1>2. Last = thread_num - 1 /\ thread_num \in Int /\ Last \in Block /\ Last \in Nat
  BY <1>1, Numbers DEF Last
<1>3. i \in 0..Last
  BY <1>1, <1>2
<1>4. start \in 0..length - 1 /\ (i < Last => /\ start + block_size = BlockEnd(length, hardware, i)
                                             /\ start + block_size = BlockStart(length, hardware, i + 1))
  BY <1>1, <1>3, Places
<1>5. BlockEnd(length, hardware, i) \in 0..length
  BY <1>1, <1>3, Places
<1>6. i \in Block /\ (i < Last => i + 1 \in 0..MaxLength)
  BY <1>2, <1>3 DEF Block
<1>7. QED  BY <1>1, <1>3, <1>4, <1>5, <1>6

LEMMA AtGet ==
  ASSUME TypeOK, PhaseInv, pc = "get"
  PROVE  length # 0 /\ i \in 0..Last /\ i \in Block /\ (i < Last => i + 1 \in 0..Last /\ i + 1 \in Block)
<1>1. length # 0 /\ i < thread_num /\ i \in Nat
  BY DEF PhaseInv, CallerInv, TypeOK
<1>2. Last = thread_num - 1 /\ thread_num \in Int /\ Last \in Block /\ Last \in Nat
  BY <1>1, Numbers DEF Last
<1>3. QED  BY <1>1, <1>2 DEF Block

LEMMA Increment ==
  ASSUME NEW S, NEW f \in [S -> Nat], NEW x \in S
  PROVE  [f EXCEPT ![x] = @ + 1] \in [S -> Nat]
OBVIOUS

LEMMA PlusType ==
  ASSUME TypeOK, NEW b \in Block
  PROVE  Plus(b) \in [0..MaxLength -> Nat]
BY DEF Plus, TypeOK

LEMMA TypeStep == TypeOK /\ BlockInv /\ PhaseInv /\ FindInv /\ [Next]_vars => TypeOK'
<1> SUFFICES ASSUME TypeOK, BlockInv, PhaseInv, FindInv, [Next]_vars  PROVE TypeOK'
  OBVIOUS
<1> USE DEF TypeOK, Goto, FindGoto, Elem
<1>1. CASE Call
  BY <1>1 DEF Call
<1>2. CASE CreateThread
  <2>1. start + block_size \in 0..length /\ i + 1 \in 0..MaxLength
    BY <1>2, AtCreate DEF CreateThread, Last
  <2>2. PICK s \in {"run", "deferred"} : Assign(i, start + block_size, s)
    BY <1>2 DEF CreateThread
  <2>3. /\ st' \in [Block -> {"none", "deferred", "run", "compare", "set", "catch", "store",
                            "ready", "threw"}]
        /\ begin' \in [Block -> 0..length] /\ pos' \in [Block -> 0..length]
        /\ end' \in [Block -> 0..length]
    BY <2>1, <2>2 DEF Assign
  <2>4. UNCHANGED <<input, pc, count, promise, flag, outcome>> /\ i' = i + 1 /\ start' = start + block_size
    BY <1>2 DEF CreateThread
  <2>5. QED  BY <2>1, <2>3, <2>4
<1>3. CASE CreateFails
  BY <1>3 DEF CreateFails
<1>4. CASE BeginOwn
  <2>1. Assign(i, length, "run") /\ UNCHANGED <<input, i, start, count, promise, flag, outcome>> /\ pc' = "own"
    BY <1>4 DEF BeginOwn
  <2>2. length \in 0..length
    OBVIOUS
  <2>3. /\ st' \in [Block -> {"none", "deferred", "run", "compare", "set", "catch", "store",
                            "ready", "threw"}]
        /\ begin' \in [Block -> 0..length] /\ pos' \in [Block -> 0..length]
        /\ end' \in [Block -> 0..length]
    BY <2>1, <2>2 DEF Assign
  <2>4. QED  BY <2>1, <2>3
<1>5. CASE EndOwn
  BY <1>5 DEF EndOwn
<1>6. CASE JoinAll
  BY <1>6 DEF JoinAll
<1>7. CASE Get
  <2>1. i \in Block /\ i + 1 \in 0..MaxLength
    BY <1>7, AtGet DEF Get, Block, Last
  <2>2. CASE st[i] = "ready" /\ i' = i + 1 /\ UNCHANGED <<pc, st, outcome>>
    <3>1. count' = IF kind = "accumulate" THEN Plus(i) ELSE count
      BY <1>7, <2>2 DEF Get
    <3>2. count' \in [0..MaxLength -> Nat]
      BY <2>1, <3>1, PlusType
    <3>3. UNCHANGED <<input, start, begin, pos, end, promise, flag>>
      BY <1>7 DEF Get
    <3>4. QED  BY <2>1, <2>2, <3>2, <3>3
  <2>3. QED  BY <1>7, <2>2 DEF Get
<1>8. CASE GotAll
  <2>1. Last \in Block
    BY <1>8, AtGet, Numbers DEF GotAll
  <2>2. QED  BY <1>8, <2>1, PlusType DEF GotAll
<1>9. CASE Join
  BY <1>9 DEF Join
<1>10. CASE Report
  BY <1>10 DEF Report
<1>11. ASSUME NEW b \in Block, Apply(b)  PROVE TypeOK'
  <2>1. pos[b] # end[b] => pos[b] + 1 \in 0..length /\ pos[b] \in 0..MaxLength
    <3>1. st[b] = "run" /\ begin[b] <= pos[b] /\ pos[b] <= end[b]
      BY <1>11 DEF Apply, BlockInv, BlockFact
    <3>2. pos[b] \in 0..length /\ end[b] \in 0..length /\ length \in 0..MaxLength
      OBVIOUS
    <3> HIDE DEF TypeOK
    <3>3. QED  BY <3>1, <3>2
  <2>2. CASE UNCHANGED <<pos, count>>
    BY <1>11, <2>2 DEF Apply
  <2>3. CASE pos[b] # end[b] /\ pos' = [pos EXCEPT ![b] = @ + 1]
    <3>1. count' = count \/ count' = [count EXCEPT ![pos[b]] = @ + 1]
      BY <1>11, <2>3 DEF Apply
    <3>2. count' \in [0..MaxLength -> Nat]
      <4>1. count \in [0..MaxLength -> Nat] /\ pos[b] \in 0..MaxLength
        BY <2>1, <2>3
      <4> HIDE DEF TypeOK
      <4>2. [count EXCEPT ![pos[b]] = @ + 1] \in [0..MaxLength -> Nat]
        BY <4>1, Increment
      <4>3. QED  BY <3>1, <4>1, <4>2, Zenon
    <3>3. st' = st /\ UNCHANGED <<input, caller, begin, end, promise, flag, outcome>>
      BY <1>11, <2>3 DEF Apply
    <3>4. QED  BY <2>1, <2>3, <3>2, <3>3
  <2>4. QED  BY <1>11, <2>2, <2>3 DEF Apply
<1>12. ASSUME NEW b \in Block, Test(b)  PROVE TypeOK'
  BY <1>12 DEF Test
<1>13. ASSUME NEW b \in Block, Compare(b)  PROVE TypeOK'
  <2>1. pos[b] + 1 \in 0..length
    BY <1>13 DEF Compare, BlockInv, BlockFact
  <2>2. QED  BY <1>13, <2>1 DEF Compare
<1>14. ASSUME NEW b \in Block, SetValue(b)  PROVE TypeOK'
  BY <1>14 DEF SetValue, FindInv
<1>15. ASSUME NEW b \in Block, SetException(b)  PROVE TypeOK'
  BY <1>15 DEF SetException
<1>16. ASSUME NEW b \in Block, StoreFlag(b)  PROVE TypeOK'
  BY <1>16 DEF StoreFlag
<1>17. CASE UNCHANGED vars
  BY <1>17 DEF vars
<1>18. QED
  BY <1>1, <1>2, <1>3, <1>4, <1>5, <1>6, <1>7, <1>8, <1>9, <1>10, <1>11, <1>12, <1>13, <1>14,
     <1>15, <1>16, <1>17 DEF Next, CallerStep, WorkOn

\* A step changes one block at most.
LEMMA OtherBlocks ==
  ASSUME BlockInv, NEW b \in Block, BlockFact(b)', UNCHANGED input,
         \A c \in Block \ {b} : /\ st'[c] = st[c] /\ begin'[c] = begin[c]
                                /\ pos'[c] = pos[c] /\ end'[c] = end[c]
  PROVE  BlockInv'
BY DEF BlockInv, BlockFact, Mine, Elem, Last, thread_num, Block

\* A block that the caller begins.
LEMMA Begun ==
  ASSUME TypeOK, BlockInv, FindInv, NEW b \in Block, NEW s \in {"run", "deferred"},
         NEW e \in Int, Assign(b, e, s), UNCHANGED input,
         start = BlockStart(length, hardware, b), e = BlockEnd(length, hardware, b),
         start \in Int, start <= e, b < thread_num, s = "deferred" => kind = "for_each_async" /\ b < Last
  PROVE  BlockInv'
<1>1. /\ st'[b] = s /\ begin'[b] = start /\ pos'[b] = start /\ end'[b] = e
      /\ \A c \in Block \ {b} : /\ st'[c] = st[c] /\ begin'[c] = begin[c]
                                /\ pos'[c] = pos[c] /\ end'[c] = end[c]
  BY DEF Assign, TypeOK
<1>2. Mine(b)' = {}
  BY <1>1 DEF Mine, Elem, TypeOK
<1>3. BlockFact(b)'
  BY <1>1, <1>2 DEF BlockFact, thread_num, Last
<1>4. QED  BY <1>1, <1>3, OtherBlocks

LEMMA BlockStep == TypeOK /\ BlockInv /\ PhaseInv /\ FindInv /\ [Next]_vars => BlockInv'
<1> SUFFICES ASSUME TypeOK, BlockInv, PhaseInv, FindInv, [Next]_vars  PROVE BlockInv'
  OBVIOUS
<1> USE DEF Goto, FindGoto
<1>0. ASSUME UNCHANGED <<input, work>>  PROVE BlockInv'
  BY <1>0 DEF BlockInv, BlockFact, Mine, Elem, Last, thread_num, Block
<1>1. CASE Call
  BY <1>0, <1>1 DEF Call
<1>2. CASE CreateThread
  <2>1. PICK s \in {"run", "deferred"} :
          s = "deferred" => kind = "for_each_async" /\ Assign(i, start + block_size, s)
    BY <1>2 DEF CreateThread
  <2>2. QED  BY <1>2, <2>1, AtCreate, Begun, Numbers DEF CreateThread, Last
<1>3. CASE CreateFails
  BY <1>0, <1>3 DEF CreateFails
<1>4. CASE BeginOwn
  BY <1>4, AtCreate, Begun, Places, Numbers DEF BeginOwn, Last
<1>5. CASE EndOwn
  BY <1>0, <1>5 DEF EndOwn
<1>6. CASE JoinAll
  BY <1>0, <1>6 DEF JoinAll
<1>7. CASE Get
  <2>1. PICK b \in Block : b = i
    BY <1>7, AtGet DEF Get
  <2>2. BlockFact(b)'
    BY <1>7, <2>1 DEF Get, BlockInv, BlockFact, Mine, Elem, Last, thread_num, TypeOK
  <2>3. QED  BY <1>7, <2>1, <2>2, OtherBlocks DEF Get, TypeOK
<1>8. CASE GotAll
  BY <1>0, <1>8 DEF GotAll
<1>9. CASE Join
  BY <1>0, <1>9 DEF Join
<1>10. CASE Report
  BY <1>0, <1>10 DEF Report
<1>11. ASSUME NEW b \in Block, Apply(b)  PROVE BlockInv'
  <2>1. CASE UNCHANGED <<pos, count>>
    <3>1. BlockFact(b)'
      BY <1>11, <2>1 DEF Apply, BlockInv, BlockFact, Mine, Elem, Last, thread_num, TypeOK
    <3>2. QED  BY <1>11, <2>1, <3>1, OtherBlocks DEF Apply, TypeOK
  <2>2. CASE pos[b] # end[b] /\ pos[b] \notin bad /\ pos' = [pos EXCEPT ![b] = @ + 1] /\ st' = st
    <3>1. match = {} /\ st[b] = "run" /\ kind # "find" /\ UNCHANGED <<input, begin, end>>
      BY <1>11 DEF Apply, FindInv
    <3>2. pos'[b] = pos[b] + 1 /\ pos[b] \in Int /\ end[b] \in Int
      BY <2>2 DEF TypeOK
    <3>3. BlockFact(b)
      BY DEF BlockInv
    <3>4. Mine(b)' = Mine(b) \cup {pos[b]} /\ begin[b] <= pos[b] + 1 /\ pos[b] + 1 <= end[b]
      BY <2>2, <3>1, <3>2, <3>3 DEF Mine, Elem, BlockFact, TypeOK
    <3>5. BlockFact(b)'
      BY <2>2, <3>1, <3>2, <3>3, <3>4 DEF BlockFact, Last, thread_num
    <3>6. QED  BY <2>2, <3>1, <3>5, OtherBlocks DEF TypeOK
  <2>3. QED  BY <1>11, <2>1, <2>2 DEF Apply
<1>12. ASSUME NEW b \in Block, Test(b)  PROVE BlockInv'
  <2>1. BlockFact(b)'
    BY <1>12 DEF Test, BlockInv, BlockFact, Mine, Elem, Last, thread_num, TypeOK
  <2>2. QED  BY <1>12, <2>1, OtherBlocks DEF Test, TypeOK
<1>13. ASSUME NEW b \in Block, Compare(b)  PROVE BlockInv'
  <2>1. BlockFact(b)'
    BY <1>13 DEF Compare, BlockInv, BlockFact, Mine, Elem, Last, thread_num, TypeOK
  <2>2. QED  BY <1>13, <2>1, OtherBlocks DEF Compare, TypeOK
<1>14. ASSUME NEW b \in Block, SetValue(b)  PROVE BlockInv'
  <2>1. BlockFact(b)'
    BY <1>14 DEF SetValue, BlockInv, BlockFact, Mine, Elem, Last, thread_num, TypeOK
  <2>2. QED  BY <1>14, <2>1, OtherBlocks DEF SetValue, TypeOK
<1>15. ASSUME NEW b \in Block, SetException(b)  PROVE BlockInv'
  <2>1. BlockFact(b)'
    BY <1>15 DEF SetException, BlockInv, BlockFact, Mine, Elem, Last, thread_num, TypeOK
  <2>2. QED  BY <1>15, <2>1, OtherBlocks DEF SetException, TypeOK
<1>16. ASSUME NEW b \in Block, StoreFlag(b)  PROVE BlockInv'
  <2>1. BlockFact(b)'
    BY <1>16 DEF StoreFlag, BlockInv, BlockFact, Mine, Elem, Last, thread_num, TypeOK
  <2>2. QED  BY <1>16, <2>1, OtherBlocks DEF StoreFlag, TypeOK
<1>17. CASE UNCHANGED vars
  BY <1>0, <1>17 DEF vars
<1>18. QED
  BY <1>1, <1>2, <1>3, <1>4, <1>5, <1>6, <1>7, <1>8, <1>9, <1>10, <1>11, <1>12, <1>13, <1>14,
     <1>15, <1>16, <1>17 DEF Next, CallerStep, WorkOn

\* Work on a block leaves the caller where it is, and goes on or ends the block.
LEMMA Working ==
  ASSUME TypeOK, BlockInv, NEW b \in Block, WorkOn(b)
  PROVE  /\ UNCHANGED <<input, caller, outcome, begin, end>> /\ Running(b)
         /\ st'[b] \notin {"none", "deferred"} /\ \A c \in Block \ {b} : st'[c] = st[c] /\ pos'[c] = pos[c]
<1> USE DEF TypeOK, FindGoto, Running
<1>1. CASE Apply(b)
  BY <1>1 DEF Apply
<1>2. CASE Test(b)
  BY <1>2 DEF Test
<1>3. CASE Compare(b)
  BY <1>3 DEF Compare
<1>4. CASE SetValue(b)
  BY <1>4 DEF SetValue
<1>5. CASE SetException(b)
  BY <1>5 DEF SetException
<1>6. CASE StoreFlag(b)
  BY <1>6 DEF StoreFlag
<1>7. QED  BY <1>1, <1>2, <1>3, <1>4, <1>5, <1>6 DEF WorkOn

LEMMA PhaseStep == TypeOK /\ BlockInv /\ PhaseInv /\ FindInv /\ [Next]_vars => PhaseInv'
<1> SUFFICES ASSUME TypeOK, BlockInv, PhaseInv, FindInv, [Next]_vars  PROVE PhaseInv'
  OBVIOUS
<1> USE DEF Goto, Searched, Running, Block
<1>a. /\ pc \in {"call", "create", "own", "join_all", "get", "join", "result", "return"}
      /\ i \in Nat /\ length \in Nat
      /\ st \in [Block -> {"none", "deferred", "run", "compare", "set", "catch", "store",
                           "ready", "threw"}]
  BY DEF TypeOK
<1>b. length # 0 => /\ thread_num \in Nat \ {0} /\ Last = thread_num - 1 /\ Last \in Block
                    /\ BlockStart(length, hardware, 0) = 0
  BY Numbers DEF Last, BlockStart, block_size
<1>c. UNCHANGED input => thread_num' = thread_num /\ Last' = Last
  BY DEF thread_num, Last
<1>d. \A b \in Block : Running(b) => b < thread_num
  BY DEF BlockInv, BlockFact
<1>1. CASE Call
  <2>1. CallerInv'
    BY <1>1, <1>a, <1>b, <1>c DEF Call, PhaseInv, CallerInv
  <2>2. BegunInv'
    BY <1>1, <1>a, <1>b, <1>c DEF Call, PhaseInv, CallerInv, BegunInv
  <2>3. EndedInv'
    BY <1>1, <1>a, <1>b, <1>c DEF Call, PhaseInv, CallerInv, BegunInv, EndedInv, NoStragglers
  <2>4. QED  BY <2>1, <2>2, <2>3 DEF PhaseInv
<1>2. CASE CreateThread
  <2>a. /\ pc = "create" /\ i < Last /\ i \in Block /\ start' = BlockStart(length, hardware, i + 1)
        /\ length # 0 /\ outcome = <<>> /\ i' = i + 1 /\ UNCHANGED <<input, pc, outcome>>
    BY <1>2, <1>b, AtCreate DEF CreateThread, PhaseInv, CallerInv
  <2>b. PICK s \in {"run", "deferred"} : st' = [st EXCEPT ![i] = s]
    BY <1>2 DEF CreateThread, Assign
  <2>1. CallerInv'
    BY <2>a, <1>a, <1>b, <1>c DEF CallerInv
  <2>2. BegunInv'
    BY <2>a, <2>b, <1>a, <1>c DEF PhaseInv, BegunInv
  <2>3. EndedInv'
    BY <1>2, <1>a, <1>b, <1>c DEF CreateThread, PhaseInv, CallerInv, BegunInv, EndedInv, NoStragglers
  <2>4. QED  BY <2>1, <2>2, <2>3 DEF PhaseInv
<1>3. CASE CreateFails
  <2>1. CallerInv'
    BY <1>3, <1>a, <1>b, <1>c DEF CreateFails, PhaseInv, CallerInv
  <2>2. BegunInv'
    BY <1>3, <1>a, <1>b, <1>c DEF CreateFails, PhaseInv, CallerInv, BegunInv
  <2>3. EndedInv'
    BY <1>3, <1>a, <1>b, <1>c DEF CreateFails, PhaseInv, CallerInv, BegunInv, EndedInv, NoStragglers
  <2>4. QED  BY <2>1, <2>2, <2>3 DEF PhaseInv
<1>4. CASE BeginOwn
  <2>1. CallerInv'
    BY <1>4, <1>a, <1>b, <1>c DEF BeginOwn, PhaseInv, CallerInv
  <2>a. /\ pc = "create" /\ i = Last /\ i \in Block /\ length # 0 /\ pc' = "own"
        /\ st' = [st EXCEPT ![i] = "run"] /\ UNCHANGED <<input, i, outcome>>
    BY <1>4, <1>b, AtCreate DEF BeginOwn, Assign
  <2>2. BegunInv'
    BY <2>a, <1>a, <1>b, <1>c DEF PhaseInv, BegunInv
  <2>3. EndedInv'
    BY <1>4, <1>a, <1>b, <1>c DEF BeginOwn, PhaseInv, CallerInv, BegunInv, EndedInv, NoStragglers
  <2>4. QED  BY <2>1, <2>2, <2>3 DEF PhaseInv
<1>5. CASE EndOwn
  <2>1. CallerInv'
    BY <1>5, <1>a, <1>b, <1>c DEF EndOwn, PhaseInv, CallerInv
  <2>2. BegunInv'
    BY <1>5, <1>a, <1>b, <1>c DEF EndOwn, PhaseInv, CallerInv, BegunInv
  <2>a. length # 0 /\ st[Last] \in {"ready", "threw"}
    <3>1. pc = "own" /\ length # 0
      BY <1>5 DEF EndOwn, PhaseInv, CallerInv
    <3>2. st[Last] # "none" /\ Last \in Nat
      BY <3>1, <1>b DEF PhaseInv, BegunInv
    <3>3. st[Last] # "deferred"
      BY <3>1, <3>2, <1>b DEF BlockInv, BlockFact
    <3>4. QED  BY <1>5, <1>a, <1>b, <3>1, <3>2, <3>3 DEF EndOwn
  <2>b. \A b \in Block : Running(b) => b < Last
    BY <1>a, <1>b, <1>d, <2>a
  <2>c. /\ UNCHANGED <<input, st>> /\ pc' \in {"join", "join_all", "get"} /\ outcome' # <<"ok">>
        /\ (pc' = "get" => i' = 0) /\ (pc' \in {"join_all", "get"} => st[Last] = "ready")
    BY <1>5, <2>a DEF EndOwn, PhaseInv, CallerInv
  <2>3. EndedInv'
    BY <1>b, <1>c, <2>a, <2>b, <2>c DEF EndedInv, NoStragglers
  <2>4. QED  BY <2>1, <2>2, <2>3 DEF PhaseInv
<1>6. CASE JoinAll
  <2>1. CallerInv'
    BY <1>6, <1>a, <1>b, <1>c DEF JoinAll, PhaseInv, CallerInv
  <2>2. BegunInv'
    BY <1>6, <1>a, <1>b, <1>c DEF JoinAll, PhaseInv, CallerInv, BegunInv
  <2>3. EndedInv'
    BY <1>6, <1>a, <1>b, <1>c DEF JoinAll, PhaseInv, CallerInv, BegunInv, EndedInv, NoStragglers
  <2>4. QED  BY <2>1, <2>2, <2>3 DEF PhaseInv
<1>7. CASE Get
  <2>a. /\ pc = "get" /\ i < Last /\ i \in Block /\ length # 0 /\ kind # "find" /\ outcome = <<>>
        /\ UNCHANGED input /\ st[Last] = "ready" /\ st[i] \notin {"run", "none"}
    BY <1>7, <1>b, AtGet DEF Get, PhaseInv, CallerInv, EndedInv
  <2>b. \A b \in Block : b < i => st[b] = "ready"
    BY <2>a DEF PhaseInv, EndedInv
  <2>1. CASE pc' = "join" /\ outcome' = <<"exception">> /\ UNCHANGED <<i, st>>
    <3>1. CallerInv'
      BY <2>a, <2>1 DEF CallerInv
    <3>2. BegunInv'
      BY <2>a, <2>1 DEF BegunInv
    <3>3. EndedInv'
      BY <1>a, <1>b, <1>c, <1>d, <2>a, <2>1 DEF EndedInv, NoStragglers
    <3>4. QED  BY <3>1, <3>2, <3>3 DEF PhaseInv
  <2>2. CASE /\ UNCHANGED <<pc, outcome>> /\ i' \in Nat /\ i' < thread_num
             /\ st' = st \/ st' = [st EXCEPT ![i] = "run"]
             /\ \A b \in Block : b < i' => st'[b] = "ready"
    <3>1. CallerInv'
      BY <2>a, <2>2, <1>c DEF CallerInv
    <3>2. BegunInv'
      BY <1>a, <1>c, <2>a, <2>2 DEF PhaseInv, BegunInv
    <3>3. EndedInv'
      BY <1>a, <1>b, <1>c, <2>a, <2>2 DEF EndedInv, NoStragglers
    <3>4. QED  BY <3>1, <3>2, <3>3 DEF PhaseInv
  <2>3. CASE st[i] = "deferred" /\ st' = [st EXCEPT ![i] = "run"] /\ UNCHANGED <<pc, i, outcome>>
    BY <1>a, <1>b, <2>a, <2>b, <2>2, <2>3
  <2>4. CASE st[i] = "ready" /\ i' = i + 1 /\ UNCHANGED <<pc, st, outcome>>
    BY <1>a, <1>b, <2>a, <2>b, <2>2, <2>4
  <2>5. QED  BY <1>7, <2>1, <2>3, <2>4 DEF Get
<1>8. CASE GotAll
  <2>a. /\ pc = "get" /\ i = Last /\ pc' = "join" /\ outcome' = <<"ok">> /\ length # 0 /\ kind # "find"
        /\ UNCHANGED <<input, i, st>> /\ st[Last] = "ready"
    BY <1>8, <1>b, AtGet DEF GotAll, PhaseInv, CallerInv, EndedInv
  <2>b. \A b \in Block : b < thread_num => st[b] = "ready"
    BY <1>a, <1>b, <2>a DEF PhaseInv, EndedInv
  <2>c. \A b \in Block : ~Running(b)
    BY <1>d, <2>b
  <2>1. CallerInv'
    BY <2>a DEF CallerInv
  <2>2. BegunInv'
    BY <2>a DEF BegunInv
  <2>3. EndedInv'
    BY <1>c, <2>a, <2>b, <2>c DEF EndedInv, NoStragglers
  <2>4. QED  BY <2>1, <2>2, <2>3 DEF PhaseInv
<1>9. CASE Join
  <2>1. CallerInv'
    BY <1>9, <1>a, <1>b, <1>c DEF Join, PhaseInv, CallerInv
  <2>2. BegunInv'
    BY <1>9, <1>a, <1>b, <1>c DEF Join, PhaseInv, CallerInv, BegunInv
  <2>a. \A b \in Block : ~Running(b)
    BY <1>9 DEF Join, AllEnded, PhaseInv, EndedInv
  <2>b. pc = "join" /\ pc' \in {"result", "return"} /\ UNCHANGED <<input, st, outcome>>
    BY <1>9 DEF Join
  <2>3. EndedInv'
    BY <1>c, <2>a, <2>b DEF PhaseInv, EndedInv, NoStragglers
  <2>4. QED  BY <2>1, <2>2, <2>3 DEF PhaseInv
<1>10. CASE Report
  <2>a. /\ pc = "result" /\ pc' = "return" /\ kind = "find" /\ length # 0
        /\ UNCHANGED <<input, i, start, st>>
    BY <1>10 DEF Report, PhaseInv, CallerInv
  <2>b. outcome' \notin {<<>>, <<"ok">>}
    BY <1>10 DEF Report, FindInv
  <2>1. CallerInv'
    BY <2>a, <2>b DEF CallerInv
  <2>2. BegunInv'
    BY <1>10, <1>a, <1>b, <1>c DEF Report, PhaseInv, CallerInv, BegunInv
  <2>3. EndedInv'
    BY <1>c, <2>a, <2>b DEF PhaseInv, EndedInv, NoStragglers
  <2>4. QED  BY <2>1, <2>2, <2>3 DEF PhaseInv
<1>11. ASSUME NEW b \in Block, WorkOn(b)  PROVE PhaseInv'
  <2>1. CallerInv'
    BY <1>11, <1>c, Working DEF PhaseInv, CallerInv
  <2>2. BegunInv'
    BY <1>11, <1>c, Working DEF PhaseInv, BegunInv
  <2>a. /\ UNCHANGED <<input, caller, outcome>> /\ Running(b) /\ st'[b] \notin {"none", "deferred"}
        /\ \A c \in Block \ {b} : st'[c] = st[c]
    BY <1>11, Working
  <2>b. \A c \in Block : Running(c)' => Running(c)
    BY <2>a
  <2>c. \A c \in Block : st[c] = "ready" => st'[c] = "ready"
    BY <2>a
  <2>d. pc \in {"join_all", "get"} => Last \in Block
    BY <1>b DEF PhaseInv, CallerInv
  <2>3. EndedInv'
    BY <1>c, <2>a, <2>b, <2>c, <2>d DEF PhaseInv, EndedInv, NoStragglers
  <2>4. QED  BY <2>1, <2>2, <2>3 DEF PhaseInv
<1>12. CASE UNCHANGED vars
  BY <1>12, <1>c DEF vars, PhaseInv, CallerInv, BegunInv, EndedInv, NoStragglers
<1>13. QED
  BY <1>1, <1>2, <1>3, <1>4, <1>5, <1>6, <1>7, <1>8, <1>9, <1>10, <1>11, <1>12 DEF Next, CallerStep

\* No element is in two blocks.
LEMMA MineDisjoint ==
  ASSUME TypeOK, BlockInv, NEW b \in Block, NEW c \in Block, b # c, NEW e \in Elem,
         st[b] # "none", begin[b] <= e, e < end[b]
  PROVE  e \notin Mine(c)
<1>1. CASE st[c] = "none"
  BY <1>1 DEF BlockInv, BlockFact
<1>2. CASE st[c] # "none"
  <2>1. ~(begin[c] <= e /\ e < end[c])
    BY <1>2, Disjoint
  <2>2. pos[c] <= end[c] /\ pos[c] \in Int /\ end[c] \in Int /\ e \in Int
    BY <1>2 DEF BlockInv, BlockFact, TypeOK, Elem
  <2>3. QED  BY <2>1, <2>2 DEF Mine
<1>3. QED  BY <1>1, <1>2

\* What is in a block is also what its future's value is the sum of.
LEMMA PlusMine ==
  ASSUME TypeOK, NEW b \in Block, NEW e \in Elem
  PROVE  Plus(b)[e] = count[e] + IF e \in Mine(b) THEN 1 ELSE 0
<1>1. e \in DOMAIN count /\ e \in Int /\ begin[b] \in Int /\ pos[b] \in Int
  BY DEF TypeOK, Elem
<1>2. e \in Sum(b) <=> e \in Mine(b)
  BY <1>1 DEF Sum, Mine
<1>3. QED  BY <1>1, <1>2 DEF Plus

\* Where a block that the caller begins is empty, no block changes its elements.
LEMMA SameElements ==
  ASSUME TypeOK, BlockInv, NEW n \in Block, NEW e, NEW s, st[n] = "none", Assign(n, e, s), UNCHANGED input
  PROVE  \A b \in Block : Mine(b)' = Mine(b)
<1>1. \A b \in Block \ {n} : Mine(b)' = Mine(b)
  BY DEF Assign, Mine, Elem, TypeOK
<1>2. Mine(n) = {}
  BY DEF BlockInv, BlockFact
<1>3. begin'[n] = pos'[n] /\ pos'[n] \in Int
  BY DEF Assign, TypeOK
<1>4. Mine(n)' = {}
  BY <1>3 DEF Mine, Elem, TypeOK
<1>5. QED  BY <1>1, <1>2, <1>4

LEMMA CountStep ==
  TypeOK /\ BlockInv /\ PhaseInv /\ CountInv /\ FindInv /\ [Next]_vars => CountInv'
<1> SUFFICES ASSUME TypeOK, BlockInv, PhaseInv, CountInv, FindInv, [Next]_vars  PROVE CountInv'
  OBVIOUS
<1> USE DEF Goto
<1>a. \A b \in Block : ~(b < 0)
  BY DEF Block
<1>0. ASSUME UNCHANGED <<input, count>>, \A b \in Block : Mine(b)' = Mine(b),
             pc' \in {"call", "create", "own", "join_all"} => pc \in {"call", "create", "own", "join_all"},
             kind = "accumulate" /\ pc' = "get" => pc \in {"call", "create", "own", "join_all"} /\ i' = 0,
             outcome' = <<"ok">> => (outcome = <<"ok">> /\ pc # "call") \/ Elem = {}
      PROVE  CountInv'
  <2>1. Elem' = Elem /\ Block' = Block
    BY <1>0 DEF Elem, Block
  <2>2. EachOnce'
    BY <1>0, <2>1 DEF CountInv, EachOnce
  <2>3. \A e \in Elem : kind = "accumulate" /\ pc' = "get" => \A b \in Block : ~(b < i')
    BY <1>0, <1>a
  <2>4. QED  BY <1>0, <2>1, <2>2, <2>3 DEF CountInv
<1>b. UNCHANGED <<input, work>> => \A b \in Block : Mine(b)' = Mine(b)
  BY DEF Mine, Elem
<1>1. CASE Call
  <2>1. length = 0 => Elem = {}
    BY DEF Elem
  <2>2. /\ UNCHANGED <<input, work, count>> /\ pc = "call" /\ pc' \in {"create", "return"}
        /\ outcome' = <<"ok">> => length = 0
    BY <1>1 DEF Call, PhaseInv, CallerInv
  <2>3. QED  BY <1>0, <1>b, <2>1, <2>2
<1>2. CASE CreateThread
  <2>1. PICK s \in {"run", "deferred"} : Assign(i, start + block_size, s)
    BY <1>2 DEF CreateThread
  <2>2. /\ i \in Block /\ st[i] = "none" /\ pc = "create" /\ outcome = <<>>
        /\ UNCHANGED <<input, pc, count, outcome>>
    BY <1>2, AtCreate DEF CreateThread, PhaseInv, BegunInv, CallerInv
  <2>3. QED  BY <1>0, <2>1, <2>2, SameElements
<1>3. CASE CreateFails
  BY <1>0, <1>b, <1>3 DEF CreateFails
<1>4. CASE BeginOwn
  <2>1. /\ i \in Block /\ st[i] = "none" /\ pc = "create" /\ pc' = "own" /\ outcome = <<>>
        /\ UNCHANGED <<input, count, outcome>> /\ Assign(i, length, "run")
    BY <1>4, AtCreate DEF BeginOwn, PhaseInv, BegunInv, CallerInv
  <2>2. QED  BY <1>0, <2>1, SameElements
<1>5. CASE EndOwn
  <2>1. /\ UNCHANGED <<input, work, count>> /\ pc = "own" /\ outcome' # <<"ok">>
        /\ pc' \in {"join", "join_all", "get"} /\ (kind = "accumulate" => pc' # "get")
    BY <1>5 DEF EndOwn, PhaseInv, CallerInv
  <2>2. QED  BY <1>0, <1>b, <2>1
<1>6. CASE JoinAll
  <2>1. /\ UNCHANGED <<input, work, count, i, outcome>> /\ pc = "join_all" /\ pc' = "get"
        /\ outcome = <<>> /\ i = 0
    BY <1>6 DEF JoinAll, PhaseInv, CallerInv
  <2>2. QED  BY <1>0, <1>b, <2>1
<1>7. CASE Get
  <2>1. /\ pc = "get" /\ i \in Block /\ kind # "find" /\ outcome = <<>>
        /\ UNCHANGED <<input, begin, pos>> /\ pc' \in {"get", "join"} /\ outcome' # <<"ok">>
    <3>1. pc = "get" /\ UNCHANGED <<input, begin, pos>> /\ pc' \in {pc, "join"}
          /\ outcome' \in {outcome, <<"exception">>}
      BY <1>7 DEF Get
    <3>2. kind # "find" /\ outcome = <<>>
      BY <3>1 DEF PhaseInv, CallerInv
    <3>3. outcome' # <<"ok">>
      <4>1. <<>> # <<"ok">> /\ <<"exception">> # <<"ok">>
        OBVIOUS
      <4>2. QED  BY <3>1, <3>2, <4>1
    <3>4. i \in Block
      BY <3>1, AtGet
    <3>5. QED  BY <3>1, <3>2, <3>3, <3>4
  <2>2. Elem' = Elem /\ Block' = Block /\ \A b \in Block : Mine(b)' = Mine(b)
    BY <2>1 DEF Mine, Elem, Block
  <2>3. CASE count' = count /\ i' = i
    <3>1. EachOnce'
      BY <2>1, <2>2, <2>3 DEF CountInv, EachOnce
    <3>2. QED  BY <2>1, <2>2, <2>3, <3>1 DEF CountInv
  <2>4. CASE /\ st[i] = "ready" /\ i' = i + 1 /\ pc' = pc
             /\ count' = IF kind = "accumulate" THEN Plus(i) ELSE count
    <3>1. CASE kind # "accumulate"
      <4>1. EachOnce'
        BY <2>1, <2>2, <2>4, <3>1 DEF CountInv, EachOnce
      <4>2. QED  BY <2>1, <2>2, <2>4, <3>1, <4>1 DEF CountInv
    <3>2. CASE kind = "accumulate"
      <4>1. ASSUME NEW e \in Elem
            PROVE  count'[e] = IF \E b \in Block : b < i + 1 /\ e \in Mine(b) THEN 1 ELSE 0
        <5>1. count[e] = IF \E b \in Block : b < i /\ e \in Mine(b) THEN 1 ELSE 0
          BY <2>1, <3>2 DEF CountInv
        <5>2. count'[e] = count[e] + IF e \in Mine(i) THEN 1 ELSE 0
          BY <2>1, <2>4, <3>2, PlusMine
        <5>3. \A b \in Block : b < i + 1 <=> b < i \/ b = i
          BY <2>1 DEF Block
        <5>4. ASSUME e \in Mine(i), NEW b \in Block, b < i  PROVE e \notin Mine(b)
          <6>1. begin[i] <= e /\ e < end[i]
            BY <2>1, <2>4, <3>2, <5>4 DEF Mine, BlockInv, BlockFact
          <6>2. b # i
            BY <2>1, <5>4 DEF Block
          <6>3. QED  BY <2>1, <2>4, <6>1, <6>2, MineDisjoint
        <5>5. QED  BY <2>1, <5>1, <5>2, <5>3, <5>4
      <4>2. EachOnce'
        BY <2>1, <2>2, <4>1 DEF EachOnce
      <4>3. QED  BY <2>1, <2>2, <2>4, <3>2, <4>1, <4>2 DEF CountInv
    <3>3. QED  BY <3>1, <3>2
  <2>5. QED  BY <1>7, <2>3, <2>4 DEF Get
<1>8. CASE GotAll
  <2>1. /\ pc = "get" /\ i = Last /\ Last \in Block /\ kind # "find" /\ st[Last] = "ready" /\ length # 0
        /\ pc' = "join" /\ UNCHANGED <<input, begin, pos>>
        /\ count' = IF kind = "accumulate" THEN Plus(Last) ELSE count
    BY <1>8, AtGet, Numbers DEF GotAll, PhaseInv, CallerInv, EndedInv, Last
  <2>2. Elem' = Elem /\ Block' = Block /\ \A b \in Block : Mine(b)' = Mine(b)
    BY <2>1 DEF Mine, Elem, Block
  <2>3. \A b \in Block : b < thread_num <=> b < Last \/ b = Last
    BY <2>1, Numbers DEF Block, Last
  <2>4. \A b \in Block : b < thread_num => st[b] = "ready" /\ pos[b] = end[b]
    BY <2>1, <2>3 DEF PhaseInv, EndedInv, BlockInv, BlockFact
  <2>5. \A e \in Elem : (\E b \in Block : b < thread_num /\ e \in Mine(b))
    BY <2>4, Covered
  <2>6. ASSUME NEW e \in Elem  PROVE count'[e] = 1 /\ e \notin bad
    <3>1. PICK b \in Block : b < thread_num /\ e \in Mine(b)
      BY <2>5
    <3>2. e \notin bad
      BY <3>1 DEF BlockInv, BlockFact
    <3>3. CASE kind # "accumulate"
      <4>1. kind \in {"for_each", "for_each_async"}
        BY <2>1, <3>3, KindAssumption DEF TypeOK
      <4>2. QED  BY <2>1, <3>1, <3>2, <3>3, <4>1 DEF CountInv
    <3>4. CASE kind = "accumulate"
      <4>1. count[e] = IF \E c \in Block : c < Last /\ e \in Mine(c) THEN 1 ELSE 0
        BY <2>1, <3>4 DEF CountInv
      <4>2. count'[e] = count[e] + IF e \in Mine(Last) THEN 1 ELSE 0
        BY <2>1, <3>4, PlusMine
      <4>3. ASSUME e \in Mine(Last), NEW c \in Block, c < Last  PROVE e \notin Mine(c)
        <5>1. begin[Last] <= e /\ e < end[Last]
          BY <2>1, <2>3, <2>4, <4>3 DEF Mine
        <5>2. c # Last
          BY <2>1, <4>3 DEF Block
        <5>3. QED  BY <2>1, <5>1, <5>2, MineDisjoint
      <4>4. QED  BY <2>3, <3>1, <3>2, <4>1, <4>2, <4>3
    <3>5. QED  BY <3>3, <3>4
  <2>7. EachOnce'
    BY <2>1, <2>2, <2>6 DEF EachOnce
  <2>8. QED  BY <2>1, <2>2, <2>7 DEF CountInv
<1>9. CASE Join
  <2>1. UNCHANGED <<input, work, count, i, outcome>> /\ pc = "join" /\ pc' \in {"result", "return"}
    BY <1>9 DEF Join
  <2>2. QED  BY <1>0, <1>b, <2>1
<1>10. CASE Report
  <2>1. UNCHANGED <<input, work, count, i>> /\ pc = "result" /\ pc' = "return" /\ outcome' # <<"ok">>
    BY <1>10 DEF Report, FindInv
  <2>2. QED  BY <1>0, <1>b, <2>1
<1>11. ASSUME NEW b \in Block, WorkOn(b)  PROVE CountInv'
  <2>1. /\ UNCHANGED <<input, caller, outcome, begin, end>> /\ Running(b)
        /\ \A c \in Block \ {b} : pos'[c] = pos[c]
    BY <1>11, Working
  <2>2. Elem' = Elem /\ Block' = Block /\ \A c \in Block \ {b} : Mine(c)' = Mine(c)
    BY <2>1 DEF Mine, Elem, Block
  <2>3. length # 0 /\ outcome # <<"ok">>
    BY <2>1 DEF Running, PhaseInv, BegunInv, EndedInv, BlockInv, BlockFact
  <2>4. CASE kind = "find"
    <3>1. count' = count
      BY <1>11, <2>4 DEF WorkOn, Apply, Test, Compare, SetValue, SetException, StoreFlag
    <3>2. QED  BY <2>1, <2>2, <2>3, <2>4, <3>1 DEF CountInv, EachOnce
  <2>5. CASE kind = "accumulate"
    <3>1. count' = count
      BY <1>11, <2>5 DEF WorkOn, Apply, Test, Compare, SetValue, SetException, StoreFlag
    <3>2. pc = "get" => \A c \in Block : c < i => c # b
      BY <2>1 DEF PhaseInv, EndedInv, Running
    <3>3. EachOnce'
      BY <2>1, <2>2, <2>3, <3>1 DEF CountInv, EachOnce
    <3>4. ASSUME NEW e \in Elem, pc = "get"
          PROVE  count[e] = IF \E c \in Block : c < i /\ e \in Mine(c)' THEN 1 ELSE 0
      BY <2>2, <2>5, <3>2, <3>4 DEF CountInv
    <3>5. QED  BY <2>1, <2>2, <2>5, <3>1, <3>3, <3>4 DEF CountInv
  <2>6. CASE kind \in {"for_each", "for_each_async"}
    <3>1. Apply(b)
      BY <1>11, <2>6 DEF WorkOn, Test, Compare, SetValue, SetException, StoreFlag, FindGoto,
                         BlockInv, BlockFact
    <3>2. CASE UNCHANGED <<pos, count>>
      <4>1. \A c \in Block : Mine(c)' = Mine(c)
        BY <2>1, <3>2 DEF Mine, Elem
      <4>2. QED  BY <2>1, <2>2, <2>3, <2>6, <3>2, <4>1 DEF CountInv, EachOnce
    <3>3. CASE /\ pos[b] # end[b] /\ pos' = [pos EXCEPT ![b] = @ + 1]
               /\ count' = [count EXCEPT ![pos[b]] = @ + 1]
      <4> DEFINE p == pos[b]
      <4>1. st[b] # "none" /\ begin[b] <= p /\ p < end[b] /\ p \in Elem /\ p \in DOMAIN count
        BY <2>1, <3>3 DEF Running, BlockInv, BlockFact, TypeOK, Elem
      <4>2. Mine(b)' = Mine(b) \cup {p} /\ p \notin Mine(b)
        BY <2>1, <3>3, <4>1 DEF Mine, Elem, TypeOK
      <4>3. \A c \in Block : c # b => p \notin Mine(c)
        BY <4>1, MineDisjoint
      <4>4. \A e \in Elem : count[e] = IF \E c \in Block : e \in Mine(c) THEN 1 ELSE 0
        BY <2>6 DEF CountInv
      <4>5. count'[p] = 1
        BY <3>3, <4>1, <4>2, <4>3, <4>4
      <4>6. \A e \in Elem \ {p} : count'[e] = count[e]
        BY <3>3 DEF TypeOK
      <4>7. \A e \in Elem : count'[e] = IF \E c \in Block : e \in Mine(c)' THEN 1 ELSE 0
        <5>1. p \in Mine(b)'
          BY <4>2
        <5>2. \A e \in Elem \ {p}, c \in Block : e \in Mine(c)' <=> e \in Mine(c)
          BY <2>2, <4>2
        <5>3. QED  BY <4>4, <4>5, <4>6, <5>1, <5>2
      <4>8. EachOnce'
        BY <2>1, <2>2, <2>3, <4>7 DEF EachOnce
      <4>9. QED  BY <2>1, <2>2, <2>6, <4>7, <4>8 DEF CountInv
    <3>4. QED  BY <2>6, <3>1, <3>2, <3>3 DEF Apply
  <2>7. QED  BY <2>4, <2>5, <2>6, KindAssumption DEF TypeOK
<1>12. CASE UNCHANGED vars
  BY <1>b, <1>12 DEF vars, CountInv, EachOnce, Elem, Block
<1>13. QED
  BY <1>1, <1>2, <1>3, <1>4, <1>5, <1>6, <1>7, <1>8, <1>9, <1>10, <1>11, <1>12 DEF Next, CallerStep

\* What parallel_find's caller sees when all threads have been joined.
LEMMA Joined ==
  ASSUME TypeOK, BlockInv, PhaseInv, FindInv, pc = "result"
  PROVE  /\ flag => promise # <<>>
         /\ ~flag => match = {} /\ bad = {}
<1>1. kind = "find" /\ length # 0 /\ \A b \in Block : ~Running(b) /\ (b < thread_num => st[b] # "none")
  BY DEF PhaseInv, CallerInv, BegunInv, EndedInv, NoStragglers
<1>2. \A b \in Block : b < thread_num => st[b] = "ready"
  BY <1>1 DEF Running, BlockInv, BlockFact, TypeOK
<1>3. flag => promise # <<>>
  BY DEF FindInv
<1>4. ASSUME ~flag  PROVE match = {} /\ bad = {}
  <2>1. promise = <<>>
    BY <1>1, <1>4 DEF FindInv, Running
  <2>2. \A b \in Block : b < thread_num => st[b] # "none" /\ pos[b] = end[b]
    BY <1>1, <1>2, <2>1 DEF FindInv
  <2>3. \A e \in Elem : \E b \in Block : b < thread_num /\ e \in Mine(b)
    BY <2>2, Covered
  <2>4. \A e \in Elem : e \notin bad \cup match
    BY <2>3 DEF BlockInv, BlockFact
  <2>5. QED  BY <2>4 DEF TypeOK
<1>5. QED  BY <1>3, <1>4

LEMMA FindStep == TypeOK /\ BlockInv /\ PhaseInv /\ FindInv /\ [Next]_vars => FindInv'
<1> SUFFICES ASSUME TypeOK, BlockInv, PhaseInv, FindInv, [Next]_vars  PROVE FindInv'
  OBVIOUS
<1> USE DEF Goto, FindGoto
<1>a. st \in [Block -> {"none", "deferred", "run", "compare", "set", "catch", "store", "ready", "threw"}]
      /\ pos \in [Block -> 0..length] /\ Block' = Block
  BY DEF TypeOK, Block
<1>0. ASSUME UNCHANGED <<input, work, promise, flag>>, FindRight'  PROVE FindInv'
  BY <1>0, <1>a DEF FindInv
<1>b. ASSUME UNCHANGED <<input, work, promise, flag>>, pc' # "return"  PROVE FindInv'
  BY <1>0, <1>b DEF FindRight
<1>1. CASE Call
  <2>1. pc' = "return" /\ kind = "find" => length = 0 /\ outcome' = <<"last">>
    BY <1>1 DEF Call
  <2>2. length = 0 => match = {} /\ bad = {}
    BY DEF TypeOK, Elem
  <2>3. FindRight'
    BY <1>1, <2>1, <2>2 DEF Call, FindRight
  <2>4. QED  BY <1>0, <1>1, <2>3 DEF Call
\* The caller begins block b, or a deferred function.
<1>c. ASSUME NEW b \in Block, st[b] \in {"none", "deferred"}, pos' = [pos EXCEPT ![b] = pos'[b]],
             NEW s \in {"run", "deferred"}, st' = [st EXCEPT ![b] = s],
             UNCHANGED <<input, promise, flag>>, pc' # "return", kind # "find" \/ end' = [end EXCEPT ![b] = end'[b]]
      PROVE  FindInv'
  <2>1. \A c \in Block : st'[c] \in {"set", "catch", "store", "ready"} => st'[c] = st[c] /\ pos'[c] = pos[c]
                                                   /\ (kind = "find" => end'[c] = end[c])
    BY <1>c, <1>a DEF TypeOK
  <2>2. \A c \in Block : st[c] = "store" => st'[c] = "store"
    BY <1>c, <1>a
  <2>3. FindRight'
    BY <1>c DEF FindRight
  <2>4. QED  BY <1>c, <1>a, <2>1, <2>2, <2>3 DEF FindInv
<1>2. CASE CreateThread
  <2>1. PICK s \in {"run", "deferred"} : Assign(i, start + block_size, s)
    BY <1>2 DEF CreateThread
  <2>2. PICK b \in Block : b = i
    BY <1>2, AtCreate DEF CreateThread
  <2>3. st[b] = "none"
    BY <1>2, <2>2, AtCreate DEF CreateThread, PhaseInv, BegunInv
  <2>4. /\ pos' = [pos EXCEPT ![b] = pos'[b]] /\ end' = [end EXCEPT ![b] = end'[b]]
        /\ st' = [st EXCEPT ![b] = s]
    BY <2>1, <2>2 DEF Assign, TypeOK
  <2>5. UNCHANGED <<input, promise, flag>> /\ pc' # "return"
    BY <1>2 DEF CreateThread
  <2>6. QED  BY <1>c, <2>3, <2>4, <2>5
<1>3. CASE CreateFails
  BY <1>b, <1>3 DEF CreateFails
<1>4. CASE BeginOwn
  <2>1. Assign(i, length, "run") /\ UNCHANGED <<input, promise, flag>> /\ pc' # "return"
    BY <1>4 DEF BeginOwn
  <2>2. PICK b \in Block : b = i
    BY <1>4, AtCreate DEF BeginOwn
  <2>3. st[b] = "none"
    BY <1>4, <2>2, AtCreate DEF BeginOwn, PhaseInv, BegunInv
  <2>4. /\ pos' = [pos EXCEPT ![b] = pos'[b]] /\ end' = [end EXCEPT ![b] = end'[b]]
        /\ st' = [st EXCEPT ![b] = "run"]
    BY <2>1, <2>2 DEF Assign, TypeOK
  <2>5. QED  BY <1>c, <2>1, <2>3, <2>4
<1>5. CASE EndOwn
  BY <1>b, <1>5 DEF EndOwn
<1>6. CASE JoinAll
  BY <1>b, <1>6 DEF JoinAll
<1>7. CASE Get
  <2>1. PICK b \in Block : b = i
    BY <1>7, AtGet DEF Get
  <2>2. UNCHANGED <<input, begin, pos, end, promise, flag>> /\ pc' # "return"
    BY <1>7 DEF Get
  <2>3. CASE st' = st
    BY <1>b, <2>2, <2>3
  <2>4. CASE st[b] = "deferred" /\ st' = [st EXCEPT ![b] = "run"]
    <3>1. pos' = [pos EXCEPT ![b] = pos'[b]]
      BY <2>2, <1>a
    <3>2. kind # "find"
      BY <2>4 DEF BlockInv, BlockFact
    <3>3. QED  BY <1>c, <2>2, <2>4, <3>1, <3>2
  <2>5. QED  BY <1>7, <2>1, <2>3, <2>4 DEF Get
<1>8. CASE GotAll
  BY <1>b, <1>8 DEF GotAll
<1>9. CASE Join
  <2>1. UNCHANGED <<input, work, promise, flag, outcome>> /\ pc = "join"
        /\ (pc' = "return" => kind # "find" \/ outcome # <<>>)
    BY <1>9 DEF Join
  <2>2. FindRight'
    BY <2>1 DEF FindRight, PhaseInv, CallerInv
  <2>3. QED  BY <1>0, <2>1, <2>2
<1>10. CASE Report
  <2>1. /\ pc = "result" /\ UNCHANGED <<input, work, promise, flag>>
        /\ outcome' = IF flag THEN promise ELSE <<"last">>
    BY <1>10 DEF Report
  <2>2. FindRight'
    <3>1. CASE flag
      BY <2>1, <3>1, Joined DEF FindRight, FindInv
    <3>2. CASE ~flag
      BY <2>1, <3>2, Joined DEF FindRight
    <3>3. QED  BY <3>1, <3>2
  <2>3. QED  BY <1>0, <2>1, <2>2
\* Somebody works on block b.
<1>d. ASSUME NEW b \in Block, WorkOn(b)
      PROVE  /\ FindRight' /\ UNCHANGED <<input, end>>
             /\ \A c \in Block \ {b} : st'[c] = st[c] /\ pos'[c] = pos[c]
  <2>1. /\ UNCHANGED <<input, caller, outcome, begin, end>>
        /\ \A c \in Block \ {b} : st'[c] = st[c] /\ pos'[c] = pos[c]
    BY <1>d, Working
  <2>2. FindRight'
    BY <2>1 DEF FindInv, FindRight
  <2>3. QED  BY <2>1, <2>2
<1>11. ASSUME NEW b \in Block, Apply(b)  PROVE FindInv'
  BY <1>11, <1>a, <1>d DEF WorkOn, Apply, FindInv
<1>12. ASSUME NEW b \in Block, Test(b)  PROVE FindInv'
  BY <1>12, <1>a, <1>d DEF WorkOn, Test, FindInv
<1>13. ASSUME NEW b \in Block, Compare(b)  PROVE FindInv'
  BY <1>13, <1>a, <1>d DEF WorkOn, Compare, FindInv
<1>14. ASSUME NEW b \in Block, SetValue(b)  PROVE FindInv'
  BY <1>14, <1>a, <1>d DEF WorkOn, SetValue, FindInv
<1>15. ASSUME NEW b \in Block, SetException(b)  PROVE FindInv'
  BY <1>15, <1>a, <1>d DEF WorkOn, SetException, FindInv
<1>16. ASSUME NEW b \in Block, StoreFlag(b)  PROVE FindInv'
  BY <1>16, <1>a, <1>d DEF WorkOn, StoreFlag, FindInv
<1>17. CASE UNCHANGED vars
  BY <1>0, <1>17 DEF vars, FindInv, FindRight
<1>18. QED
  BY <1>1, <1>2, <1>3, <1>4, <1>5, <1>6, <1>7, <1>8, <1>9, <1>10, <1>11, <1>12, <1>13, <1>14,
     <1>15, <1>16, <1>17 DEF Next, CallerStep, WorkOn

\* The invariant of the block algorithms is inductive.
THEOREM Invariance == Spec => []IInv
<1>1. Init => IInv
  <2> SUFFICES ASSUME Init  PROVE IInv
    OBVIOUS
  <2>1. \A b \in Block : st[b] = "none" /\ begin[b] = 0 /\ pos[b] = 0 /\ Mine(b) = {}
    <3> SUFFICES ASSUME NEW b \in Block
                 PROVE  st[b] = "none" /\ begin[b] = 0 /\ pos[b] = 0 /\ Mine(b) = {}
      OBVIOUS
    <3>1. st[b] = "none" /\ begin[b] = 0 /\ pos[b] = 0
      BY DEF Init
    <3>2. \A e \in Elem : e \in Int
      BY DEF Elem
    <3>3. QED  BY <3>1, <3>2 DEF Mine
  <2>2. \A e \in Elem : e \in 0..MaxLength /\ count[e] = 0
    BY DEF Init, Elem
  <2>3. TypeOK
    <3>1. length \in 0..MaxLength /\ hardware \in 0..MaxHardware /\ kind \in Kind
      BY DEF Init
    <3>2. 0 \in 0..length /\ 0 \in 0..MaxLength
      BY <3>1
    <3>3. bad \in SUBSET Elem /\ match \in SUBSET Elem
      BY DEF Init
    <3>4. begin \in [Block -> 0..length] /\ pos = begin /\ end = begin
      BY <3>2 DEF Init
    <3>5. QED  BY <3>1, <3>2, <3>3, <3>4 DEF Init, TypeOK
  <2>4. BlockInv
    BY <2>1 DEF BlockInv, BlockFact
  <2>5. PhaseInv
    BY <2>1 DEF Init, PhaseInv, CallerInv, BegunInv, EndedInv, NoStragglers, Searched
  <2>6. CountInv
    BY <2>1, <2>2 DEF Init, CountInv, EachOnce
  <2>7. FindInv
    BY <2>1 DEF Init, FindInv, FindRight
  <2>8. QED  BY <2>3, <2>4, <2>5, <2>6, <2>7 DEF IInv
<1>2. IInv /\ [Next]_vars => IInv'
  BY TypeStep, BlockStep, PhaseStep, CountStep, FindStep DEF IInv
<1>3. QED  BY <1>1, <1>2, PTL DEF Spec

\* Types; in particular block_start never leaves the range.
THEOREM TypeCorrect == Spec => []TypeOK
<1>1. IInv => TypeOK
  BY DEF IInv
<1>2. QED  BY <1>1, Invariance, PTL

\* parallel_for_each applies f to every element once before it returns, and
\* exception_safe_accumulate adds every element once.
THEOREM EveryElementOnce == Spec => []EachOnce
<1>1. IInv => EachOnce
  BY DEF IInv, CountInv
<1>2. QED  BY <1>1, Invariance, PTL

\* No thread outlives the call, whatever was thrown.
THEOREM NobodyLeftBehind == Spec => []NoStragglers
<1>1. IInv => NoStragglers
  BY DEF IInv, PhaseInv, EndedInv
<1>2. QED  BY <1>1, Invariance, PTL

\* parallel_find answers right, for any number of threads that find something.
THEOREM FindAnswersRight == Spec => []FindRight
<1>1. IInv => FindRight
  BY DEF IInv, FindInv
<1>2. QED  BY <1>1, Invariance, PTL
=============================================================================
