----------------------------- MODULE QueueProofs -----------------------------
(* Proofs about FineQueue and LockedQueue, for any number of threads, values and cells. *)
EXTENDS FineQueue, SequenceTheorems, TLAPS

USE NullAssumption

\* The chain after a push: one cell more, at the end.
LEMMA PushChain ==
  ASSUME TypeOK, NEW n \in Node, chain' = Append(chain, n)
  PROVE  /\ chain' \in Seq(Node)
         /\ Len(chain) \in Nat /\ Len(chain') = Len(chain) + 1
         /\ \A i \in 1..Len(chain) : chain'[i] = chain[i]
         /\ chain'[Len(chain) + 1] = n
         /\ InChain' = InChain \cup {n}
<1>1. /\ chain' \in Seq(Node)
      /\ Len(chain) \in Nat /\ Len(chain') = Len(chain) + 1
      /\ \A i \in 1..Len(chain) : chain'[i] = chain[i]
      /\ chain'[Len(chain) + 1] = n
  BY AppendProperties, LenProperties DEF TypeOK
<1>2. InChain' = InChain \cup {n}
  BY <1>1 DEF InChain
<1>3. QED  BY <1>1, <1>2

\* The chain after a pop: the first cell is gone and the others have moved up.
LEMMA PopChain ==
  ASSUME TypeOK, ListIntact, chain' = Tail(chain)
  PROVE  /\ chain' \in Seq(Node)
         /\ Len(chain) \in Nat /\ Len(chain') = Len(chain) - 1
         /\ \A i \in 1..Len(chain) - 1 : chain'[i] = chain[i + 1]
         /\ InChain' = InChain \ {head}
<1>1. chain # <<>>
  BY EmptySeq DEF ListIntact, TypeOK
<1>2. /\ chain' \in Seq(Node)
      /\ Len(chain) \in Nat /\ Len(chain') = Len(chain) - 1
      /\ \A i \in 1..Len(chain) - 1 : chain'[i] = chain[i + 1]
  BY <1>1, HeadTailProperties, LenProperties DEF TypeOK
<1>3. ASSUME NEW n \in InChain'  PROVE  n \in InChain \ {head}
  <2>1. PICK i \in 1..Len(chain') : n = chain'[i]
    BY <1>3 DEF InChain
  <2>2. i + 1 \in 1..Len(chain) /\ n = chain[i + 1] /\ 1 \in 1..Len(chain) /\ i + 1 # 1
    BY <1>2, <2>1
  <2>3. QED  BY <2>2 DEF InChain, ListIntact
<1>4. ASSUME NEW n \in InChain \ {head}  PROVE  n \in InChain'
  <2>1. PICK i \in 1..Len(chain) : n = chain[i]
    BY <1>4 DEF InChain
  <2>2. i # 1
    BY <2>1, <1>4 DEF ListIntact
  <2>3. i - 1 \in 1..Len(chain') /\ n = chain'[i - 1]
    BY <1>2, <2>1, <2>2
  <2>4. QED  BY <2>3 DEF InChain
<1>5. QED  BY <1>2, <1>3, <1>4

\* Both ends of the list are in it.
LEMMA EndsInChain ==
  ASSUME TypeOK, ListIntact
  PROVE  /\ Len(chain) \in Nat \ {0} /\ head \in InChain /\ tail \in InChain
         /\ InChain \subseteq Node
         /\ \A n \in InChain : n # head => Len(chain) > 1
<1>1. Len(chain) \in Nat /\ \A i \in 1..Len(chain) : chain[i] \in Node
  BY LenProperties, ElementOfSeq DEF TypeOK
<1>2. QED  BY <1>1 DEF ListIntact, InChain

\* Each action preserves the types: a push appends a cell, and a pop, which sees
\* two cells or more, finds the next one behind head_.
LEMMA TypeStep == TypeOK /\ ListIntact /\ LocalInv /\ [Next]_vars => TypeOK'
<1> SUFFICES ASSUME TypeOK, ListIntact, LocalInv, [Next]_vars  PROVE TypeOK'
  OBVIOUS
<1> USE DEF TypeOK, Op, PcLabel, Goto, heap, ends, locals
<1>1. ASSUME NEW t \in Thread, NEW v \in Value, PushCall(t, v)  PROVE TypeOK'
  BY <1>1 DEF PushCall
<1>2. ASSUME NEW t \in Thread, NEW o \in Op, PopCall(t, o)  PROVE TypeOK'
  BY <1>2 DEF PopCall
<1>3. ASSUME NEW t \in Thread, PushLock(t)  PROVE TypeOK'
  BY <1>3 DEF PushLock
<1>4. ASSUME NEW t \in Thread, PushSetData(t)  PROVE TypeOK'
  BY <1>4 DEF PushSetData
<1>5. ASSUME NEW t \in Thread, PushSetNext(t)  PROVE TypeOK'
  BY <1>5 DEF PushSetNext
<1>6. ASSUME NEW t \in Thread, PushSetTail(t)  PROVE TypeOK'
  <2>1. own[t] \in Node
    BY <1>6 DEF PushSetTail, LocalInv, Pushing, HoldsTail
  <2>2. chain' \in Seq(Node)
    BY <1>6, <2>1, PushChain DEF PushSetTail
  <2>3. QED  BY <1>6, <2>1, <2>2 DEF PushSetTail
<1>7. ASSUME NEW t \in Thread, PushNotify(t)  PROVE TypeOK'
  BY <1>7 DEF PushNotify
<1>8. ASSUME NEW t \in Thread, LockHead(t)  PROVE TypeOK'
  BY <1>8 DEF LockHead
<1>9. ASSUME NEW t \in Thread, GetTail(t)  PROVE TypeOK'
  BY <1>9 DEF GetTail
<1>10. ASSUME NEW t \in Thread, ReturnAnswer(t)  PROVE TypeOK'
  BY <1>10 DEF ReturnAnswer
<1>11. ASSUME NEW t \in Thread, Wait(t)  PROVE TypeOK'
  BY <1>11 DEF Wait
<1>12. ASSUME NEW t \in Thread, FindElement(t)  PROVE TypeOK'
  BY <1>12 DEF FindElement
<1>13. ASSUME NEW t \in Thread, PopHead(t)  PROVE TypeOK'
  <2>1. 1 \in 1..Len(chain) - 1 /\ 2 \in 1..Len(chain)
    BY <1>13, EndsInChain DEF PopHead, LocalInv
  <2>2. next[head] \in Node
    BY <2>1, ElementOfSeq DEF ListIntact
  <2>3. chain' \in Seq(Node)
    BY <1>13, PopChain DEF PopHead
  <2>4. QED  BY <1>13, <2>2, <2>3 DEF PopHead
<1>14. ASSUME NEW t \in Thread, Take(t)  PROVE TypeOK'
  BY <1>14 DEF Take
<1>15. ASSUME NEW t \in Thread, SpuriousWakeup(t)  PROVE TypeOK'
  BY <1>15 DEF SpuriousWakeup
<1>16. CASE UNCHANGED vars
  BY <1>16 DEF vars
<1>17. QED
  BY <1>1, <1>2, <1>3, <1>4, <1>5, <1>6, <1>7, <1>8, <1>9, <1>10, <1>11, <1>12,
     <1>13, <1>14, <1>15, <1>16 DEF Next, Start, Step, PushStep, PopStep

\* Each action preserves the holders of the two mutexes.
LEMMA LockStep == TypeOK /\ LockInv /\ [Next]_vars => LockInv'
<1> SUFFICES ASSUME TypeOK, LockInv, [Next]_vars  PROVE LockInv'
  OBVIOUS
<1> USE DEF TypeOK, LockInv, HoldsHead, HoldsTail, Goto, locals
<1>1. ASSUME NEW t \in Thread, NEW v \in Value, PushCall(t, v)  PROVE LockInv'
  BY <1>1 DEF PushCall
<1>2. ASSUME NEW t \in Thread, NEW o \in Op, PopCall(t, o)  PROVE LockInv'
  BY <1>2 DEF PopCall
<1>3. ASSUME NEW t \in Thread, PushLock(t)  PROVE LockInv'
  BY <1>3 DEF PushLock
<1>4. ASSUME NEW t \in Thread, PushSetData(t)  PROVE LockInv'
  BY <1>4 DEF PushSetData
<1>5. ASSUME NEW t \in Thread, PushSetNext(t)  PROVE LockInv'
  BY <1>5 DEF PushSetNext
<1>6. ASSUME NEW t \in Thread, PushSetTail(t)  PROVE LockInv'
  BY <1>6 DEF PushSetTail
<1>7. ASSUME NEW t \in Thread, PushNotify(t)  PROVE LockInv'
  BY <1>7 DEF PushNotify
<1>8. ASSUME NEW t \in Thread, LockHead(t)  PROVE LockInv'
  BY <1>8 DEF LockHead
<1>9. ASSUME NEW t \in Thread, GetTail(t)  PROVE LockInv'
  BY <1>9 DEF GetTail
<1>10. ASSUME NEW t \in Thread, ReturnAnswer(t)  PROVE LockInv'
  BY <1>10 DEF ReturnAnswer
<1>11. ASSUME NEW t \in Thread, Wait(t)  PROVE LockInv'
  BY <1>11 DEF Wait
<1>12. ASSUME NEW t \in Thread, FindElement(t)  PROVE LockInv'
  BY <1>12 DEF FindElement
<1>13. ASSUME NEW t \in Thread, PopHead(t)  PROVE LockInv'
  BY <1>13 DEF PopHead
<1>14. ASSUME NEW t \in Thread, Take(t)  PROVE LockInv'
  BY <1>14 DEF Take
<1>15. ASSUME NEW t \in Thread, SpuriousWakeup(t)  PROVE LockInv'
  BY <1>15 DEF SpuriousWakeup
<1>16. CASE UNCHANGED vars
  BY <1>16 DEF vars
<1>17. QED
  BY <1>1, <1>2, <1>3, <1>4, <1>5, <1>6, <1>7, <1>8, <1>9,
     <1>10, <1>11, <1>12, <1>13, <1>14, <1>15, <1>16 DEF Next, Start, Step, PushStep, PopStep

\* Each action preserves what a thread knows at its point of the program; above
\* all, a pop that saw head_ # get_tail() still finds two cells when it unlinks.
LEMMA LocalStep == IInv /\ [Next]_vars => LocalInv'
<1> SUFFICES ASSUME IInv, [Next]_vars  PROVE LocalInv'
  OBVIOUS
<1> USE DEF IInv, TypeOK, LockInv, LocalInv, HoldsHead, HoldsTail, Pushing, Goto, heap, ends, locals, InChain
<1>1. ASSUME NEW t \in Thread, NEW v \in Value, PushCall(t, v)  PROVE LocalInv'
  <2>1. PICK n \in Node \ live :
          /\ live' = live \cup {n} /\ next' = [next EXCEPT ![n] = Null]
          /\ data' = [data EXCEPT ![n] = Null] /\ own' = [own EXCEPT ![t] = n]
    BY <1>1 DEF PushCall
  <2>2. tail # n /\ tail \in Node
    BY <2>1, EndsInChain DEF OneOwner
  <2>3. QED  BY <1>1, <2>1, <2>2 DEF PushCall
<1>2. ASSUME NEW t \in Thread, NEW o \in Op, PopCall(t, o)  PROVE LocalInv'
  BY <1>2 DEF PopCall
<1>3. ASSUME NEW t \in Thread, PushLock(t)  PROVE LocalInv'
  BY <1>3 DEF PushLock
<1>4. ASSUME NEW t \in Thread, PushSetData(t)  PROVE LocalInv'
  BY <1>4 DEF PushSetData
<1>5. ASSUME NEW t \in Thread, PushSetNext(t)  PROVE LocalInv'
  BY <1>5 DEF PushSetNext
<1>6. ASSUME NEW t \in Thread, PushSetTail(t)  PROVE LocalInv'
  BY <1>6 DEF PushSetTail
<1>7. ASSUME NEW t \in Thread, PushNotify(t)  PROVE LocalInv'
  BY <1>7 DEF PushNotify
<1>8. ASSUME NEW t \in Thread, LockHead(t)  PROVE LocalInv'
  BY <1>8 DEF LockHead
<1>9. ASSUME NEW t \in Thread, GetTail(t)  PROVE LocalInv'
  <2>1. tail \in InChain
    BY EndsInChain
  <2>2. QED  BY <1>9, <2>1 DEF GetTail
<1>10. ASSUME NEW t \in Thread, ReturnAnswer(t)  PROVE LocalInv'
  BY <1>10 DEF ReturnAnswer
<1>11. ASSUME NEW t \in Thread, Wait(t)  PROVE LocalInv'
  BY <1>11 DEF Wait
<1>12. ASSUME NEW t \in Thread, FindElement(t)  PROVE LocalInv'
  <2>1. seen[t] \in InChain /\ seen[t] # head
    BY <1>12 DEF FindElement, FoundEmpty
  <2>2. Len(chain) > 1
    BY <2>1, EndsInChain
  <2>3. QED  BY <1>12, <2>2 DEF FindElement
<1>13. ASSUME NEW t \in Thread, PopHead(t)  PROVE LocalInv'
  <2>1. Len(chain) \in Nat /\ Len(chain) > 1 /\ tail \in InChain /\ head \in InChain
    BY <1>13, EndsInChain DEF PopHead
  <2>2. tail # head
    BY <2>1 DEF ListIntact
  <2>3. head # Null
    OBVIOUS
  <2>4. QED  BY <1>13, <2>1, <2>2, <2>3 DEF PopHead
<1>14. ASSUME NEW t \in Thread, Take(t)  PROVE LocalInv'
  <2>1. own[t] # tail
    BY EndsInChain DEF OneOwner
  <2>2. QED  BY <1>14, <2>1 DEF Take
<1>15. ASSUME NEW t \in Thread, SpuriousWakeup(t)  PROVE LocalInv'
  BY <1>15 DEF SpuriousWakeup
<1>16. CASE UNCHANGED vars
  BY <1>16 DEF vars
<1>17. QED
  BY <1>1, <1>2, <1>3, <1>4, <1>5, <1>6, <1>7, <1>8, <1>9,
     <1>10, <1>11, <1>12, <1>13, <1>14, <1>15, <1>16 DEF Next, Start, Step, PushStep, PopStep

\* Each action preserves the list: only PushSetTail and PopHead change its cells,
\* and what the others write lies outside of it or in the dummy.
LEMMA ListStep == IInv /\ [Next]_vars => ListIntact'
<1> SUFFICES ASSUME IInv, [Next]_vars  PROVE ListIntact'
  OBVIOUS
<1> USE DEF IInv, TypeOK, ListIntact, Goto, heap, ends, locals
<1>1. ASSUME NEW t \in Thread, NEW v \in Value, PushCall(t, v)  PROVE ListIntact'
  <2>1. PICK n \in Node \ live :
          next' = [next EXCEPT ![n] = Null] /\ data' = [data EXCEPT ![n] = Null]
    BY <1>1 DEF PushCall
  <2>2. \A i \in 1..Len(chain) : chain[i] # n
    BY <2>1 DEF OneOwner, InChain
  <2>3. \A i \in 1..Len(chain) : chain[i] \in Node
    BY ElementOfSeq
  <2>4. QED  BY <1>1, <2>1, <2>2, <2>3, EndsInChain DEF PushCall
<1>2. ASSUME NEW t \in Thread, NEW o \in Op, PopCall(t, o)  PROVE ListIntact'
  BY <1>2 DEF PopCall
<1>3. ASSUME NEW t \in Thread, PushLock(t)  PROVE ListIntact'
  BY <1>3 DEF PushLock
<1>4. ASSUME NEW t \in Thread, PushSetData(t)  PROVE ListIntact'
  BY <1>4 DEF PushSetData
<1>5. ASSUME NEW t \in Thread, PushSetNext(t)  PROVE ListIntact'
  BY <1>5 DEF PushSetNext
<1>6. ASSUME NEW t \in Thread, PushSetTail(t)  PROVE ListIntact'
  <2>1. /\ own[t] \in Node /\ own[t] \notin InChain
        /\ data[tail] \in Value /\ next[tail] = own[t]
    BY <1>6 DEF PushSetTail, LocalInv, Pushing, HoldsTail, OneOwner
  <2>2. /\ Len(chain) \in Nat /\ Len(chain') = Len(chain) + 1
        /\ \A i \in 1..Len(chain) : chain'[i] = chain[i]
        /\ chain'[Len(chain) + 1] = own[t]
    BY <1>6, <2>1, PushChain DEF PushSetTail
  <2>3. \A i \in 1..Len(chain) : chain[i] # own[t]
    BY <2>1 DEF InChain
  <2>4. \A i, j \in 1..Len(chain') : chain'[i] = chain'[j] => i = j
    BY <2>2, <2>3
  <2>5. \A i \in 1..Len(chain') - 1 : next[chain'[i]] = chain'[i + 1] /\ data[chain'[i]] \in Value
    <3>1. TAKE i \in 1..Len(chain') - 1
    <3>2. CASE i = Len(chain)
      BY <2>1, <2>2, <3>2
    <3>3. CASE i # Len(chain)
      <4>1. i \in 1..Len(chain) - 1 /\ i \in 1..Len(chain) /\ i + 1 \in 1..Len(chain)
        BY <2>2, <3>3
      <4>2. chain'[i] = chain[i] /\ chain'[i + 1] = chain[i + 1]
        BY <2>2, <4>1
      <4>3. QED  BY <4>1, <4>2
    <3>4. QED  BY <3>2, <3>3
  <2>6. chain'[1] = head /\ Len(chain') > 0 /\ chain'[Len(chain')] = tail'
    BY <1>6, <2>2 DEF PushSetTail
  <2>7. QED  BY <1>6, <2>4, <2>5, <2>6 DEF PushSetTail
<1>7. ASSUME NEW t \in Thread, PushNotify(t)  PROVE ListIntact'
  BY <1>7 DEF PushNotify
<1>8. ASSUME NEW t \in Thread, LockHead(t)  PROVE ListIntact'
  BY <1>8 DEF LockHead
<1>9. ASSUME NEW t \in Thread, GetTail(t)  PROVE ListIntact'
  BY <1>9 DEF GetTail
<1>10. ASSUME NEW t \in Thread, ReturnAnswer(t)  PROVE ListIntact'
  BY <1>10 DEF ReturnAnswer
<1>11. ASSUME NEW t \in Thread, Wait(t)  PROVE ListIntact'
  BY <1>11 DEF Wait
<1>12. ASSUME NEW t \in Thread, FindElement(t)  PROVE ListIntact'
  BY <1>12 DEF FindElement
<1>13. ASSUME NEW t \in Thread, PopHead(t)  PROVE ListIntact'
  <2>1. Len(chain) > 1
    BY <1>13 DEF PopHead, LocalInv
  <2>2. /\ Len(chain) \in Nat /\ Len(chain') = Len(chain) - 1
        /\ \A i \in 1..Len(chain) - 1 : chain'[i] = chain[i + 1]
    BY <1>13, PopChain DEF PopHead
  <2>3. \A i \in 1..Len(chain) : chain[i] \in Node
    BY ElementOfSeq
  <2>4. \A i \in 1..Len(chain) - 1 : next'[chain'[i]] = next[chain[i + 1]]
    <3>1. TAKE i \in 1..Len(chain) - 1
    <3>2. i + 1 \in 1..Len(chain) /\ 1 \in 1..Len(chain) /\ i + 1 # 1
      BY <2>2
    <3>3. chain[i + 1] # head /\ chain[i + 1] \in Node
      BY <2>3, <3>2
    <3>4. QED  BY <1>13, <2>2, <3>3 DEF PopHead
  <2>5. \A i \in 1..Len(chain') - 1 : next'[chain'[i]] = chain'[i + 1] /\ data[chain'[i]] \in Value
    <3>1. TAKE i \in 1..Len(chain') - 1
    <3>2. i \in 1..Len(chain) - 1 /\ i + 1 \in 1..Len(chain) - 1
      BY <2>2
    <3>3. chain'[i] = chain[i + 1] /\ chain'[i + 1] = chain[(i + 1) + 1]
      BY <2>2, <3>2
    <3>4. QED  BY <2>4, <3>2, <3>3
  <2>6. \A i, j \in 1..Len(chain') : chain'[i] = chain'[j] => i = j
    BY <2>2
  <2>7. chain'[1] = head' /\ Len(chain') > 0 /\ chain'[Len(chain')] = tail
    BY <1>13, <2>1, <2>2 DEF PopHead
  <2>8. QED  BY <1>13, <2>5, <2>6, <2>7 DEF PopHead
<1>14. ASSUME NEW t \in Thread, Take(t)  PROVE ListIntact'
  <2>1. \A i \in 1..Len(chain) : chain[i] # own[t] /\ chain[i] \in Node
    BY ElementOfSeq DEF OneOwner, InChain
  <2>2. QED  BY <1>14, <2>1, EndsInChain DEF Take
<1>15. ASSUME NEW t \in Thread, SpuriousWakeup(t)  PROVE ListIntact'
  BY <1>15 DEF SpuriousWakeup
<1>16. CASE UNCHANGED vars
  BY <1>16 DEF vars
<1>17. QED
  BY <1>1, <1>2, <1>3, <1>4, <1>5, <1>6, <1>7, <1>8, <1>9,
     <1>10, <1>11, <1>12, <1>13, <1>14, <1>15, <1>16 DEF Next, Start, Step, PushStep, PopStep

\* Each action preserves the ownership of cells: a cell passes from a thread to
\* the list, from the list to a thread, or between a thread and the heap.
LEMMA OwnerStep == IInv /\ [Next]_vars => OneOwner'
<1> SUFFICES ASSUME IInv, [Next]_vars  PROVE OneOwner'
  OBVIOUS
<1> USE DEF IInv, TypeOK, OneOwner, Goto, heap, ends, locals
<1>1. ASSUME NEW t \in Thread, NEW v \in Value, PushCall(t, v)  PROVE OneOwner'
  <2>1. PICK n \in Node \ live : live' = live \cup {n} /\ own' = [own EXCEPT ![t] = n]
    BY <1>1 DEF PushCall, InChain
  <2>2. own[t] = Null /\ n # Null
    BY <1>1 DEF PushCall, LocalInv, Pushing, HoldsTail
  <2>3. InChain' = InChain
    BY <1>1 DEF PushCall, InChain
  <2>4. \A u \in Thread : own[u] # n
    BY <2>1, <2>2
  <2>5. QED  BY <2>1, <2>2, <2>3, <2>4
<1>2. ASSUME NEW t \in Thread, NEW o \in Op, PopCall(t, o)  PROVE OneOwner'
  BY <1>2 DEF PopCall, InChain
<1>3. ASSUME NEW t \in Thread, PushLock(t)  PROVE OneOwner'
  BY <1>3 DEF PushLock, InChain
<1>4. ASSUME NEW t \in Thread, PushSetData(t)  PROVE OneOwner'
  BY <1>4 DEF PushSetData, InChain
<1>5. ASSUME NEW t \in Thread, PushSetNext(t)  PROVE OneOwner'
  BY <1>5 DEF PushSetNext, InChain
<1>6. ASSUME NEW t \in Thread, PushSetTail(t)  PROVE OneOwner'
  <2>1. own[t] \in Node /\ own[t] # Null
    BY <1>6 DEF PushSetTail, LocalInv, Pushing, HoldsTail
  <2>2. InChain' = InChain \cup {own[t]}
    BY <1>6, <2>1, PushChain DEF PushSetTail
  <2>3. own' = [own EXCEPT ![t] = Null] /\ live' = live
    BY <1>6 DEF PushSetTail, InChain
  <2>4. QED  BY <2>1, <2>2, <2>3
<1>7. ASSUME NEW t \in Thread, PushNotify(t)  PROVE OneOwner'
  BY <1>7 DEF PushNotify, InChain
<1>8. ASSUME NEW t \in Thread, LockHead(t)  PROVE OneOwner'
  BY <1>8 DEF LockHead, InChain
<1>9. ASSUME NEW t \in Thread, GetTail(t)  PROVE OneOwner'
  BY <1>9 DEF GetTail, InChain
<1>10. ASSUME NEW t \in Thread, ReturnAnswer(t)  PROVE OneOwner'
  BY <1>10 DEF ReturnAnswer, InChain
<1>11. ASSUME NEW t \in Thread, Wait(t)  PROVE OneOwner'
  BY <1>11 DEF Wait, InChain
<1>12. ASSUME NEW t \in Thread, FindElement(t)  PROVE OneOwner'
  BY <1>12 DEF FindElement, InChain
<1>13. ASSUME NEW t \in Thread, PopHead(t)  PROVE OneOwner'
  <2>1. own[t] = Null
    BY <1>13 DEF PopHead, LocalInv, Pushing, HoldsTail
  <2>2. InChain' = InChain \ {head} /\ head \in InChain /\ head # Null
    BY <1>13, PopChain, EndsInChain DEF PopHead
  <2>3. own' = [own EXCEPT ![t] = head] /\ live' = live
    BY <1>13 DEF PopHead, InChain
  <2>4. QED  BY <2>1, <2>2, <2>3
<1>14. ASSUME NEW t \in Thread, Take(t)  PROVE OneOwner'
  BY <1>14 DEF Take, InChain
<1>15. ASSUME NEW t \in Thread, SpuriousWakeup(t)  PROVE OneOwner'
  BY <1>15 DEF SpuriousWakeup, InChain
<1>16. CASE UNCHANGED vars
  BY <1>16 DEF vars, InChain
<1>17. QED
  BY <1>1, <1>2, <1>3, <1>4, <1>5, <1>6, <1>7, <1>8, <1>9,
     <1>10, <1>11, <1>12, <1>13, <1>14, <1>15, <1>16 DEF Next, Start, Step, PushStep, PopStep

\* The queue that the constructor makes satisfies the invariant.
LEMMA InitInv == Init => IInv
<1> SUFFICES ASSUME Init  PROVE IInv
  OBVIOUS
<1>1. PICK dummy \in Node : live = {dummy} /\ head = dummy /\ tail = dummy /\ chain = <<dummy>>
  BY DEF Init
<1>2. chain \in Seq(Node) /\ Len(chain) = 1 /\ chain[1] = dummy
  BY <1>1
<1>3. TypeOK
  BY <1>1, <1>2 DEF Init, TypeOK, Op, PcLabel
<1>4. ListIntact
  BY <1>1, <1>2 DEF ListIntact
<1>5. InChain = {dummy}
  BY <1>2 DEF InChain
<1>6. OneOwner
  BY <1>1, <1>5 DEF Init, OneOwner
<1>7. LockInv /\ LocalInv
  BY DEF Init, LockInv, LocalInv, HoldsHead, HoldsTail, Pushing
<1>8. QED  BY <1>3, <1>4, <1>6, <1>7 DEF IInv

\* The invariant of the queue is inductive.
THEOREM Invariance == Spec => []IInv
<1>1. IInv /\ [Next]_vars => IInv'
  BY TypeStep, ListStep, OwnerStep, LockStep, LocalStep DEF IInv
<1>2. QED  BY <1>1, InitInv, PTL DEF Spec

\* Type correctness; in particular head_ never becomes null, because a pop
\* leaves the dummy cell alone however stale its copy of tail_ is.
THEOREM TypeCorrect == Spec => []TypeOK
<1>1. IInv => TypeOK
  BY DEF IInv
<1>2. QED  BY <1>1, Invariance, PTL

\* The list from head_ to tail_ is intact in every state, also between the
\* three assignments of push() and while cells are reused.
THEOREM ListAlwaysIntact == Spec => []ListIntact
<1>1. IInv => ListIntact
  BY DEF IInv
<1>2. QED  BY <1>1, Invariance, PTL

\* Memory safety: no dangling pointer, no double delete, no leak.
THEOREM MemorySafe == Spec => []OneOwner
<1>1. IInv => OneOwner
  BY DEF IInv
<1>2. QED  BY <1>1, Invariance, PTL

\* The argument for two mutexes instead of one: the cell a pusher writes is
\* tail_, the cell a popper works on is either head_ with a longer list behind
\* it or a cell that has left the list.
LEMMA InvNoDataRace == IInv => NoDataRace
<1> SUFFICES ASSUME IInv, NEW t \in Thread, NEW u \in Thread, t # u
             PROVE  Touches(t) \cap Touches(u) = {}
  BY DEF NoDataRace
<1> DEFINE AtHead(x) == \/ pc[x] = "pop_head"
                        \/ pc[x] = "compare" /\ op[x] # "empty" /\ ~FoundEmpty(x)
<1>1. ASSUME NEW x \in Thread, AtHead(x)  PROVE Len(chain) > 1
  <2>1. CASE pc[x] = "pop_head"
    BY <2>1 DEF IInv, LocalInv
  <2>2. CASE pc[x] = "compare" /\ ~FoundEmpty(x)
    BY <2>2, EndsInChain DEF IInv, LocalInv, FoundEmpty
  <2>3. QED  BY <1>1, <2>1, <2>2
<1>2. Len(chain) > 1 => head # tail
  BY EndsInChain DEF IInv, ListIntact
<1>3. ~(AtHead(t) /\ AtHead(u))
  BY DEF IInv, LockInv, HoldsHead, TypeOK
<1>4. ~(HoldsTail(t) /\ HoldsTail(u))
  BY DEF IInv, LockInv, TypeOK
<1>5. head \in InChain /\ tail \in InChain
  BY EndsInChain DEF IInv
<1>6. \A x \in Thread : pc[x] = "take" => own[x] \notin InChain /\ own[x] # Null
  BY DEF IInv, OneOwner, LocalInv, Pushing, HoldsTail
<1>7. own[t] = own[u] => own[t] = Null
  BY DEF IInv, OneOwner
<1>8. \A x \in Thread : /\ AtHead(x) => Touches(x) = {head}
                        /\ pc[x] = "take" => Touches(x) = {own[x]}
                        /\ Touches(x) # {} /\ ~AtHead(x) /\ pc[x] # "take"
                           => HoldsTail(x) /\ Touches(x) = {tail}
  BY DEF Touches, HoldsTail
<1>9. QED
  BY <1>1, <1>2, <1>3, <1>4, <1>5, <1>6, <1>7, <1>8

\* push() and the pops never access the same cell at the same time.
THEOREM DataRaceFree == Spec => []NoDataRace
<1>1. QED  BY InvNoDataRace, Invariance, PTL

\* The argument against deadlock: whoever is waited for holds the mutex, so it is
\* at one of few places; only get_tail() waits with a mutex held, and nobody who
\* holds tail_mtx_ waits.
LEMMA InvNoDeadlock == IInv => NoDeadlock
<1> SUFFICES ASSUME IInv, NEW t \in Thread, WaitsFor(t) # Null
             PROVE  LET u == WaitsFor(t)
                        v == IF WaitsFor(u) = Null THEN u ELSE WaitsFor(u)
                    IN pc[u] \notin {"idle", "sleep"} /\ pc[v] \notin {"idle", "sleep"}
                         /\ WaitsFor(v) = Null
  BY DEF NoDeadlock
<1>1. \A x \in Thread : headMtx = x => pc[x] \in {"get_tail", "compare", "pop_head", "take"}
  BY DEF IInv, LockInv, HoldsHead
<1>2. \A x \in Thread : tailMtx = x => pc[x] \in {"set_data", "set_next", "set_tail"}
  BY DEF IInv, LockInv, HoldsTail
<1>3. headMtx \in Thread \cup {Null} /\ tailMtx \in Thread \cup {Null}
  BY DEF IInv, TypeOK
<1>4. \A x \in Thread : tailMtx = x => WaitsFor(x) = Null
  BY <1>2 DEF WaitsFor
<1>5. \A x \in Thread : headMtx = x =>
        WaitsFor(x) = Null \/ (WaitsFor(x) = tailMtx /\ tailMtx \in Thread)
  BY <1>1, <1>3 DEF WaitsFor
<1>6. (WaitsFor(t) = headMtx /\ headMtx \in Thread) \/ (WaitsFor(t) = tailMtx /\ tailMtx \in Thread)
  BY <1>3 DEF WaitsFor
<1>7. CASE WaitsFor(t) = tailMtx /\ tailMtx \in Thread
  BY <1>2, <1>4, <1>7
<1>8. CASE WaitsFor(t) = headMtx /\ headMtx \in Thread
  <2>1. CASE WaitsFor(headMtx) = Null
    BY <1>1, <1>8, <2>1
  <2>2. CASE WaitsFor(headMtx) = tailMtx /\ tailMtx \in Thread
    BY <1>1, <1>2, <1>4, <1>8, <2>2
  <2>3. QED  BY <1>5, <1>8, <2>1, <2>2
<1>9. QED  BY <1>6, <1>7, <1>8

\* No number of threads can hang on the two mutexes.
THEOREM DeadlockFree == Spec => []NoDeadlock
<1>1. QED  BY InvNoDeadlock, Invariance, PTL

(* Refinement *)

PopOp == Op \ {"push"}
NoValue == {"idle", "notify", "lock_head", "get_tail", "compare", "sleep"}

\* What the mapping reads besides the invariant: the operation that a point of
\* the program belongs to, and the value a thread has written or copied there.
ValueInv == \A t \in Thread :
  /\ op[t] = "none" <=> pc[t] = "idle"
  /\ op[t] = "push" <=> Pushing(t) \/ pc[t] = "notify"
  /\ pc[t] \in NoValue => val[t] = Null
  /\ pc[t] \in {"set_next", "set_tail"} => data[tail] = val[t]
  /\ pc[t] = "pop_head" /\ op[t] = "try_pop_ref" => val[t] = data[head]

\* Each action preserves these values: tail_->data is written by the holder of
\* tail_mtx_ only, and head_->data by nobody while head_mtx_ is held.
LEMMA ValueStep == IInv /\ ValueInv /\ [Next]_vars => ValueInv'
<1> SUFFICES ASSUME IInv, ValueInv, [Next]_vars  PROVE ValueInv'
  OBVIOUS
<1> USE DEF IInv, TypeOK, LockInv, ValueInv, NoValue, Op, HoldsHead, HoldsTail, Pushing, Goto,
            heap, ends, locals
<1>1. ASSUME NEW t \in Thread, NEW v \in Value, PushCall(t, v)  PROVE ValueInv'
  <2>1. PICK n \in Node \ live : data' = [data EXCEPT ![n] = Null]
    BY <1>1 DEF PushCall
  <2>2. tail # n /\ head # n
    BY <2>1, EndsInChain DEF OneOwner
  <2>3. QED  BY <1>1, <2>1, <2>2 DEF PushCall
<1>2. ASSUME NEW t \in Thread, NEW o \in Op, PopCall(t, o)  PROVE ValueInv'
  BY <1>2 DEF PopCall
<1>3. ASSUME NEW t \in Thread, PushLock(t)  PROVE ValueInv'
  BY <1>3 DEF PushLock
<1>4. ASSUME NEW t \in Thread, PushSetData(t)  PROVE ValueInv'
  <2>1. \A u \in Thread : pc[u] = "pop_head" => head # tail
    BY EndsInChain DEF LocalInv, ListIntact
  <2>2. QED  BY <1>4, <2>1 DEF PushSetData
<1>5. ASSUME NEW t \in Thread, PushSetNext(t)  PROVE ValueInv'
  BY <1>5 DEF PushSetNext
<1>6. ASSUME NEW t \in Thread, PushSetTail(t)  PROVE ValueInv'
  BY <1>6 DEF PushSetTail
<1>7. ASSUME NEW t \in Thread, PushNotify(t)  PROVE ValueInv'
  BY <1>7 DEF PushNotify
<1>8. ASSUME NEW t \in Thread, LockHead(t)  PROVE ValueInv'
  BY <1>8 DEF LockHead
<1>9. ASSUME NEW t \in Thread, GetTail(t)  PROVE ValueInv'
  BY <1>9 DEF GetTail
<1>10. ASSUME NEW t \in Thread, ReturnAnswer(t)  PROVE ValueInv'
  BY <1>10 DEF ReturnAnswer
<1>11. ASSUME NEW t \in Thread, Wait(t)  PROVE ValueInv'
  BY <1>11 DEF Wait
<1>12. ASSUME NEW t \in Thread, FindElement(t)  PROVE ValueInv'
  BY <1>12 DEF FindElement
<1>13. ASSUME NEW t \in Thread, PopHead(t)  PROVE ValueInv'
  BY <1>13 DEF PopHead
<1>14. ASSUME NEW t \in Thread, Take(t)  PROVE ValueInv'
  <2>1. own[t] # tail /\ own[t] # head
    BY EndsInChain DEF OneOwner
  <2>2. QED  BY <1>14, <2>1 DEF Take
<1>15. ASSUME NEW t \in Thread, SpuriousWakeup(t)  PROVE ValueInv'
  BY <1>15 DEF SpuriousWakeup
<1>16. CASE UNCHANGED vars
  BY <1>16 DEF vars
<1>17. QED
  BY <1>1, <1>2, <1>3, <1>4, <1>5, <1>6, <1>7, <1>8, <1>9,
     <1>10, <1>11, <1>12, <1>13, <1>14, <1>15, <1>16 DEF Next, Start, Step, PushStep, PopStep

\* The values of the queue form a sequence, as long as the list without its dummy.
LEMMA ItemsProperties ==
  IInv => /\ absItems \in Seq(Value)
          /\ Len(absItems) = Len(chain) - 1
          /\ \A i \in 1..Len(chain) - 1 : absItems[i] = data[chain[i]]
          /\ absItems = <<>> <=> head = tail
<1> SUFFICES ASSUME IInv
             PROVE  /\ absItems \in Seq(Value)
                    /\ Len(absItems) = Len(chain) - 1
                    /\ \A i \in 1..Len(chain) - 1 : absItems[i] = data[chain[i]]
                    /\ absItems = <<>> <=> head = tail
  OBVIOUS
<1>1. Len(chain) \in Nat \ {0}
  BY EndsInChain DEF IInv
<1>2. \A i \in 1..Len(chain) - 1 : data[chain[i]] \in Value
  BY DEF IInv, ListIntact
<1>3. absItems \in [1..Len(chain) - 1 -> Value] /\ Len(chain) - 1 \in Nat
  BY <1>1, <1>2 DEF absItems
<1>4. absItems \in Seq(Value) /\ Len(absItems) = Len(chain) - 1
  BY <1>1, <1>3, LenProperties, SeqDef
<1>5. head = tail <=> Len(chain) = 1
  <2>1. 1 \in 1..Len(chain) /\ Len(chain) \in 1..Len(chain)
    BY <1>1
  <2>2. QED  BY <1>1, <2>1 DEF IInv, ListIntact
<1>6. absItems = <<>> <=> Len(absItems) = 0
  BY <1>4, EmptySeq
<1>7. QED  BY <1>1, <1>4, <1>5, <1>6 DEF absItems

\* A step that leaves the list and its values alone does not change the items.
LEMMA ItemsKept ==
  ASSUME IInv, chain' = chain, \A i \in 1..Len(chain) - 1 : data'[chain[i]] = data[chain[i]]
  PROVE  absItems' = absItems
BY DEF absItems

\* Every step of the queue is a step of FifoQueue or changes nothing there.
LEMMA StepRefines == IInv /\ ValueInv /\ IInv' /\ [Next]_vars => [Fifo!Next]_(Fifo!vars)
<1> SUFFICES ASSUME IInv, ValueInv, IInv', [Next]_vars  PROVE [Fifo!Next]_(Fifo!vars)
  OBVIOUS
<1> USE DEF TypeOK, Goto, heap, ends, locals
<1>a. TypeOK /\ OneOwner /\ LockInv /\ LocalInv
  BY DEF IInv
<1>1. ASSUME NEW t \in Thread, NEW v \in Value, PushCall(t, v)  PROVE Fifo!Next
  <2>1. PICK n \in Node \ live : data' = [data EXCEPT ![n] = Null]
    BY <1>1 DEF PushCall
  <2>2. \A i \in 1..Len(chain) : chain[i] # n
    BY <1>a, <2>1 DEF OneOwner, InChain
  <2>3. absItems' = absItems
    <3>1. \A i \in 1..Len(chain) - 1 : i \in 1..Len(chain) /\ chain[i] \in Node
      BY <1>a, ElementOfSeq, LenProperties
    <3>2. QED  BY <1>1, <1>a, <2>1, <2>2, <3>1, ItemsKept DEF PushCall
  <2>4. \A u \in Thread : u # t /\ pc[u] = "take" => own[u] # n
    BY <1>a, <2>1 DEF OneOwner
  <2>5. absOp' = [absOp EXCEPT ![t] = "push"] /\ absOp[t] = "none"
    <3>1. /\ pc[t] = "idle" /\ op[t] = "none" /\ pc' = [pc EXCEPT ![t] = "lock_tail"]
          /\ op' = [op EXCEPT ![t] = "push"] /\ head' = head /\ seen' = seen
      BY <1>1 DEF PushCall, ValueInv
    <3>2. absOp[t] = "none"
      BY <3>1 DEF absOp, Answered
    <3>3. QED  BY <1>a, <3>1, <3>2 DEF absOp, Answered, FoundEmpty
  <2>6. absVal' = [absVal EXCEPT ![t] = v]
    <3>1. \A u \in Thread \ {t} : Taken(u)' = Taken(u) \/ pc[u] # "take"
      BY <1>1, <1>a, <2>1, <2>4 DEF PushCall, Taken
    <3>2. QED  BY <1>1, <1>a, <3>1 DEF PushCall, absVal, FoundEmpty
  <2>7. Fifo!CallPush(t, v)
    BY <2>3, <2>5, <2>6 DEF Fifo!CallPush
  <2>8. QED  BY <2>7 DEF Fifo!Next
<1>2. ASSUME NEW t \in Thread, NEW o \in Op, PopCall(t, o)  PROVE Fifo!Next
  <2> DEFINE a == IF o = "try_pop_ref" THEN "try_pop" ELSE o
  <2>1. a \in {"try_pop", "wait_and_pop", "empty"}
    BY <1>2 DEF PopCall, Op
  <2>2. absItems' = absItems
    BY <1>2 DEF PopCall, absItems
  <2>3. absOp' = [absOp EXCEPT ![t] = a] /\ absOp[t] = "none"
    BY <1>2, <1>a DEF PopCall, ValueInv, absOp, Answered, FoundEmpty
  <2>4. absVal' = absVal
    BY <1>2, <1>a DEF PopCall, absVal, Taken, FoundEmpty
  <2>5. Fifo!Call(t, a)
    BY <2>2, <2>3, <2>4 DEF Fifo!Call
  <2>6. QED  BY <2>1, <2>5 DEF Fifo!Next
<1>3. ASSUME NEW t \in Thread, PushLock(t)  PROVE UNCHANGED Fifo!vars
  BY <1>3, <1>a DEF PushLock, Fifo!vars, absItems, absOp, absVal, Answered, Taken, FoundEmpty
<1>4. ASSUME NEW t \in Thread, PushSetData(t)  PROVE UNCHANGED Fifo!vars
  <2>1. absItems' = absItems
    <3>1. \A i \in 1..Len(chain) - 1 : chain[i] # tail
      BY EndsInChain DEF IInv, ListIntact
    <3>2. \A i \in 1..Len(chain) - 1 : chain[i] \in Node
      BY <1>a, ElementOfSeq, LenProperties
    <3>3. QED  BY <1>4, <1>a, <3>1, <3>2, ItemsKept DEF PushSetData
  <2>2. \A u \in Thread : own[u] # tail
    BY <1>a, EndsInChain DEF OneOwner, IInv
  <2>3. \A u \in Thread : pc[u] = "take" => own[u] \in Node
    BY <1>a DEF LocalInv
  <2>4. absOp' = absOp
    BY <1>4, <1>a DEF PushSetData, absOp, Answered, FoundEmpty
  <2>5. absVal' = absVal
    BY <1>4, <1>a, <2>2, <2>3 DEF PushSetData, absVal, Taken, FoundEmpty
  <2>6. QED  BY <2>1, <2>4, <2>5 DEF Fifo!vars
<1>5. ASSUME NEW t \in Thread, PushSetNext(t)  PROVE UNCHANGED Fifo!vars
  BY <1>5, <1>a DEF PushSetNext, Fifo!vars, absItems, absOp, absVal, Answered, Taken, FoundEmpty
<1>6. ASSUME NEW t \in Thread, PushSetTail(t)  PROVE Fifo!Next
  <2>1. own[t] \in Node /\ val[t] \in Value /\ data[tail] = val[t] /\ op[t] = "push"
    BY <1>6, <1>a DEF PushSetTail, LocalInv, ValueInv, Pushing, HoldsTail
  <2>2. /\ Len(chain) \in Nat \ {0} /\ Len(chain') = Len(chain) + 1
        /\ \A i \in 1..Len(chain) : chain'[i] = chain[i]
    BY <1>6, <1>a, <2>1, PushChain, EndsInChain DEF PushSetTail, IInv
  <2>3. absItems' = Append(absItems, absVal[t])
    <3>1. absVal[t] = val[t]
      BY <1>6 DEF PushSetTail, absVal
    <3> DEFINE more == Append(absItems, val[t])
    <3>2. /\ more \in Seq(Value) /\ Len(more) = Len(chain)
          /\ \A i \in 1..Len(chain) - 1 : more[i] = data[chain[i]]
          /\ more[Len(chain)] = val[t]
      BY <2>1, <2>2, ItemsProperties, AppendProperties
    <3>3. absItems' \in Seq(Value) /\ Len(absItems') = Len(chain)
      <4>1. (absItems \in Seq(Value) /\ Len(absItems) = Len(chain) - 1)'
        BY ItemsProperties, PTL
      <4>2. QED  BY <2>2, <4>1
    <3>4. chain[Len(chain)] = tail
      BY DEF IInv, ListIntact
    <3>5. \A i \in 1..Len(chain) : absItems'[i] = data[chain[i]]
      BY <1>6, <2>2 DEF PushSetTail, absItems
    <3>6. \A i \in 1..Len(chain) : absItems'[i] = more[i]
      BY <2>1, <2>2, <3>2, <3>4, <3>5
    <3>7. QED  BY <3>1, <3>2, <3>3, <3>6, SeqEqual
  <2>4. absOp' = [absOp EXCEPT ![t] = "done"] /\ absOp[t] = "push"
    BY <1>6, <1>a, <2>1 DEF PushSetTail, absOp, Answered, FoundEmpty
  <2>5. absVal' = [absVal EXCEPT ![t] = Null]
    BY <1>6, <1>a DEF PushSetTail, absVal, Taken, FoundEmpty
  <2>6. Fifo!Enqueue(t)
    BY <2>3, <2>4, <2>5 DEF Fifo!Enqueue, Fifo!Answer
  <2>7. QED  BY <2>6 DEF Fifo!Next
<1>7. ASSUME NEW t \in Thread, PushNotify(t)  PROVE Fifo!Next
  <2>1. absItems' = absItems
    BY <1>7 DEF PushNotify, absItems
  <2>2. absOp' = [absOp EXCEPT ![t] = "none"] /\ absOp[t] = "done"
    BY <1>7, <1>a DEF PushNotify, absOp, Answered, FoundEmpty
  <2>3. absVal' = [absVal EXCEPT ![t] = Null]
    BY <1>7, <1>a DEF PushNotify, absVal, Taken, FoundEmpty, ValueInv, NoValue
  <2>4. Fifo!Return(t)
    BY <2>1, <2>2, <2>3 DEF Fifo!Return
  <2>5. QED  BY <2>4 DEF Fifo!Next
<1>8. ASSUME NEW t \in Thread, LockHead(t)  PROVE UNCHANGED Fifo!vars
  BY <1>8, <1>a DEF LockHead, Fifo!vars, absItems, absOp, absVal, Answered, Taken, FoundEmpty
<1>9. ASSUME NEW t \in Thread, GetTail(t)  PROVE [Fifo!Next]_(Fifo!vars)
  <2>1. absItems' = absItems /\ op[t] \in PopOp
    BY <1>9, <1>a DEF GetTail, absItems, ValueInv, Pushing, HoldsTail, PopOp
  <2>2. (absItems = <<>>) = (head = tail)
    BY ItemsProperties
  <2>3. FoundEmpty(t)' = (head = tail)
    BY <1>9, <1>a DEF GetTail, FoundEmpty
  <2>4. val[t] = Null /\ \A u \in Thread \ {t} : FoundEmpty(u)' = FoundEmpty(u)
    BY <1>9, <1>a DEF GetTail, FoundEmpty, ValueInv, NoValue
  <2>5. CASE op[t] = "empty"
    <3>1. absOp' = [absOp EXCEPT ![t] = "done"] /\ absOp[t] = "empty"
      BY <1>9, <1>a, <2>4, <2>5 DEF GetTail, absOp, Answered
    <3>2. absVal' = [absVal EXCEPT ![t] = FoundEmpty(t)']
      BY <1>9, <1>a, <2>4, <2>5 DEF GetTail, absVal, Taken
    <3>3. Fifo!TestEmpty(t)
      BY <2>1, <2>2, <2>3, <3>1, <3>2 DEF Fifo!TestEmpty, Fifo!Answer
    <3>4. QED  BY <3>3 DEF Fifo!Next
  <2>6. CASE op[t] \in {"try_pop", "try_pop_ref"} /\ head = tail
    <3>1. absOp' = [absOp EXCEPT ![t] = "done"] /\ absOp[t] = "try_pop"
      <4>1. pc[t] = "get_tail" /\ pc' = [pc EXCEPT ![t] = "compare"] /\ op' = op
        BY <1>9 DEF GetTail
      <4>2. absOp[t] = "try_pop"
        BY <2>6, <4>1 DEF absOp, Answered
      <4>3. Answered(t)'
        BY <1>a, <2>3, <2>6, <4>1 DEF Answered
      <4>4. \A u \in Thread \ {t} : Answered(u)' = Answered(u)
        BY <1>a, <2>4, <4>1 DEF Answered
      <4>5. QED  BY <4>1, <4>2, <4>3, <4>4 DEF absOp
    <3>2. absVal' = [absVal EXCEPT ![t] = Null]
      BY <1>9, <1>a, <2>4, <2>6 DEF GetTail, absVal, Taken
    <3>3. Fifo!FindNothing(t)
      BY <2>1, <2>2, <2>6, <3>1, <3>2 DEF Fifo!FindNothing, Fifo!Answer
    <3>4. QED  BY <3>3 DEF Fifo!Next
  <2>7. CASE op[t] # "empty" /\ ~(op[t] \in {"try_pop", "try_pop_ref"} /\ head = tail)
    <3>1. absOp' = absOp
      BY <1>9, <1>a, <2>3, <2>4, <2>7 DEF GetTail, absOp, Answered
    <3>2. absVal' = absVal
      BY <1>9, <1>a, <2>4, <2>7 DEF GetTail, absVal, Taken
    <3>3. QED  BY <2>1, <3>1, <3>2 DEF Fifo!vars
  <2>8. QED  BY <2>5, <2>6, <2>7
<1>10. ASSUME NEW t \in Thread, ReturnAnswer(t)  PROVE Fifo!Next
  <2>1. absItems' = absItems
    BY <1>10 DEF ReturnAnswer, absItems
  <2>2. absOp' = [absOp EXCEPT ![t] = "none"] /\ absOp[t] = "done"
    BY <1>10, <1>a DEF ReturnAnswer, absOp, Answered, FoundEmpty
  <2>3. absVal' = [absVal EXCEPT ![t] = Null]
    BY <1>10, <1>a DEF ReturnAnswer, absVal, Taken, FoundEmpty, ValueInv, NoValue
  <2>4. Fifo!Return(t)
    BY <2>1, <2>2, <2>3 DEF Fifo!Return
  <2>5. QED  BY <2>4 DEF Fifo!Next
<1>11. ASSUME NEW t \in Thread, Wait(t)  PROVE UNCHANGED Fifo!vars
  BY <1>11, <1>a DEF Wait, Fifo!vars, absItems, absOp, absVal, Answered, Taken, FoundEmpty
<1>12. ASSUME NEW t \in Thread, FindElement(t)  PROVE UNCHANGED Fifo!vars
  BY <1>12, <1>a DEF FindElement, Fifo!vars, absItems, absOp, absVal, Answered, Taken, FoundEmpty,
                      ValueInv, NoValue
<1>13. ASSUME NEW t \in Thread, PopHead(t)  PROVE Fifo!Next
  <2>1. op[t] \in {"try_pop", "try_pop_ref", "wait_and_pop"} /\ Len(chain) > 1 /\ head \in Node
    BY <1>13, <1>a DEF PopHead, LocalInv, ValueInv, Pushing, HoldsTail, Op
  <2>2. /\ Len(chain) \in Nat /\ Len(chain') = Len(chain) - 1
        /\ \A i \in 1..Len(chain) - 1 : chain'[i] = chain[i + 1]
    BY <1>13, PopChain DEF PopHead, IInv
  <2>3. absItems # <<>> /\ Head(absItems) = data[head]
    <3>1. Len(absItems) > 0 /\ absItems \in Seq(Value)
      BY <2>1, <2>2, ItemsProperties
    <3>2. absItems[1] = data[chain[1]]
      BY <2>1, <2>2, ItemsProperties
    <3>3. QED  BY <3>1, <3>2, EmptySeq, HeadTailProperties DEF IInv, ListIntact
  <2>4. absItems' = Tail(absItems)
    <3>1. /\ Tail(absItems) \in Seq(Value) /\ Len(Tail(absItems)) = Len(chain) - 2
          /\ \A i \in 1..Len(chain) - 2 : Tail(absItems)[i] = absItems[i + 1]
      BY <2>2, <2>3, ItemsProperties, HeadTailProperties
    <3>2. absItems' \in Seq(Value) /\ Len(absItems') = Len(chain) - 2
      <4>1. (absItems \in Seq(Value) /\ Len(absItems) = Len(chain) - 1)'
        BY ItemsProperties, PTL
      <4>2. QED  BY <2>2, <4>1
    <3>3. ASSUME NEW i \in 1..Len(chain) - 2  PROVE absItems'[i] = Tail(absItems)[i]
      <4>1. i \in 1..Len(chain) - 1 /\ i + 1 \in 1..Len(chain) - 1 /\ i \in 1..Len(chain') - 1
        BY <2>2, <3>3
      <4>2. absItems'[i] = data[chain[i + 1]]
        BY <1>13, <2>2, <4>1 DEF PopHead, absItems
      <4>3. absItems[i + 1] = data[chain[i + 1]]
        BY <4>1 DEF absItems
      <4>4. QED  BY <3>1, <4>2, <4>3
    <3>4. QED  BY <3>1, <3>2, <3>3, SeqEqual
  <2>5. absOp' = [absOp EXCEPT ![t] = "done"] /\ absOp[t] \in {"try_pop", "wait_and_pop"}
    <3>1. \A u \in Thread \ {t} : pc[u] # "compare"
      BY <1>13, <1>a DEF PopHead, LockInv, HoldsHead
    <3>2. QED  BY <1>13, <1>a, <2>1, <3>1 DEF PopHead, absOp, Answered
  <2>6. absVal' = [absVal EXCEPT ![t] = data[head]]
    <3>1. \A u \in Thread \ {t} : pc[u] # "compare"
      BY <1>13, <1>a DEF PopHead, LockInv, HoldsHead
    <3>2. Taken(t)' = data[head]
      BY <1>13, <1>a DEF PopHead, Taken, ValueInv
    <3>3. QED  BY <1>13, <1>a, <3>1, <3>2 DEF PopHead, absVal, Taken
  <2>7. Fifo!Dequeue(t)
    BY <2>3, <2>4, <2>5, <2>6 DEF Fifo!Dequeue, Fifo!Answer
  <2>8. QED  BY <2>7 DEF Fifo!Next
<1>14. ASSUME NEW t \in Thread, Take(t)  PROVE Fifo!Next
  <2>1. own[t] \notin InChain /\ own[t] \in Node
    BY <1>14, <1>a DEF Take, OneOwner, LocalInv
  <2>2. absItems' = absItems
    <3>1. \A i \in 1..Len(chain) - 1 : chain[i] # own[t] /\ chain[i] \in Node
      BY <1>a, <2>1, ElementOfSeq, LenProperties DEF InChain
    <3>2. QED  BY <1>14, <1>a, <3>1, ItemsKept DEF Take
  <2>3. absOp' = [absOp EXCEPT ![t] = "none"] /\ absOp[t] = "done"
    BY <1>14, <1>a DEF Take, absOp, Answered, FoundEmpty
  <2>4. absVal' = [absVal EXCEPT ![t] = Null]
    <3>1. \A u \in Thread \ {t} : pc[u] = "take" => own[u] # own[t] /\ own[u] \in Node
      BY <1>a, <1>14 DEF Take, OneOwner, LocalInv
    <3>2. QED  BY <1>14, <1>a, <2>1, <3>1 DEF Take, absVal, Taken, FoundEmpty
  <2>5. Fifo!Return(t)
    BY <2>2, <2>3, <2>4 DEF Fifo!Return
  <2>6. QED  BY <2>5 DEF Fifo!Next
<1>15. ASSUME NEW t \in Thread, SpuriousWakeup(t)  PROVE UNCHANGED Fifo!vars
  BY <1>15, <1>a DEF SpuriousWakeup, Fifo!vars, absItems, absOp, absVal, Answered, Taken, FoundEmpty
<1>16. CASE UNCHANGED vars
  BY <1>16 DEF vars, Fifo!vars, absItems, absOp, absVal, Answered, Taken, FoundEmpty
<1>17. QED
  BY <1>1, <1>2, <1>3, <1>4, <1>5, <1>6, <1>7, <1>8, <1>9,
     <1>10, <1>11, <1>12, <1>13, <1>14, <1>15, <1>16 DEF Next, Start, Step, PushStep, PopStep

\* Linearizability: with two mutexes and a stale copy of tail_ the operations
\* still seem to take place one after the other on a first-in first-out sequence,
\* and a pop returns the value that was at the front when it took effect.
THEOREM Refinement == Spec => ImplementsFifo
<1>1. Init => Fifo!Init /\ ValueInv
  <2> SUFFICES ASSUME Init  PROVE Fifo!Init /\ ValueInv
    OBVIOUS
  <2>1. absItems = <<>>
    BY InitInv, ItemsProperties DEF Init
  <2>2. absOp = [t \in Thread |-> "none"] /\ absVal = [t \in Thread |-> Null]
    BY DEF Init, absOp, absVal, Answered
  <2>3. QED  BY <2>1, <2>2 DEF Init, Fifo!Init, ValueInv, Pushing, HoldsTail
<1>2. QED
  BY <1>1, StepRefines, ValueStep, Invariance, PTL DEF Spec, ImplementsFifo, Fifo!Spec

-----------------------------------------------------------------------------
(* The queue under one mutex: LockedQueue, with state of its own. *)

CONSTANTS LockedCalls, Capacity
VARIABLES items, mtx, at, doing, got

Locked == INSTANCE LockedQueue
            WITH Calls <- LockedCalls, data <- items, pc <- at, op <- doing, val <- got

\* Each action preserves the types: what is pushed is a value.
LEMMA LockedTypeStep == Locked!IInv /\ [Locked!Next]_(Locked!vars) => Locked!TypeOK'
<1> SUFFICES ASSUME Locked!IInv, [Locked!Next]_(Locked!vars)  PROVE Locked!TypeOK'
  OBVIOUS
<1> USE DEF Locked!IInv, Locked!TypeOK, Locked!Op, Locked!PcLabel, Locked!Goto
<1>1. ASSUME NEW t \in Thread, NEW v \in Value, Locked!CallPush(t, v)  PROVE Locked!TypeOK'
  BY <1>1 DEF Locked!CallPush
<1>2. ASSUME NEW t \in Thread, NEW o \in Locked!Op, Locked!Call(t, o)  PROVE Locked!TypeOK'
  BY <1>2 DEF Locked!Call
<1>3. ASSUME NEW t \in Thread, Locked!Lock(t)  PROVE Locked!TypeOK'
  BY <1>3 DEF Locked!Lock
<1>4. ASSUME NEW t \in Thread, Locked!PushBack(t)  PROVE Locked!TypeOK'
  BY <1>4 DEF Locked!PushBack, Locked!LocalInv
<1>5. ASSUME NEW t \in Thread, Locked!Notify(t)  PROVE Locked!TypeOK'
  BY <1>5 DEF Locked!Notify
<1>6. ASSUME NEW t \in Thread, Locked!FindNothing(t)  PROVE Locked!TypeOK'
  BY <1>6 DEF Locked!FindNothing
<1>7. ASSUME NEW t \in Thread, Locked!TestEmpty(t)  PROVE Locked!TypeOK'
  BY <1>7 DEF Locked!TestEmpty
<1>8. ASSUME NEW t \in Thread, Locked!Wait(t)  PROVE Locked!TypeOK'
  BY <1>8 DEF Locked!Wait
<1>9. ASSUME NEW t \in Thread, Locked!SpuriousWakeup(t)  PROVE Locked!TypeOK'
  BY <1>9 DEF Locked!SpuriousWakeup
<1>10. ASSUME NEW t \in Thread, Locked!Front(t)  PROVE Locked!TypeOK'
  BY <1>10, HeadTailProperties DEF Locked!Front
<1>11. ASSUME NEW t \in Thread, Locked!Pop(t)  PROVE Locked!TypeOK'
  BY <1>11, HeadTailProperties DEF Locked!Pop, Locked!LockInv
<1>12. ASSUME NEW t \in Thread, Locked!Return(t)  PROVE Locked!TypeOK'
  BY <1>12 DEF Locked!Return
<1>13. CASE UNCHANGED Locked!vars
  BY <1>13 DEF Locked!vars
<1>14. QED
  BY <1>1, <1>2, <1>3, <1>4, <1>5, <1>6, <1>7, <1>8, <1>9, <1>10, <1>11, <1>12, <1>13
     DEF Locked!Next, Locked!Start, Locked!Step

LockedInv == Locked!LockInv /\ Locked!NoLostWakeup /\ Locked!LocalInv

\* Each action preserves the rest of the invariant.
LEMMA LockedInvStep == Locked!IInv /\ [Locked!Next]_(Locked!vars) => LockedInv'
<1> SUFFICES ASSUME Locked!IInv, [Locked!Next]_(Locked!vars)  PROVE LockedInv'
  OBVIOUS
<1> USE DEF Locked!IInv, Locked!TypeOK, LockedInv, Locked!LockInv, Locked!NoLostWakeup,
            Locked!LocalInv, Locked!Op, Locked!Goto
<1>1. ASSUME NEW t \in Thread, NEW v \in Value, Locked!CallPush(t, v)
      PROVE  LockedInv'
  BY <1>1 DEF Locked!CallPush
<1>2. ASSUME NEW t \in Thread, NEW o \in Locked!Op, Locked!Call(t, o)
      PROVE  LockedInv'
  BY <1>2 DEF Locked!Call
<1>3. ASSUME NEW t \in Thread, Locked!Lock(t)  PROVE LockedInv'
  BY <1>3 DEF Locked!Lock
<1>4. ASSUME NEW t \in Thread, Locked!PushBack(t)  PROVE LockedInv'
  BY <1>4 DEF Locked!PushBack
<1>5. ASSUME NEW t \in Thread, Locked!Notify(t)  PROVE LockedInv'
  BY <1>5 DEF Locked!Notify
<1>6. ASSUME NEW t \in Thread, Locked!FindNothing(t)  PROVE LockedInv'
  BY <1>6 DEF Locked!FindNothing
<1>7. ASSUME NEW t \in Thread, Locked!TestEmpty(t)  PROVE LockedInv'
  BY <1>7 DEF Locked!TestEmpty
<1>8. ASSUME NEW t \in Thread, Locked!Wait(t)  PROVE LockedInv'
  BY <1>8 DEF Locked!Wait
<1>9. ASSUME NEW t \in Thread, Locked!SpuriousWakeup(t)  PROVE LockedInv'
  BY <1>9 DEF Locked!SpuriousWakeup
<1>10. ASSUME NEW t \in Thread, Locked!Front(t)  PROVE LockedInv'
  BY <1>10 DEF Locked!Front
<1>11. ASSUME NEW t \in Thread, Locked!Pop(t)  PROVE LockedInv'
  BY <1>11 DEF Locked!Pop
<1>12. ASSUME NEW t \in Thread, Locked!Return(t)  PROVE LockedInv'
  BY <1>12 DEF Locked!Return
<1>13. CASE UNCHANGED Locked!vars
  BY <1>13 DEF Locked!vars
<1>14. QED
  BY <1>1, <1>2, <1>3, <1>4, <1>5, <1>6, <1>7, <1>8, <1>9, <1>10, <1>11, <1>12, <1>13
     DEF Locked!Next, Locked!Start, Locked!Step

\* The invariant of the queue is inductive.
THEOREM LockedInvariance == Locked!Spec => []Locked!IInv
<1>1. Locked!Init => Locked!IInv
  BY DEF Locked!Init, Locked!IInv, Locked!TypeOK, Locked!LockInv, Locked!NoLostWakeup,
         Locked!LocalInv, Locked!Op, Locked!PcLabel
<1>2. Locked!IInv /\ [Locked!Next]_(Locked!vars) => Locked!IInv'
  BY LockedTypeStep, LockedInvStep DEF Locked!IInv, LockedInv
<1>3. QED  BY <1>1, <1>2, PTL DEF Locked!Spec

\* Type correctness, with any number of threads.
THEOREM LockedTypeCorrect == Locked!Spec => []Locked!TypeOK
<1>1. Locked!IInv => Locked!TypeOK
  BY DEF Locked!IInv
<1>2. QED  BY <1>1, LockedInvariance, PTL

\* Notifying under the mutex is enough: however many consumers race with the
\* push, none goes to sleep beside the new element.
THEOREM WakeupsNotLost == Locked!Spec => []Locked!NoLostWakeup
<1>1. Locked!IInv => Locked!NoLostWakeup
  BY DEF Locked!IInv
<1>2. QED  BY <1>1, LockedInvariance, PTL

\* Every step of the queue is a step of FifoQueue or changes nothing there.
LEMMA LockedStepRefines ==
  Locked!IInv /\ [Locked!Next]_(Locked!vars) => [Locked!Fifo!Next]_(Locked!Fifo!vars)
<1> SUFFICES ASSUME Locked!IInv, [Locked!Next]_(Locked!vars)
             PROVE  [Locked!Fifo!Next]_(Locked!Fifo!vars)
  OBVIOUS
<1> USE DEF Locked!IInv, Locked!TypeOK, Locked!LocalInv, Locked!Goto, Locked!absOp,
            Locked!absVal, Locked!Fifo!vars
<1>1. ASSUME NEW t \in Thread, NEW v \in Value, Locked!CallPush(t, v)  PROVE Locked!Fifo!Next
  <2>1. Locked!Fifo!CallPush(t, v)
    BY <1>1 DEF Locked!CallPush, Locked!Fifo!CallPush
  <2>2. QED  BY <2>1 DEF Locked!Fifo!Next
<1>2. ASSUME NEW t \in Thread, NEW o \in Locked!Op, Locked!Call(t, o)  PROVE Locked!Fifo!Next
  <2>1. Locked!Fifo!Call(t, o) /\ o \in {"try_pop", "wait_and_pop", "empty"}
    BY <1>2 DEF Locked!Call, Locked!Op, Locked!Fifo!Call
  <2>2. QED  BY <2>1 DEF Locked!Fifo!Next
<1>3. ASSUME NEW t \in Thread, Locked!Lock(t)  PROVE UNCHANGED Locked!Fifo!vars
  BY <1>3 DEF Locked!Lock
<1>4. ASSUME NEW t \in Thread, Locked!PushBack(t)  PROVE Locked!Fifo!Next
  <2>1. Locked!Fifo!Enqueue(t)
    BY <1>4 DEF Locked!PushBack, Locked!Fifo!Enqueue, Locked!Fifo!Answer
  <2>2. QED  BY <2>1 DEF Locked!Fifo!Next
<1>5. ASSUME NEW t \in Thread, Locked!Notify(t)  PROVE Locked!Fifo!Next
  <2>1. Locked!Fifo!Return(t)
    BY <1>5 DEF Locked!Notify, Locked!Fifo!Return
  <2>2. QED  BY <2>1 DEF Locked!Fifo!Next
<1>6. ASSUME NEW t \in Thread, Locked!FindNothing(t)  PROVE Locked!Fifo!Next
  <2>1. Locked!Fifo!FindNothing(t)
    BY <1>6 DEF Locked!FindNothing, Locked!Fifo!FindNothing, Locked!Fifo!Answer
  <2>2. QED  BY <2>1 DEF Locked!Fifo!Next
<1>7. ASSUME NEW t \in Thread, Locked!TestEmpty(t)  PROVE Locked!Fifo!Next
  <2>1. Locked!Fifo!TestEmpty(t)
    BY <1>7 DEF Locked!TestEmpty, Locked!Fifo!TestEmpty, Locked!Fifo!Answer
  <2>2. QED  BY <2>1 DEF Locked!Fifo!Next
<1>8. ASSUME NEW t \in Thread, Locked!Wait(t)  PROVE UNCHANGED Locked!Fifo!vars
  BY <1>8 DEF Locked!Wait
<1>9. ASSUME NEW t \in Thread, Locked!SpuriousWakeup(t)  PROVE UNCHANGED Locked!Fifo!vars
  BY <1>9 DEF Locked!SpuriousWakeup
<1>10. ASSUME NEW t \in Thread, Locked!Front(t)  PROVE UNCHANGED Locked!Fifo!vars
  BY <1>10 DEF Locked!Front
<1>11. ASSUME NEW t \in Thread, Locked!Pop(t)  PROVE Locked!Fifo!Next
  <2>1. Locked!Fifo!Dequeue(t)
    BY <1>11 DEF Locked!Pop, Locked!LockInv, Locked!Fifo!Dequeue, Locked!Fifo!Answer
  <2>2. QED  BY <2>1 DEF Locked!Fifo!Next
<1>12. ASSUME NEW t \in Thread, Locked!Return(t)  PROVE Locked!Fifo!Next
  <2>1. Locked!Fifo!Return(t)
    BY <1>12 DEF Locked!Return, Locked!Fifo!Return
  <2>2. QED  BY <2>1 DEF Locked!Fifo!Next
<1>13. CASE UNCHANGED Locked!vars
  BY <1>13 DEF Locked!vars
<1>14. QED
  BY <1>1, <1>2, <1>3, <1>4, <1>5, <1>6, <1>7, <1>8, <1>9, <1>10, <1>11, <1>12, <1>13
     DEF Locked!Next, Locked!Start, Locked!Step

\* Linearizability: the queue implements FifoQueue, so its operations seem to
\* take place one after the other on a first-in first-out sequence.
THEOREM LockedRefinement == Locked!Spec => Locked!ImplementsFifo
<1>1. Locked!Init => Locked!Fifo!Init
  BY DEF Locked!Init, Locked!Fifo!Init, Locked!absOp, Locked!absVal
<1>2. QED
  BY <1>1, LockedStepRefines, LockedInvariance, PTL
     DEF Locked!Spec, Locked!ImplementsFifo, Locked!Fifo!Spec
==============================================================================
