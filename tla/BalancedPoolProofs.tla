------------------------- MODULE BalancedPoolProofs -------------------------
(* Proofs about BalancedPool, for any number of workers and any tasks.     *)
EXTENDS BalancedPool, SequenceTheorems, TLAPS

USE CountAssumption, TaskAssumption, ThrowAssumption, NameAssumption

\* The actions there are.
LEMMA StepsOf ==
  ASSUME [Next]_vars
  PROVE  \/ CtorLock \/ CreateThread \/ AddQueue \/ CtorDone \/ CtorThrows
         \/ Close \/ FreeMtx \/ Join \/ FreeQueues \/ FreePool \/ Help
         \/ \E w \in Worker : Lock(w) \/ Unlock(w) \/ Bind(w) \/ CheckDone(w)
         \/ \E t \in Thread : PopLocal(t) \/ PopPool(t) \/ Steal(t) \/ StealFails(t) \/ Finish(t)
         \/ \E t \in Thread, x \in Task : Submit(t, x)
         \/ UNCHANGED vars
BY Zenon DEF Next, OwnerStep, WorkerStep, Choose, Construct, Destroy, StartUp, RunPending, Thread

\* What it means to be in a deque.
LEMMA UnionOfDeques ==
  ASSUME NEW Q, NEW x
  PROVE  x \in UNION {{Q[w + 1][k] : k \in 1..Len(Q[w + 1])} : w \in 0..Len(Q) - 1}
         <=> \E w \in 0..Len(Q) - 1 : \E k \in 1..Len(Q[w + 1]) : Q[w + 1][k] = x
<1> DEFINE S(w) == {Q[w + 1][k] : k \in 1..Len(Q[w + 1])}
<1>1. \A w : x \in S(w) <=> \E k \in 1..Len(Q[w + 1]) : Q[w + 1][k] = x
  OBVIOUS
<1> HIDE DEF S
<1>2. x \in UNION {S(w) : w \in 0..Len(Q) - 1} <=> \E w \in 0..Len(Q) - 1 : x \in S(w)
  BY Zenon
<1>3. QED  BY <1>1, <1>2, Zenon DEF S

\* Remainders.
LEMMA Remainder ==
  ASSUME NEW a \in Nat, NEW n \in Nat \ {0}
  PROVE  a % n \in 0..n - 1
OBVIOUS

\* A deque that loses one element x, or that gains one.
LEMMA DequeChange ==
  ASSUME TypeOK, NEW w \in 0..Len(queues) - 1, NEW q \in Seq(Task), NEW x,
         queues' = [queues EXCEPT ![w + 1] = q],
         \A k \in 1..Len(queues[w + 1]) : queues[w + 1][k] = x \/ \E l \in 1..Len(q) : q[l] = queues[w + 1][k]
  PROVE  /\ queues' \in Seq(Seq(Task)) /\ Len(queues') = Len(queues)
         /\ \A y \in InDeques : y \in InDeques' \/ y = x
<1>1. /\ queues' \in Seq(Seq(Task)) /\ Len(queues') = Len(queues) /\ queues'[w + 1] = q
      /\ \A v \in 0..Len(queues) - 1 : v # w => queues'[v + 1] = queues[v + 1]
  BY ExceptSeq DEF TypeOK
<1>2. SUFFICES ASSUME NEW y \in InDeques, y # x  PROVE y \in InDeques'
  BY <1>1
<1>0. PICK v \in 0..Len(queues) - 1 : \E k \in 1..Len(queues[v + 1]) : queues[v + 1][k] = y
  <2>1. y \in UNION {{queues[u + 1][k] : k \in 1..Len(queues[u + 1])} : u \in 0..Len(queues) - 1}
    BY Zenon DEF InDeques, InDeque
  <2>2. QED  BY <2>1, UnionOfDeques
<1>3. PICK k \in 1..Len(queues[v + 1]) : queues[v + 1][k] = y
  BY <1>0
<1>4. \E u \in 0..Len(queues') - 1 : \E l \in 1..Len(queues'[u + 1]) : queues'[u + 1][l] = y
  <2>1. CASE v # w
    BY <1>1, <1>3, <2>1
  <2>2. CASE v = w
    <3>1. PICK l \in 1..Len(q) : q[l] = y
      BY <1>2, <1>3, <2>2
    <3>2. QED  BY <1>1, <3>1
  <2>3. QED  BY <2>1, <2>2
<1>5. QED
  <2>1. PICK u \in 0..Len(queues') - 1 : \E l \in 1..Len(queues'[u + 1]) : queues'[u + 1][l] = y
    BY <1>4
  <2>2. y \in InDeque(u)'
    BY <2>1 DEF InDeque
  <2>3. QED  BY <2>2, Zenon DEF InDeques

\* What run_pending_task() does until it has a task: it goes on to the next
\* queue, or takes one task out of one queue and into its hands.
LEMMA PopEffect ==
  ASSUME TypeOK, LifeInv, QueuesInv, NEW t \in Thread, PopLocal(t) \/ PopPool(t) \/ Steal(t)
  PROVE  /\ UNCHANGED <<done, mtx, threads, alive, fut>>
         /\ pc[t] \in {"local", "pool", "steal"} /\ task[t] = Null
         /\ pool_work_queue' \in Seq(Task) /\ queues' \in Seq(Seq(Task)) /\ Len(queues') = Len(queues)
         /\ i' \in [Thread -> 0..ThreadCount]
         /\ \/ /\ task' = task /\ UNCHANGED <<pool_work_queue, queues>>
               /\ \E l \in {"pool", "steal"} : pc' = [pc EXCEPT ![t] = l]
            \/ \E x \in Task : /\ pc' = [pc EXCEPT ![t] = "run"]
                               /\ task' = [task EXCEPT ![t] = x]
                               /\ \A y \in InPool : y \in InPool' \/ y = x
                               /\ \A y \in InDeques : y \in InDeques' \/ y = x
<1>1. /\ UNCHANGED <<done, mtx, threads, alive, fut>>
      /\ pc[t] \in {"local", "pool", "steal"} /\ task[t] = Null
  BY DEF PopLocal, PopPool, Steal, LifeInv
<1>2. /\ pool_work_queue \in Seq(Task) /\ queues \in Seq(Seq(Task)) /\ i \in [Thread -> 0..ThreadCount]
      /\ Len(queues) \in Nat /\ Len(queues) <= ThreadCount
      /\ pc \in [Thread -> PcLabel]
  BY DEF TypeOK, QueuesInv
<1>3. CASE PopLocal(t)
  <2>1. i' = i /\ pool_work_queue' = pool_work_queue
    BY <1>3 DEF PopLocal
  <2>2. CASE ~(t \in Worker /\ queues[t + 1] # <<>>)
    BY <1>1, <1>2, <1>3, <2>1, <2>2 DEF PopLocal, Goto
  <2>3. CASE t \in Worker /\ queues[t + 1] # <<>>
    <3>1. PICK j \in 0..Len(queues) - 1 : j = t
      BY <1>3, <2>3 DEF PopLocal, LifeInv, QueuesInv, Busy, Worker
    <3> DEFINE s == queues[j + 1]
    <3>2. s \in Seq(Task) /\ s # <<>>
      BY <1>2, <2>3, <3>1
    <3> HIDE DEF s
    <3>3. PICK x \in Task : x = Head(s)
      BY <3>2, HeadTailProperties
    <3> DEFINE q == Tail(s)
    <3>4. /\ q \in Seq(Task) /\ Len(s) \in Nat \ {0} /\ Len(q) = Len(s) - 1 /\ s[1] = x
          /\ \A k \in 1..Len(s) - 1 : q[k] = s[k + 1]
      BY <3>2, <3>3, HeadTailProperties
    <3>6. /\ pc' = [pc EXCEPT ![t] = "run"] /\ task' = [task EXCEPT ![t] = x]
          /\ queues' = [queues EXCEPT ![j + 1] = q]
      BY <1>3, <2>3, <3>1, <3>3 DEF PopLocal, Run, s
    <3> HIDE DEF q
    <3>5. \A k \in 1..Len(s) : s[k] = x \/ \E l \in 1..Len(q) : q[l] = s[k]
      <4>1. TAKE k \in 1..Len(s)
      <4>2. k = 1 \/ (k - 1 \in 1..Len(q) /\ q[k - 1] = s[k])
        BY <3>4
      <4>3. QED  BY <3>4, <4>2
    <3>0. \A k \in 1..Len(queues[j + 1]) :
            queues[j + 1][k] = x \/ \E l \in 1..Len(q) : q[l] = queues[j + 1][k]
      BY <3>5, Zenon DEF s
    <3>7. /\ queues' \in Seq(Seq(Task)) /\ Len(queues') = Len(queues)
          /\ \A y \in InDeques : y \in InDeques' \/ y = x
      <4>1. q \in Seq(Task) /\ queues' = [queues EXCEPT ![j + 1] = q]
        BY <3>4, <3>6
      <4>2. QED  BY <3>0, <4>1, DequeChange
    <3>8. InPool' = InPool
      BY <2>1 DEF InPool
    <3>9. QED  BY <1>1, <1>2, <2>1, <3>6, <3>7, <3>8
  <2>4. QED  BY <2>2, <2>3
<1>4. CASE PopPool(t)
  <2>1. queues' = queues /\ InDeques' = InDeques
    BY <1>4 DEF PopPool, InDeques, InDeque
  <2>2. CASE pool_work_queue = <<>>
    <3>1. i' \in [Thread -> 0..ThreadCount] /\ pool_work_queue' = pool_work_queue
      BY <1>2, <1>4, <2>2 DEF PopPool
    <3>2. QED  BY <1>1, <1>2, <1>4, <2>1, <2>2, <3>1 DEF PopPool, Goto
  <2>3. CASE pool_work_queue # <<>>
    <3> DEFINE s == pool_work_queue
    <3>1. PICK x \in Task : x = Head(s)
      BY <1>2, <2>3, HeadTailProperties
    <3>2. /\ Tail(s) \in Seq(Task) /\ Len(s) \in Nat \ {0} /\ Len(Tail(s)) = Len(s) - 1 /\ s[1] = x
          /\ \A k \in 1..Len(s) - 1 : Tail(s)[k] = s[k + 1]
      BY <1>2, <2>3, <3>1, HeadTailProperties
    <3>3. /\ pc' = [pc EXCEPT ![t] = "run"] /\ task' = [task EXCEPT ![t] = x]
          /\ pool_work_queue' = Tail(s) /\ i' = i
      BY <1>4, <2>3, <3>1 DEF PopPool, Run
    <3>4. ASSUME NEW y, y \in InPool, y # x  PROVE y \in InPool'
      <4>1. PICK k \in 1..Len(s) : s[k] = y
        BY <3>4 DEF InPool
      <4>2. k - 1 \in 1..Len(pool_work_queue') /\ pool_work_queue'[k - 1] = y
        BY <3>2, <3>3, <3>4, <4>1
      <4>3. QED  BY <4>2 DEF InPool
    <3>5. QED  BY <1>1, <1>2, <2>1, <3>2, <3>3, <3>4
  <2>4. QED  BY <2>2, <2>3
<1>5. CASE Steal(t)
  <2>1. pc[t] = "steal" /\ i[t] < Len(queues) /\ pool_work_queue' = pool_work_queue /\ InPool' = InPool
    BY <1>5 DEF Steal, InPool
  <2>2. PICK j \in 0..Len(queues) - 1 : j = Victim(t, i[t])
    <3>0. UIntSize \in Nat \ {0} /\ \A w \in Worker : w \in Nat
      BY DEF Worker
    <3>1. i[t] \in Nat /\ Index(t) \in Nat
      BY <1>2, <3>0 DEF Index, Thread
    <3>2. (Index(t) + i[t] + 1) % UIntSize \in Nat
      BY <3>0, <3>1, Remainder
    <3>3. Len(queues) \in Nat \ {0}
      BY <1>2, <2>1, <3>1
    <3>4. QED  BY <3>2, <3>3, Remainder DEF Victim
  <2> DEFINE s == queues[j + 1]
  <2>3. s \in Seq(Task)
    BY <1>2
  <2>4. CASE s = <<>>
    <3>1. i' = [i EXCEPT ![t] = @ + 1] /\ pc' = pc /\ task' = task /\ queues' = queues
      BY <1>5, <2>2, <2>4 DEF Steal
    <3>2. i' \in [Thread -> 0..ThreadCount]
      BY <1>2, <2>1, <3>1
    <3>3. pc' = [pc EXCEPT ![t] = "steal"]
      BY <1>2, <2>1, <3>1
    <3>4. QED  BY <1>1, <1>2, <2>1, <3>1, <3>2, <3>3
  <2>5. CASE s # <<>>
    <3>0. PICK n \in Nat : n + 1 = Len(s)
      BY <2>3, <2>5
    <3> DEFINE q == SubSeq(s, 1, n)
    <3>1. /\ pc' = [pc EXCEPT ![t] = "run"] /\ task' = [task EXCEPT ![t] = s[Len(s)]]
          /\ queues' = [queues EXCEPT ![j + 1] = q] /\ i' = i
      <4>1. n = Len(s) - 1
        BY <3>0, <2>3
      <4>2. QED  BY <4>1, <1>5, <2>2, <2>5 DEF Steal, Run
    <3> HIDE DEF s
    <3>2. Len(s) = n + 1 /\ \A k \in 1..n + 1 : s[k] \in Task
      BY <2>3, <3>0
    <3>3. PICK x \in Task : x = s[Len(s)]
      BY <3>2
    <3>4. q \in Seq(Task) /\ Len(q) = n /\ \A k \in 1..n : q[k] = s[k]
      <4>1. 1 \in Int /\ n \in Int /\ \A k \in 1..n : s[k] \in Task
        BY <3>2
      <4>2. q \in Seq(Task)
        BY <4>1, SubSeqProperties
      <4>3. Len(q) = IF 1 <= n THEN n - 1 + 1 ELSE 0
        BY <4>1, SubSeqProperties
      <4>4. \A k \in 1..n - 1 + 1 : q[k] = s[1 + k - 1]
        BY <4>1, SubSeqProperties
      <4> HIDE DEF q
      <4>5. Len(q) = n
        BY <4>3
      <4>6. \A k \in 1..n : q[k] = s[k]
        BY <4>4
      <4>7. QED  BY <4>2, <4>5, <4>6
    <3> HIDE DEF q
    <3>5. \A k \in 1..Len(s) : s[k] = x \/ \E l \in 1..Len(q) : q[l] = s[k]
      <4>1. TAKE k \in 1..Len(s)
      <4>2. k = Len(s) \/ (k \in 1..Len(q) /\ q[k] = s[k])
        BY <3>2, <3>4
      <4>3. QED  BY <3>3, <4>2
    <3>6. /\ queues' \in Seq(Seq(Task)) /\ Len(queues') = Len(queues)
          /\ \A y \in InDeques : y \in InDeques' \/ y = x
      BY <3>1, <3>4, <3>5, DequeChange DEF s
    <3>7. QED  BY <1>1, <1>2, <2>1, <3>1, <3>3, <3>6
  <2>6. QED  BY <2>4, <2>5
<1>6. QED  BY <1>3, <1>4, <1>5

\* Starting a worker.
LEMMA CreateEffect ==
  ASSUME TypeOK, CreateThread
  PROVE  /\ UNCHANGED <<done, mtx, alive, task, i, data>>
         /\ pc[Owner] = "create" /\ threads \in Worker /\ threads' = threads + 1 /\ threads' \in 0..ThreadCount
         /\ pc' \in [Thread -> PcLabel] /\ pc'[Owner] = "add_queue"
         /\ \A w \in Worker : pc'[w] = IF w = threads THEN "start" ELSE pc[w]
<1>1. threads \in Worker /\ threads \in Thread /\ Owner \in Thread /\ threads # Owner /\ Owner \notin Worker
  BY DEF TypeOK, CreateThread, Worker, Thread
<1>2. pc \in [Thread -> PcLabel] /\ \A w \in Worker : w \in Thread
  BY DEF TypeOK, Thread
<1>3. pc' = [pc EXCEPT ![Owner] = "add_queue", ![threads] = "start"]
  BY DEF CreateThread
<1>4. "add_queue" \in PcLabel /\ "start" \in PcLabel
  BY DEF PcLabel
<1>5. /\ pc' \in [Thread -> PcLabel] /\ pc'[Owner] = "add_queue"
      /\ \A w \in Worker : pc'[w] = IF w = threads THEN "start" ELSE pc[w]
  BY <1>1, <1>2, <1>3, <1>4
<1>6. threads' = threads + 1 /\ threads' \in 0..ThreadCount
  BY DEF TypeOK, CreateThread
<1>7. QED  BY <1>1, <1>5, <1>6 DEF CreateThread

\* The types: a queue has only tasks in it, there is no more than one deque for
\* each thread, and the counter of the stealing loop counts deques.
LEMMA TypeStep == IInv /\ [Next]_vars => TypeOK'
<1> SUFFICES ASSUME IInv, [Next]_vars  PROVE TypeOK'
  OBVIOUS
<1> USE DEF IInv, TypeOK, Goto, PcLabel, data
<1>1. CASE CtorLock
  BY <1>1 DEF CtorLock, Thread
<1>2. CASE CreateThread
  <2> HIDE DEF IInv, TypeOK, Goto, PcLabel, data
  <2>1. TypeOK
    BY DEF IInv
  <2>2. CreateThread
    BY <1>2
  <2> USE DEF IInv, TypeOK, Goto, PcLabel, data
  <2>3. QED  BY <2>1, <2>2, CreateEffect
<1>3. CASE AddQueue
  <2>1. <<>> \in Seq(Task)
    OBVIOUS
  <2>2. queues' \in Seq(Seq(Task))
    BY <1>3, <2>1, AppendProperties DEF AddQueue
  <2>3. QED  BY <1>3, <2>2 DEF AddQueue
<1>4. CASE CtorDone
  BY <1>4 DEF CtorDone
<1>5. CASE CtorThrows
  BY <1>5 DEF CtorThrows
<1>6. CASE Close
  BY <1>6 DEF Close
<1>7. CASE FreeMtx
  BY <1>7 DEF FreeMtx
<1>8. CASE Join
  BY <1>8 DEF Join
<1>9. CASE FreeQueues
  <2>1. fut' \in [Task -> {"none", "pending", "ready", "broken"}]
    <3> HIDE DEF IInv, TypeOK, Goto, PcLabel, data
    <3>1. PICK X : fut' = [x \in Task |-> IF x \in X THEN "broken" ELSE fut[x]]
      BY <1>9, Zenon DEF FreeQueues, Break
    <3>2. fut \in [Task -> {"none", "pending", "ready", "broken"}]
      BY DEF IInv, TypeOK
    <3>3. QED  BY <3>1, <3>2
  <2>2. <<>> \in Seq(Task) /\ <<>> \in Seq(Seq(Task))
    OBVIOUS
  <2>3. UNCHANGED <<done, mtx, threads, task, i>> /\ alive' \subseteq alive /\ pc' \in [Thread -> PcLabel]
        /\ (queues' = queues \/ queues' = <<>>)
        /\ (pool_work_queue' = pool_work_queue \/ pool_work_queue' = <<>>)
    BY <1>9 DEF FreeQueues
  <2>4. QED  BY <2>1, <2>2, <2>3
<1>10. CASE FreePool
  <2>1. fut' \in [Task -> {"none", "pending", "ready", "broken"}]
    <3> HIDE DEF IInv, TypeOK, Goto, PcLabel, data
    <3>1. PICK X : fut' = [x \in Task |-> IF x \in X THEN "broken" ELSE fut[x]]
      BY <1>10, Zenon DEF FreePool, Break
    <3>2. fut \in [Task -> {"none", "pending", "ready", "broken"}]
      BY DEF IInv, TypeOK
    <3>3. QED  BY <3>1, <3>2
  <2>2. <<>> \in Seq(Task) /\ <<>> \in Seq(Seq(Task))
    OBVIOUS
  <2>3. UNCHANGED <<done, mtx, threads, task, i>> /\ alive' \subseteq alive /\ pc' \in [Thread -> PcLabel]
        /\ (queues' = queues \/ queues' = <<>>)
        /\ (pool_work_queue' = pool_work_queue \/ pool_work_queue' = <<>>)
    BY <1>10 DEF FreePool
  <2>4. QED  BY <2>1, <2>2, <2>3
<1>11. CASE Help
  BY <1>11 DEF Help
<1>12. ASSUME NEW w \in Worker, Lock(w)  PROVE TypeOK'
  BY <1>12 DEF Lock, Thread
<1>13. ASSUME NEW w \in Worker, Unlock(w)  PROVE TypeOK'
  BY <1>13 DEF Unlock
<1>14. ASSUME NEW w \in Worker, Bind(w)  PROVE TypeOK'
  BY <1>14 DEF Bind
<1>15. ASSUME NEW w \in Worker, CheckDone(w)  PROVE TypeOK'
  BY <1>15 DEF CheckDone
<1>16. ASSUME NEW t \in Thread, PopLocal(t) \/ PopPool(t) \/ Steal(t)  PROVE TypeOK'
  <2> HIDE DEF IInv, TypeOK, Goto, PcLabel, data
  <2>1. TypeOK /\ LifeInv /\ QueuesInv
    BY DEF IInv
  <2>2. /\ UNCHANGED <<done, mtx, threads, alive, fut>>
        /\ pc[t] \in {"local", "pool", "steal"} /\ task[t] = Null
        /\ pool_work_queue' \in Seq(Task) /\ queues' \in Seq(Seq(Task)) /\ Len(queues') = Len(queues)
        /\ i' \in [Thread -> 0..ThreadCount]
    BY <1>16, <2>1, PopEffect
  <2>3. \/ task' = task /\ \E l \in {"pool", "steal"} : pc' = [pc EXCEPT ![t] = l]
        \/ \E x \in Task : pc' = [pc EXCEPT ![t] = "run"] /\ task' = [task EXCEPT ![t] = x]
    BY <1>16, <2>1, PopEffect
  <2> USE DEF IInv, TypeOK, Goto, PcLabel, data
  <2>4. CASE task' = task /\ \E l \in {"pool", "steal"} : pc' = [pc EXCEPT ![t] = l]
    BY <2>2, <2>4
  <2>5. ASSUME NEW x \in Task, pc' = [pc EXCEPT ![t] = "run"], task' = [task EXCEPT ![t] = x]
        PROVE  TypeOK'
    BY <2>2, <2>5
  <2>6. QED  BY <2>3, <2>4, <2>5
<1>17. ASSUME NEW t \in Thread, StealFails(t)  PROVE TypeOK'
  BY <1>17 DEF StealFails, Back
<1>18. ASSUME NEW t \in Thread, Finish(t)  PROVE TypeOK'
  BY <1>18 DEF Finish, Back
<1>19. ASSUME NEW t \in Thread, NEW x \in Task, Submit(t, x)  PROVE TypeOK'
  <2>1. fut' \in [Task -> {"none", "pending", "ready", "broken"}]
        /\ UNCHANGED <<done, mtx, threads, alive, pc, task, i>>
    BY <1>19 DEF Submit
  <2>2. CASE t \in Worker
    <3>1. pool_work_queue' = pool_work_queue
      BY <1>19, <2>2 DEF Submit
    <3>2. queues' \in Seq(Seq(Task))
      <4>1. queues' = [queues EXCEPT ![t + 1] = <<x>> \o @]
        BY <1>19, <2>2 DEF Submit
      <4>2. PICK w \in 0..Len(queues) - 1 : w = t
        BY <1>19, <2>2 DEF Submit, Submits, LifeInv, QueuesInv, Worker, Busy
      <4>3. queues[w + 1] \in Seq(Task) /\ <<x>> \in Seq(Task)
        OBVIOUS
      <4>4. <<x>> \o queues[w + 1] \in Seq(Task)
        BY <4>3, ConcatProperties
      <4>5. QED  BY <4>1, <4>2, <4>4
    <3>3. QED  BY <2>1, <3>1, <3>2
  <2>3. CASE t \notin Worker
    <3>1. queues' = queues /\ pool_work_queue' = Append(pool_work_queue, x)
      BY <1>19, <2>3 DEF Submit
    <3>2. pool_work_queue' \in Seq(Task)
      BY <3>1, AppendProperties
    <3>3. QED  BY <2>1, <3>1, <3>2
  <2>4. QED  BY <2>2, <2>3
<1>20. CASE UNCHANGED vars
  BY <1>20 DEF vars
<1> HIDE DEF IInv, TypeOK, Goto, PcLabel, data
<1>21. QED
  BY <1>1, <1>2, <1>3, <1>4, <1>5, <1>6, <1>7, <1>8, <1>9, <1>10, <1>11,
     <1>12, <1>13, <1>14, <1>15, <1>16, <1>17, <1>18, <1>19, <1>20, StepsOf

\* Who is where.
LEMMA LifeStep == IInv /\ [Next]_vars => LifeInv'
<1> SUFFICES ASSUME IInv, [Next]_vars  PROVE LifeInv'
  OBVIOUS
<1> USE DEF IInv, TypeOK, LifeInv, Goto, Worker, Thread, Busy, data
<1>1. CASE CtorLock
  BY <1>1 DEF CtorLock
<1>2. CASE CreateThread
  <2> HIDE DEF IInv, TypeOK, LifeInv, Goto, Worker, Thread, Busy, data
  <2>1. TypeOK
    BY DEF IInv
  <2>2. CreateThread
    BY <1>2
  <2> USE DEF IInv, TypeOK, LifeInv, Goto, Worker, Thread, Busy, data
  <2>3. task' = task /\ threads' = threads + 1 /\ threads \in Worker /\ pc[Owner] = "create"
        /\ pc'[Owner] = "add_queue" /\ \A w \in Worker : pc'[w] = IF w = threads THEN "start" ELSE pc[w]
    BY <2>1, <2>2, CreateEffect
  <2>4. \A w \in Worker : (pc'[w] = "run" <=> pc[w] = "run") /\ (pc'[w] = "none" <=> w >= threads')
    <3>1. SUFFICES ASSUME NEW w \in Worker
                   PROVE  (pc'[w] = "run" <=> pc[w] = "run") /\ (pc'[w] = "none" <=> w >= threads')
      OBVIOUS
    <3>2. w \in Nat /\ threads \in Nat /\ (pc[w] = "none" <=> w >= threads)
      BY <2>3
    <3>3. CASE w = threads
      BY <2>3, <3>2, <3>3
    <3>4. CASE w # threads
      BY <2>3, <3>2, <3>4
    <3>5. QED  BY <3>3, <3>4
  <2>5. \A w \in Worker :
          pc'[w] \in Busy \cup {"none", "start", "unlock", "bind", "crashed", "loop", "exit"}
    BY <2>3
  <2>6. task'[Owner] = Null
    BY <2>3
  <2>7. QED  BY <2>3, <2>4, <2>5, <2>6
<1>3. CASE AddQueue
  BY <1>3 DEF AddQueue
<1>4. CASE CtorDone
  BY <1>4 DEF CtorDone
<1>5. CASE CtorThrows
  BY <1>5 DEF CtorThrows
<1>6. CASE Close
  BY <1>6 DEF Close
<1>7. CASE FreeMtx
  BY <1>7 DEF FreeMtx
<1>8. CASE Join
  BY <1>8 DEF Join
<1>9. CASE FreeQueues
  BY <1>9 DEF FreeQueues
<1>10. CASE FreePool
  BY <1>10 DEF FreePool
<1>11. CASE Help
  BY <1>11 DEF Help
<1>12. ASSUME NEW w \in Worker, Lock(w)  PROVE LifeInv'
  BY <1>12 DEF Lock
<1>13. ASSUME NEW w \in Worker, Unlock(w)  PROVE LifeInv'
  BY <1>13 DEF Unlock
<1>14. ASSUME NEW w \in Worker, Bind(w)  PROVE LifeInv'
  BY <1>14 DEF Bind
<1>15. ASSUME NEW w \in Worker, CheckDone(w)  PROVE LifeInv'
  BY <1>15 DEF CheckDone
<1>16. ASSUME NEW t \in Thread, PopLocal(t) \/ PopPool(t) \/ Steal(t)  PROVE LifeInv'
  <2> HIDE DEF IInv, TypeOK, LifeInv, Goto, Worker, Thread, Busy, data
  <2>1. TypeOK /\ LifeInv /\ QueuesInv
    BY DEF IInv
  <2>2. /\ UNCHANGED <<done, mtx, threads, alive, fut>>
        /\ pc[t] \in {"local", "pool", "steal"} /\ task[t] = Null
        /\ pool_work_queue' \in Seq(Task) /\ queues' \in Seq(Seq(Task)) /\ Len(queues') = Len(queues)
        /\ i' \in [Thread -> 0..ThreadCount]
    BY <1>16, <2>1, PopEffect
  <2>3. \/ task' = task /\ \E l \in {"pool", "steal"} : pc' = [pc EXCEPT ![t] = l]
        \/ \E x \in Task : pc' = [pc EXCEPT ![t] = "run"] /\ task' = [task EXCEPT ![t] = x]
    BY <1>16, <2>1, PopEffect
  <2> USE DEF IInv, TypeOK, LifeInv, Goto, Worker, Thread, Busy, data
  <2>4. CASE task' = task /\ \E l \in {"pool", "steal"} : pc' = [pc EXCEPT ![t] = l]
    BY <2>2, <2>4
  <2>5. ASSUME NEW x \in Task, pc' = [pc EXCEPT ![t] = "run"], task' = [task EXCEPT ![t] = x]
        PROVE  LifeInv'
    BY <2>2, <2>5
  <2>6. QED  BY <2>3, <2>4, <2>5
<1>17. ASSUME NEW t \in Thread, StealFails(t)  PROVE LifeInv'
  BY <1>17 DEF StealFails, Back
<1>18. ASSUME NEW t \in Thread, Finish(t)  PROVE LifeInv'
  BY <1>18 DEF Finish, Back
<1>19. ASSUME NEW t \in Thread, NEW x \in Task, Submit(t, x)  PROVE LifeInv'
  BY <1>19 DEF Submit
<1>20. CASE UNCHANGED vars
  BY <1>20 DEF vars
<1> HIDE DEF IInv, TypeOK, LifeInv, Goto, Worker, Thread, Busy, data
<1>21. QED
  BY <1>1, <1>2, <1>3, <1>4, <1>5, <1>6, <1>7, <1>8, <1>9, <1>10, <1>11,
     <1>12, <1>13, <1>14, <1>15, <1>16, <1>17, <1>18, <1>19, <1>20, StepsOf

\* The owner holds mtx while it constructs, one worker at a time after that.
LEMMA MutexStep == IInv /\ [Next]_vars => MutexInv'
<1> SUFFICES ASSUME IInv, [Next]_vars  PROVE MutexInv'
  OBVIOUS
<1> USE DEF IInv, TypeOK, LifeInv, MutexInv, Goto, Worker, Thread, Busy, data
<1>1. CASE CtorLock
  BY <1>1 DEF CtorLock
<1>2. CASE CreateThread
  <2> HIDE DEF IInv, TypeOK, LifeInv, MutexInv, Goto, Worker, Thread, Busy, data
  <2>1. TypeOK
    BY DEF IInv
  <2>2. CreateThread
    BY <1>2
  <2> USE DEF IInv, TypeOK, LifeInv, MutexInv, Goto, Worker, Thread, Busy, data
  <2>3. QED  BY <2>1, <2>2, CreateEffect
<1>3. CASE AddQueue
  BY <1>3 DEF AddQueue
<1>4. CASE CtorDone
  BY <1>4 DEF CtorDone
<1>5. CASE CtorThrows
  <2>1. mtx' = Null /\ pc'[Owner] = "catch" /\ Owner # Null
    BY <1>5 DEF CtorThrows
  <2>2. \A w \in Worker : w # Null /\ pc'[w] = pc[w] /\ pc[w] \in {"none", "start"}
    BY <1>5 DEF CtorThrows
  <2>3. QED  BY <2>1, <2>2
<1>6. CASE Close
  BY <1>6 DEF Close
<1>7. CASE FreeMtx
  BY <1>7 DEF FreeMtx
<1>8. CASE Join
  BY <1>8 DEF Join
<1>9. CASE FreeQueues
  BY <1>9 DEF FreeQueues
<1>10. CASE FreePool
  BY <1>10 DEF FreePool
<1>11. CASE Help
  BY <1>11 DEF Help
<1>12. ASSUME NEW w \in Worker, Lock(w)  PROVE MutexInv'
  <2>1. mtx = Null /\ mtx' = w /\ pc' = [pc EXCEPT ![w] = "unlock"] /\ w # Owner
    BY <1>12 DEF Lock
  <2>2. pc'[Owner] = pc[Owner] /\ pc[Owner] \notin {"create", "add_queue", "ctor"}
    BY <1>12, <2>1 DEF Lock, QueuesInv
  <2>3. \A v \in Worker : pc'[v] = "unlock" <=> v = w
    BY <2>1
  <2>4. QED  BY <2>1, <2>2, <2>3
<1>13. ASSUME NEW w \in Worker, Unlock(w)  PROVE MutexInv'
  BY <1>13 DEF Unlock
<1>14. ASSUME NEW w \in Worker, Bind(w)  PROVE MutexInv'
  BY <1>14 DEF Bind
<1>15. ASSUME NEW w \in Worker, CheckDone(w)  PROVE MutexInv'
  BY <1>15 DEF CheckDone
<1>16. ASSUME NEW t \in Thread, PopLocal(t) \/ PopPool(t) \/ Steal(t)  PROVE MutexInv'
  <2> HIDE DEF IInv, TypeOK, LifeInv, MutexInv, Goto, Worker, Thread, Busy, data
  <2>1. TypeOK /\ LifeInv /\ QueuesInv
    BY DEF IInv
  <2>2. /\ UNCHANGED <<done, mtx, threads, alive, fut>>
        /\ pc[t] \in {"local", "pool", "steal"} /\ task[t] = Null
        /\ pool_work_queue' \in Seq(Task) /\ queues' \in Seq(Seq(Task)) /\ Len(queues') = Len(queues)
        /\ i' \in [Thread -> 0..ThreadCount]
    BY <1>16, <2>1, PopEffect
  <2>3. \/ task' = task /\ \E l \in {"pool", "steal"} : pc' = [pc EXCEPT ![t] = l]
        \/ \E x \in Task : pc' = [pc EXCEPT ![t] = "run"] /\ task' = [task EXCEPT ![t] = x]
    BY <1>16, <2>1, PopEffect
  <2> USE DEF IInv, TypeOK, LifeInv, MutexInv, Goto, Worker, Thread, Busy, data
  <2>4. CASE task' = task /\ \E l \in {"pool", "steal"} : pc' = [pc EXCEPT ![t] = l]
    BY <2>2, <2>4
  <2>5. ASSUME NEW x \in Task, pc' = [pc EXCEPT ![t] = "run"], task' = [task EXCEPT ![t] = x]
        PROVE  MutexInv'
    BY <2>2, <2>5
  <2>6. QED  BY <2>3, <2>4, <2>5
<1>17. ASSUME NEW t \in Thread, StealFails(t)  PROVE MutexInv'
  BY <1>17 DEF StealFails, Back
<1>18. ASSUME NEW t \in Thread, Finish(t)  PROVE MutexInv'
  BY <1>18 DEF Finish, Back
<1>19. ASSUME NEW t \in Thread, NEW x \in Task, Submit(t, x)  PROVE MutexInv'
  BY <1>19 DEF Submit
<1>20. CASE UNCHANGED vars
  BY <1>20 DEF vars
<1> HIDE DEF IInv, TypeOK, LifeInv, MutexInv, Goto, Worker, Thread, Busy, data
<1>21. QED
  BY <1>1, <1>2, <1>3, <1>4, <1>5, <1>6, <1>7, <1>8, <1>9, <1>10, <1>11,
     <1>12, <1>13, <1>14, <1>15, <1>16, <1>17, <1>18, <1>19, <1>20, StepsOf

\* As many deques as threads, and each of them stays.
LEMMA QueuesStep == IInv /\ [Next]_vars => QueuesInv'
<1> SUFFICES ASSUME IInv, [Next]_vars  PROVE QueuesInv'
  OBVIOUS
<1> USE DEF IInv, TypeOK, LifeInv, MutexInv, QueuesInv, Goto, Worker, Thread, Busy, data
<1>1. CASE CtorLock
  BY <1>1 DEF CtorLock
<1>2. CASE CreateThread
  <2> HIDE DEF IInv, TypeOK, LifeInv, MutexInv, QueuesInv, Goto, Worker, Thread, Busy, data
  <2>1. TypeOK
    BY DEF IInv
  <2>2. CreateThread
    BY <1>2
  <2> USE DEF IInv, TypeOK, LifeInv, MutexInv, QueuesInv, Goto, Worker, Thread, Busy, data
  <2>3. QED  BY <2>1, <2>2, CreateEffect
<1>3. CASE AddQueue
  BY <1>3 DEF AddQueue
<1>4. CASE CtorDone
  BY <1>4 DEF CtorDone
<1>5. CASE CtorThrows
  BY <1>5 DEF CtorThrows
<1>6. CASE Close
  BY <1>6 DEF Close
<1>7. CASE FreeMtx
  BY <1>7 DEF FreeMtx
<1>8. CASE Join
  BY <1>8 DEF Join
<1>9. CASE FreeQueues
  BY <1>9 DEF FreeQueues
<1>10. CASE FreePool
  BY <1>10 DEF FreePool
<1>11. CASE Help
  BY <1>11 DEF Help
<1>12. ASSUME NEW w \in Worker, Lock(w)  PROVE QueuesInv'
  BY <1>12 DEF Lock
<1>13. ASSUME NEW w \in Worker, Unlock(w)  PROVE QueuesInv'
  BY <1>13 DEF Unlock
<1>14. ASSUME NEW w \in Worker, Bind(w)  PROVE QueuesInv'
  BY <1>14 DEF Bind
<1>15. ASSUME NEW w \in Worker, CheckDone(w)  PROVE QueuesInv'
  BY <1>15 DEF CheckDone
<1>16. ASSUME NEW t \in Thread, PopLocal(t) \/ PopPool(t) \/ Steal(t)  PROVE QueuesInv'
  <2> HIDE DEF IInv, TypeOK, LifeInv, MutexInv, QueuesInv, Goto, Worker, Thread, Busy, data
  <2>1. TypeOK /\ LifeInv /\ QueuesInv
    BY DEF IInv
  <2>2. /\ UNCHANGED <<done, mtx, threads, alive, fut>>
        /\ pc[t] \in {"local", "pool", "steal"} /\ task[t] = Null
        /\ pool_work_queue' \in Seq(Task) /\ queues' \in Seq(Seq(Task)) /\ Len(queues') = Len(queues)
        /\ i' \in [Thread -> 0..ThreadCount]
    BY <1>16, <2>1, PopEffect
  <2>3. \/ task' = task /\ \E l \in {"pool", "steal"} : pc' = [pc EXCEPT ![t] = l]
        \/ \E x \in Task : pc' = [pc EXCEPT ![t] = "run"] /\ task' = [task EXCEPT ![t] = x]
    BY <1>16, <2>1, PopEffect
  <2> USE DEF IInv, TypeOK, LifeInv, MutexInv, QueuesInv, Goto, Worker, Thread, Busy, data
  <2>4. CASE task' = task /\ \E l \in {"pool", "steal"} : pc' = [pc EXCEPT ![t] = l]
    BY <2>2, <2>4
  <2>5. ASSUME NEW x \in Task, pc' = [pc EXCEPT ![t] = "run"], task' = [task EXCEPT ![t] = x]
        PROVE  QueuesInv'
    BY <2>2, <2>5
  <2>6. QED  BY <2>3, <2>4, <2>5
<1>17. ASSUME NEW t \in Thread, StealFails(t)  PROVE QueuesInv'
  BY <1>17 DEF StealFails, Back
<1>18. ASSUME NEW t \in Thread, Finish(t)  PROVE QueuesInv'
  BY <1>18 DEF Finish, Back
<1>19. ASSUME NEW t \in Thread, NEW x \in Task, Submit(t, x)  PROVE QueuesInv'
  BY <1>19 DEF Submit
<1>20. CASE UNCHANGED vars
  BY <1>20 DEF vars
<1> HIDE DEF IInv, TypeOK, LifeInv, MutexInv, QueuesInv, Goto, Worker, Thread, Busy, data
<1>21. QED
  BY <1>1, <1>2, <1>3, <1>4, <1>5, <1>6, <1>7, <1>8, <1>9, <1>10, <1>11,
     <1>12, <1>13, <1>14, <1>15, <1>16, <1>17, <1>18, <1>19, <1>20, StepsOf

\* No pending task gets lost.
LEMMA PendingStep == IInv /\ [Next]_vars => PendingKept'
<1> SUFFICES ASSUME IInv, [Next]_vars  PROVE PendingKept'
  OBVIOUS
<1>0. TypeOK /\ LifeInv /\ MutexInv /\ QueuesInv /\ PendingKept
  BY DEF IInv
<1>1. CASE UNCHANGED <<pool_work_queue, queues, fut, task>>
  <2>1. InPool' = InPool /\ InDeques' = InDeques
    BY <1>1 DEF InPool, InDeques, InDeque
  <2>2. QED  BY <1>0, <1>1, <2>1 DEF PendingKept
<1>2. CASE AddQueue
  <2>1. /\ queues' = Append(queues, <<>>) /\ queues \in Seq(Seq(Task)) /\ <<>> \in Seq(Task)
        /\ UNCHANGED <<pool_work_queue, fut, task>>
    BY <1>0, <1>2 DEF AddQueue, TypeOK
  <2>2. /\ Len(queues') = Len(queues) + 1 /\ Len(queues) \in Nat
        /\ \A k \in 1..Len(queues) : queues'[k] = queues[k]
    BY <2>1, AppendProperties
  <2>3. ASSUME NEW y \in InDeques  PROVE y \in InDeques'
    <3>1. PICK w \in 0..Len(queues) - 1 : y \in InDeque(w)
      BY <2>3, Zenon DEF InDeques
    <3>2. w \in 0..Len(queues') - 1 /\ queues'[w + 1] = queues[w + 1]
      BY <2>2
    <3>3. y \in InDeque(w)'
      BY <3>1, <3>2 DEF InDeque
    <3>4. QED  BY <3>2, <3>3, Zenon DEF InDeques
  <2>4. InPool' = InPool
    BY <2>1 DEF InPool
  <2>5. QED  BY <1>0, <2>1, <2>3, <2>4 DEF PendingKept
<1>3. CASE FreeQueues
  <2>1. fut' = [x \in Task |-> IF x \in InDeques THEN "broken" ELSE fut[x]]
    BY <1>3, Zenon DEF FreeQueues, Break
  <2>2. \A x \in Task : fut'[x] = "pending" => fut[x] = "pending" /\ x \notin InDeques
    BY <2>1
  <2>3. InPool' = InPool /\ task' = task
    BY <1>3 DEF FreeQueues, InPool
  <2>4. QED  BY <1>0, <2>2, <2>3 DEF PendingKept
<1>4. CASE FreePool
  <2>1. fut' = [x \in Task |-> IF x \in InPool THEN "broken" ELSE fut[x]]
    BY <1>4, Zenon DEF FreePool, Break
  <2>2. \A x \in Task : fut'[x] = "pending" => fut[x] = "pending" /\ x \notin InPool
    BY <2>1
  <2>3. UNCHANGED queues /\ task' = task
    BY <1>4 DEF FreePool
  <2>4. InDeques' = InDeques
    BY <2>3 DEF InDeques, InDeque
  <2>5. QED  BY <1>0, <2>2, <2>3, <2>4 DEF PendingKept
<1>5. ASSUME NEW t \in Thread, PopLocal(t) \/ PopPool(t) \/ Steal(t)  PROVE PendingKept'
  <2>1. fut' = fut /\ task[t] = Null
    BY <1>0, <1>5, PopEffect
  <2>2. \/ task' = task /\ UNCHANGED <<pool_work_queue, queues>>
        \/ \E x \in Task : /\ task' = [task EXCEPT ![t] = x]
                           /\ \A y \in InPool : y \in InPool' \/ y = x
                           /\ \A y \in InDeques : y \in InDeques' \/ y = x
    BY <1>0, <1>5, PopEffect
  <2>3. CASE task' = task /\ UNCHANGED <<pool_work_queue, queues>>
    BY <1>1, <2>1, <2>3
  <2>4. ASSUME NEW x \in Task, task' = [task EXCEPT ![t] = x],
               \A y \in InPool : y \in InPool' \/ y = x, \A y \in InDeques : y \in InDeques' \/ y = x
        PROVE  PendingKept'
    <3>1. task'[t] = x /\ \A u \in Thread : task[u] # Null => task'[u] = task[u]
      BY <1>0, <2>1, <2>4 DEF TypeOK
    <3>2. \A y \in Task : y # Null
      OBVIOUS
    <3>3. QED  BY <1>0, <2>1, <2>4, <3>1, <3>2 DEF PendingKept
  <2>5. QED  BY <2>2, <2>3, <2>4
<1>6. ASSUME NEW t \in Thread, Finish(t)  PROVE PendingKept'
  <2>1. PICK y \in Task : y = task[t]
    BY <1>0, <1>6 DEF Finish, Goto, TypeOK, LifeInv
  <2>2. /\ fut' = [fut EXCEPT ![y] = "ready"] /\ task' = [task EXCEPT ![t] = Null]
        /\ UNCHANGED <<pool_work_queue, queues>>
    BY <1>6, <2>1 DEF Finish
  <2>3. InPool' = InPool /\ InDeques' = InDeques
    BY <2>2 DEF InPool, InDeques, InDeque
  <2>4. \A x \in Task : fut'[x] = "pending" => fut[x] = "pending" /\ x # y
    BY <1>0, <2>2 DEF TypeOK
  <2>5. \A u \in Thread : u # t => task'[u] = task[u]
    BY <1>0, <2>2 DEF TypeOK
  <2>6. QED  BY <1>0, <2>1, <2>3, <2>4, <2>5 DEF PendingKept
<1>7. ASSUME NEW t \in Thread, NEW x \in Task, Submit(t, x)  PROVE PendingKept'
  <2>1. fut' = [fut EXCEPT ![x] = "pending"] /\ task' = task
    BY <1>7 DEF Submit
  <2>2. CASE t \in Worker
    <3>1. PICK w \in 0..Len(queues) - 1 : w = t
      BY <1>0, <1>7, <2>2 DEF Submit, Submits, LifeInv, QueuesInv, Worker, Busy
    <3> DEFINE s == queues[w + 1]
               q == <<x>> \o s
    <3>2. s \in Seq(Task) /\ <<x>> \in Seq(Task) /\ Len(<<x>>) = 1 /\ <<x>>[1] = x
      BY <1>0 DEF TypeOK
    <3>3. queues' = [queues EXCEPT ![w + 1] = q] /\ pool_work_queue' = pool_work_queue
      BY <1>7, <2>2, <3>1 DEF Submit
    <3> HIDE DEF s
    <3>4. /\ q \in Seq(Task) /\ Len(q) = 1 + Len(s) /\ Len(s) \in Nat
          /\ \A k \in 1..1 + Len(s) : q[k] = IF k <= 1 THEN <<x>>[k] ELSE s[k - 1]
      BY <3>2, ConcatProperties
    <3> HIDE DEF q
    <3>5. 1 \in 1..Len(q) /\ q[1] = x
      BY <3>2, <3>4
    <3>6. \A k \in 1..Len(s) : k + 1 \in 1..Len(q) /\ q[k + 1] = s[k]
      BY <3>4
    <3>7. \A k \in 1..Len(queues[w + 1]) :
            queues[w + 1][k] = x \/ \E l \in 1..Len(q) : q[l] = queues[w + 1][k]
      BY <3>6 DEF s
    <3>8. Len(queues') = Len(queues) /\ \A y \in InDeques : y \in InDeques' \/ y = x
      <4>1. q \in Seq(Task)
        BY <3>4
      <4>2. QED  BY <1>0, <3>3, <3>7, <4>1, DequeChange
    <3>9. x \in InDeques'
      <4>1. queues'[w + 1] = q
        BY <1>0, <3>3 DEF TypeOK
      <4>2. x \in InDeque(w)'
        BY <3>5, <4>1 DEF InDeque
      <4>3. w \in 0..Len(queues') - 1
        BY <3>8
      <4>4. QED  BY <4>2, <4>3, Zenon DEF InDeques
    <3>10. InPool' = InPool
      BY <3>3 DEF InPool
    <3>11. \A y \in Task : y # x => fut'[y] = fut[y]
      BY <1>0, <2>1 DEF TypeOK
    <3>12. QED  BY <1>0, <2>1, <3>8, <3>9, <3>10, <3>11 DEF PendingKept
  <2>3. CASE t \notin Worker
    <3>1. pool_work_queue' = Append(pool_work_queue, x) /\ queues' = queues /\ pool_work_queue \in Seq(Task)
      BY <1>0, <1>7, <2>3 DEF Submit, TypeOK
    <3>2. /\ Len(pool_work_queue') = Len(pool_work_queue) + 1 /\ Len(pool_work_queue) \in Nat
          /\ pool_work_queue'[Len(pool_work_queue) + 1] = x
          /\ \A k \in 1..Len(pool_work_queue) : pool_work_queue'[k] = pool_work_queue[k]
      BY <3>1, AppendProperties
    <3>3. x \in InPool' /\ InPool \subseteq InPool'
      <4>1. /\ Len(pool_work_queue) + 1 \in 1..Len(pool_work_queue')
            /\ 1..Len(pool_work_queue) \subseteq 1..Len(pool_work_queue')
        BY <3>2
      <4>2. QED  BY <3>2, <4>1 DEF InPool
    <3>4. InDeques' = InDeques
      BY <3>1 DEF InDeques, InDeque
    <3>5. \A y \in Task : y # x => fut'[y] = fut[y]
      BY <1>0, <2>1 DEF TypeOK
    <3>6. QED  BY <1>0, <2>1, <3>3, <3>4, <3>5 DEF PendingKept
  <2>4. QED  BY <2>2, <2>3
<1>8. CASE CtorLock \/ CreateThread \/ CtorDone \/ CtorThrows \/ Close \/ FreeMtx \/ Join \/ Help
  BY <1>1, <1>8 DEF CtorLock, CreateThread, CtorDone, CtorThrows, Close, FreeMtx, Join, Help, data
<1>9. ASSUME NEW w \in Worker, Lock(w) \/ Unlock(w) \/ Bind(w) \/ CheckDone(w)  PROVE PendingKept'
  BY <1>1, <1>9 DEF Lock, Unlock, Bind, CheckDone, data
<1>10. ASSUME NEW t \in Thread, StealFails(t)  PROVE PendingKept'
  BY <1>1, <1>10 DEF StealFails, data
<1>11. CASE UNCHANGED vars
  BY <1>1, <1>11 DEF vars, data
<1>12. QED
  BY <1>2, <1>3, <1>4, <1>5, <1>6, <1>7, <1>8, <1>9, <1>10, <1>11, StepsOf

\* What is left when the last queue goes is broken with it.
LEMMA SettledStep == IInv /\ [Next]_vars => FuturesSettled'
<1> SUFFICES ASSUME IInv, [Next]_vars, pc'[Owner] = "gone", NEW x \in Task  PROVE fut'[x] # "pending"
  BY DEF FuturesSettled
<1>0. TypeOK /\ LifeInv /\ QueuesInv /\ PendingKept /\ FuturesSettled
  BY DEF IInv
<1>1. CASE FreePool
  <2>1. pc[Owner] = "free_pool" /\ \A t \in Thread : pc[t] # "run"
    BY <1>0, <1>1 DEF FreePool, Goto, LifeInv, Thread
  <2>2. \A t \in Thread : task[t] = Null
    BY <1>0, <2>1 DEF LifeInv
  <2>3. queues = <<>> /\ Len(queues) = 0
    BY <1>0, <2>1 DEF QueuesInv
  <2>4. InDeques = {}
    BY <2>3 DEF InDeques
  <2>5. fut[x] = "pending" => x \in InPool
    BY <1>0, <2>2, <2>4 DEF PendingKept
  <2>6. fut' = [y \in Task |-> IF y \in InPool THEN "broken" ELSE fut[y]]
    BY <1>1, Zenon DEF FreePool, Break
  <2>7. QED  BY <2>5, <2>6
<1>2. CASE ~FreePool
  <2>1. pc[Owner] = "gone"
    BY <1>0, <1>2 DEF Next, OwnerStep, WorkerStep, Choose, Construct, Destroy, StartUp, RunPending, Run,
       Thread, Worker, Back, Goto, TypeOK, CtorLock, CreateThread, AddQueue, CtorDone, CtorThrows, Close,
       FreeMtx, Join, FreeQueues, Help, Lock, Unlock, Bind, CheckDone, PopLocal, PopPool, Steal,
       StealFails, Finish, Submit, vars
  <2>2. fut[x] # "pending" /\ \A w \in Worker : pc[w] \in {"none", "exit"}
    BY <1>0, <2>1 DEF FuturesSettled, LifeInv
  <2>3. fut' = fut
    BY <2>1, <2>2, StepsOf DEF Thread, Goto, CtorLock, CreateThread, AddQueue, CtorDone, CtorThrows, Close,
       FreeMtx, Join, FreeQueues, FreePool, Help, Lock, Unlock, Bind, CheckDone, PopLocal, PopPool, Steal,
       StealFails, Finish, Submit, Submits, vars, data
  <2>4. QED  BY <2>2, <2>3
<1>3. QED  BY <1>1, <1>2

\* It holds when the owner enters the constructor.
LEMMA Initially == Init => IInv
<1> SUFFICES ASSUME Init  PROVE IInv
  OBVIOUS
<1>1. Owner \in Thread /\ \A w \in Worker : w \in Nat /\ w \in Thread /\ w # Owner /\ w # Null
  BY DEF Worker, Thread
<1>2. pc \in [Thread -> PcLabel] /\ pc[Owner] = "ctor" /\ \A w \in Worker : pc[w] = "none"
  <2>1. pc = [t \in Thread |-> IF t = Owner THEN "ctor" ELSE "none"]
    BY DEF Init
  <2>2. QED  BY <1>1, <2>1 DEF PcLabel
<1>3. threads = 0 /\ mtx = Null /\ queues = <<>> /\ Len(queues) = 0
  BY DEF Init
<1>4. \A t \in Thread : task[t] = Null /\ pc[t] # "run"
  BY <1>2 DEF Init, Thread
<1>5. TypeOK
  <2>1. done \in BOOLEAN
    BY Zenon DEF Init
  <2>2. pool_work_queue \in Seq(Task) /\ queues \in Seq(Seq(Task))
    BY DEF Init
  <2>3. /\ mtx \in Thread \cup {Null} /\ threads \in 0..ThreadCount
        /\ alive \subseteq {"mtx", "queues", "pool_work_queue"}
    BY <1>3 DEF Init
  <2>4. task \in [Thread -> Task \cup {Null}] /\ i \in [Thread -> 0..ThreadCount]
    BY DEF Init
  <2>5. fut \in [Task -> {"none", "pending", "ready", "broken"}]
    BY DEF Init
  <2>6. QED  BY <1>2, <2>1, <2>2, <2>3, <2>4, <2>5 DEF TypeOK
<1>6. LifeInv
  BY <1>1, <1>2, <1>3, <1>4 DEF LifeInv
<1>7. MutexInv
  BY <1>1, <1>2, <1>3 DEF MutexInv
<1>8. QueuesInv
  BY <1>2, <1>3 DEF Init, QueuesInv, Busy
<1>9. PendingKept /\ FuturesSettled
  BY DEF Init, PendingKept, FuturesSettled
<1>10. QED  BY <1>5, <1>6, <1>7, <1>8, <1>9 DEF IInv

\* The inductive invariant: who is where, that mtx separates the constructor
\* from the workers, how many deques there are, and where the tasks are.
THEOREM Invariance == Spec => []IInv
<1>1. IInv /\ [Next]_vars => IInv'
  BY TypeStep, LifeStep, MutexStep, QueuesStep, PendingStep, SettledStep DEF IInv
<1>2. QED  BY <1>1, Initially, PTL DEF Spec

\* The vectors hold what they should and the stealing loop stays in range.
THEOREM TypeCorrect == Spec => []TypeOK
<1>1. IInv => TypeOK
  BY DEF IInv
<1>2. QED  BY <1>1, Invariance, PTL

\* No worker reads the vector queues while the constructor changes it.
THEOREM QueuesStayPut == Spec => []QueuesFrozen
<1>1. IInv => QueuesFrozen
  BY DEF IInv, MutexInv, QueuesFrozen
<1>2. QED  BY <1>1, Invariance, PTL

\* Unless creating a deque throws, every worker finds its deque, and no thread
\* that may still use the queues outlives them.
THEOREM MembersOutlive ==
  ASSUME "queue" \notin CanThrow
  PROVE  Spec => []MembersAlive
<1>1. IInv => MembersAlive
  <2> SUFFICES ASSUME IInv, NEW t \in Thread,
                      pc[t] \in {"bind", "loop", "local", "pool", "steal", "run", "open"}
               PROVE  /\ {"queues", "pool_work_queue"} \subseteq alive
                      /\ t \in Worker => t < Len(queues)
    BY DEF MembersAlive
  <2>1. TypeOK /\ LifeInv /\ MutexInv /\ QueuesInv
    BY DEF IInv
  <2>2. pc[Owner] \notin {"free_queues", "free_pool", "gone"}
    BY <2>1 DEF LifeInv, Thread
  <2>3. {"queues", "pool_work_queue"} \subseteq alive
    BY <2>1, <2>2 DEF QueuesInv
  <2>4. ASSUME t \in Worker  PROVE t < Len(queues)
    <3>1. pc[Owner] # "add_queue" /\ ~(t >= threads)
      BY <2>1, <2>4 DEF MutexInv, LifeInv
    <3>2. Len(queues) = threads
      BY <2>1, <2>2, <3>1 DEF QueuesInv
    <3>3. t \in Int /\ threads \in Int
      BY <2>1, <2>4 DEF TypeOK, Worker
    <3>4. QED  BY <3>1, <3>2, <3>3
  <2>5. QED  BY <2>3, <2>4
<1>2. QED  BY <1>1, Invariance, PTL

\* No future is pending once the pool is gone.
THEOREM NoFutureForgotten == Spec => []FuturesSettled
<1>1. IInv => FuturesSettled
  BY DEF IInv
<1>2. QED  BY <1>1, Invariance, PTL
(* Refinement *)

Elems(s) == {s[k] : k \in 1..Len(s)}

\* q is s without the element at position p.
Lacks(q, s, p) ==
  /\ q \in Seq(Task) /\ s \in Seq(Task) /\ p \in 1..Len(s) /\ Len(s) = Len(q) + 1
  /\ \A l \in 1..Len(q) : q[l] = IF l < p THEN s[l] ELSE s[l + 1]

\* One element more or less in a sequence.
LEMMA Lacking ==
  ASSUME NEW q, NEW s, NEW p, Lacks(q, s, p)
  PROVE  /\ Elems(s) = Elems(q) \cup {s[p]}
         /\ NoRepeats(s) <=> NoRepeats(q) /\ s[p] \notin Elems(q)
<1>1. Len(q) \in Nat /\ Len(s) = Len(q) + 1 /\ p \in 1..Len(q) + 1
  BY LenProperties DEF Lacks
<1> DEFINE at(l) == IF l < p THEN l ELSE l + 1
<1>2. \A l \in 1..Len(q) : at(l) \in 1..Len(s) /\ at(l) # p /\ q[l] = s[at(l)]
  BY <1>1 DEF Lacks
<1>3. \A k \in 1..Len(s) : k # p => \E l \in 1..Len(q) : at(l) = k
  <2>1. TAKE k \in 1..Len(s)
  <2>2. CASE k < p
    BY <1>1, <2>2
  <2>3. CASE k > p
    <3>1. k - 1 \in 1..Len(q) /\ at(k - 1) = k
      BY <1>1, <2>3
    <3>2. QED  BY <3>1
  <2>4. QED  BY <1>1, <2>2, <2>3
<1>4. \A k, l \in 1..Len(q) : at(k) = at(l) => k = l
  BY <1>1
<1> HIDE DEF at
<1>5. Elems(s) = Elems(q) \cup {s[p]}
  BY <1>1, <1>2, <1>3 DEF Elems
<1>6. NoRepeats(s) => NoRepeats(q) /\ s[p] \notin Elems(q)
  BY <1>1, <1>2, <1>4 DEF Elems, NoRepeats
<1>7. ASSUME NoRepeats(q), s[p] \notin Elems(q)  PROVE NoRepeats(s)
  <2>1. SUFFICES ASSUME NEW k \in 1..Len(s), NEW l \in 1..Len(s), s[k] = s[l]  PROVE k = l
    BY DEF NoRepeats
  <2>2. \A m \in 1..Len(s) : m # p => s[m] # s[p]
    BY <1>2, <1>3, <1>7 DEF Elems
  <2>3. CASE k # p /\ l # p
    BY <1>2, <1>3, <1>7, <2>1, <2>3 DEF NoRepeats
  <2>4. QED  BY <2>1, <2>2, <2>3
<1>8. QED  BY <1>5, <1>6, <1>7

\* The elements of a vector of deques, and what it means that they differ.
AllElems(Q) == UNION {Elems(Q[v + 1]) : v \in 0..Len(Q) - 1}
AllApart(Q) ==
  /\ \A v \in 0..Len(Q) - 1 : NoRepeats(Q[v + 1])
  /\ \A v, w \in 0..Len(Q) - 1 : v # w => Elems(Q[v + 1]) \cap Elems(Q[w + 1]) = {}

\* Replacing one deque of a vector.
LEMMA Replace ==
  ASSUME NEW Q \in Seq(Seq(Task)), NEW w \in 0..Len(Q) - 1, NEW q \in Seq(Task),
         NEW R, R = [Q EXCEPT ![w + 1] = q]
  PROVE  /\ Len(R) = Len(Q) /\ R[w + 1] = q
         /\ \A v \in 0..Len(Q) - 1 : v # w => R[v + 1] = Q[v + 1]
BY ExceptSeq

\* A deque loses an element.
LEMMA DequeLoses ==
  ASSUME NEW Q \in Seq(Seq(Task)), NEW w \in 0..Len(Q) - 1, NEW q, NEW p, Lacks(q, Q[w + 1], p),
         AllApart(Q)
  PROVE  /\ Q[w + 1][p] \in AllElems(Q)
         /\ AllApart([Q EXCEPT ![w + 1] = q])
         /\ AllElems([Q EXCEPT ![w + 1] = q]) = AllElems(Q) \ {Q[w + 1][p]}
<1> DEFINE R == [Q EXCEPT ![w + 1] = q]
<1> DEFINE x == Q[w + 1][p]
<1>1. /\ Len(R) = Len(Q) /\ R[w + 1] = q
      /\ \A v \in 0..Len(Q) - 1 : v # w => R[v + 1] = Q[v + 1]
  BY Replace DEF Lacks
<1> HIDE DEF R
<1>2. Elems(Q[w + 1]) = Elems(q) \cup {x} /\ NoRepeats(q) /\ x \notin Elems(q)
  BY Lacking DEF AllApart
<1> HIDE DEF x
<1>3. \A v \in 0..Len(Q) - 1 : Elems(R[v + 1]) = Elems(Q[v + 1]) \ {x} /\ NoRepeats(R[v + 1])
  BY <1>1, <1>2 DEF AllApart
<1>4. AllApart(R)
  BY <1>1, <1>3 DEF AllApart
<1> DEFINE S(v) == Elems(Q[v + 1])
           T(v) == Elems(R[v + 1])
<1>5. \A v \in 0..Len(Q) - 1 : T(v) = S(v) \ {x}
  BY <1>3
<1>6. x \in S(w)
  BY <1>2
<1>7. AllElems(Q) = UNION {S(v) : v \in 0..Len(Q) - 1}
      /\ AllElems(R) = UNION {T(v) : v \in 0..Len(Q) - 1}
  BY <1>1 DEF AllElems
<1> HIDE DEF S, T
<1>8. x \in AllElems(Q) /\ AllElems(R) = AllElems(Q) \ {x}
  <2>1. \A y : /\ y \in AllElems(Q) <=> \E v \in 0..Len(Q) - 1 : y \in S(v)
               /\ y \in AllElems(R) <=> \E v \in 0..Len(Q) - 1 : y \in T(v)
    BY <1>7, Zenon
  <2>2. \A v \in 0..Len(Q) - 1 : \A y : y \in T(v) <=> y \in S(v) /\ y # x
    BY <1>5
  <2>3. \A y : y \in AllElems(R) <=> y \in AllElems(Q) /\ y # x
    BY <2>1, <2>2
  <2>4. x \in AllElems(Q)
    BY <1>6, <2>1
  <2>5. QED  BY <2>3, <2>4
<1>9. QED  BY <1>4, <1>8 DEF x, R

\* A deque gains an element that no deque has.
LEMMA DequeGains ==
  ASSUME NEW Q \in Seq(Seq(Task)), NEW w \in 0..Len(Q) - 1, NEW q, NEW p, Lacks(Q[w + 1], q, p),
         AllApart(Q), q[p] \notin AllElems(Q)
  PROVE  /\ AllApart([Q EXCEPT ![w + 1] = q])
         /\ \A y : y \in AllElems([Q EXCEPT ![w + 1] = q]) <=> y \in AllElems(Q) \/ y = q[p]
<1> DEFINE R == [Q EXCEPT ![w + 1] = q]
<1> DEFINE x == q[p]
<1>1. /\ Len(R) = Len(Q) /\ R[w + 1] = q
      /\ \A v \in 0..Len(Q) - 1 : v # w => R[v + 1] = Q[v + 1]
  BY Replace DEF Lacks
<1> HIDE DEF R
<1>2. Elems(q) = Elems(Q[w + 1]) \cup {x} /\ (NoRepeats(q) <=> NoRepeats(Q[w + 1]) /\ x \notin Elems(Q[w + 1]))
  BY Lacking
<1> HIDE DEF x
<1> DEFINE S(v) == Elems(Q[v + 1])
           T(v) == Elems(R[v + 1])
<1>3. AllElems(Q) = UNION {S(v) : v \in 0..Len(Q) - 1}
      /\ AllElems(R) = UNION {T(v) : v \in 0..Len(Q) - 1}
  BY <1>1 DEF AllElems
<1>4. T(w) = S(w) \cup {x} /\ \A v \in 0..Len(Q) - 1 : v # w => T(v) = S(v)
  BY <1>1, <1>2
<1>5. x \notin AllElems(Q)
  BY DEF x
<1>6. (\A v \in 0..Len(Q) - 1 : x \notin S(v)) /\ AllElems(R) = AllElems(Q) \cup {x}
  <2> HIDE DEF S, T
  <2>1. \A y : /\ y \in AllElems(Q) <=> \E v \in 0..Len(Q) - 1 : y \in S(v)
               /\ y \in AllElems(R) <=> \E v \in 0..Len(Q) - 1 : y \in T(v)
    BY <1>3, Zenon
  <2>2. \A v \in 0..Len(Q) - 1 : \A y : y \in T(v) <=> y \in S(v) \/ (v = w /\ y = x)
    BY <1>4
  <2>3. \A y : y \in AllElems(R) <=> y \in AllElems(Q) \/ y = x
    BY <2>1, <2>2
  <2>4. \A v \in 0..Len(Q) - 1 : x \notin S(v)
    BY <1>5, <2>1
  <2>5. QED  BY <2>3, <2>4
<1>7. AllApart(R)
  <2>1. \A v \in 0..Len(Q) - 1 : NoRepeats(R[v + 1])
    BY <1>1, <1>2, <1>6 DEF AllApart
  <2>2. \A v, u \in 0..Len(Q) - 1 : v # u => T(v) \cap T(u) = {}
    <3>1. \A v, u \in 0..Len(Q) - 1 : v # u => S(v) \cap S(u) = {}
      BY DEF AllApart
    <3> HIDE DEF S, T
    <3>2. \A v \in 0..Len(Q) - 1 : x \notin S(v)
      BY <1>6
    <3>3. TAKE v, u \in 0..Len(Q) - 1
    <3>4. CASE v = w
      BY <1>4, <3>1, <3>2, <3>4
    <3>5. CASE v # w
      BY <1>4, <3>1, <3>2, <3>5
    <3>6. QED  BY <3>4, <3>5
  <2>3. QED  BY <1>1, <2>1, <2>2 DEF AllApart
<1>8. QED  BY <1>6, <1>7 DEF x, R

\* The same in the words of the model.
LEMMA InWords ==
  /\ InPool = Elems(pool_work_queue) /\ InDeques = AllElems(queues)
  /\ Apart <=> NoRepeats(pool_work_queue) /\ AllApart(queues) /\ InPool \cap InDeques = {}
<1>1. InPool = Elems(pool_work_queue) /\ InDeques = AllElems(queues)
  BY DEF InPool, InDeques, InDeque, Elems, AllElems
<1>2. \A v : InDeque(v) = Elems(queues[v + 1])
  BY DEF InDeque, Elems
<1>3. QED  BY <1>1, <1>2 DEF Apart, AllApart
\* Only tasks are queued.
LEMMA QueuedTasks ==
  ASSUME TypeOK
  PROVE  InPool \subseteq Task /\ InDeques \subseteq Task
<1>1. InPool \subseteq Task
  BY ElementOfSeq DEF TypeOK, InPool
<1>2. \A v \in 0..Len(queues) - 1 : Elems(queues[v + 1]) \subseteq Task
  <2>1. TAKE v \in 0..Len(queues) - 1
  <2>2. queues[v + 1] \in Seq(Task)
    BY DEF TypeOK
  <2>3. QED  BY <2>2, ElementOfSeq DEF Elems
<1> DEFINE S(v) == Elems(queues[v + 1])
<1>3. InDeques = UNION {S(v) : v \in 0..Len(queues) - 1}
  BY InWords DEF AllElems
<1>4. \A v \in 0..Len(queues) - 1 : S(v) \subseteq Task
  BY <1>2
<1> HIDE DEF S
<1>5. \A y : y \in InDeques <=> \E v \in 0..Len(queues) - 1 : y \in S(v)
  BY <1>3, Zenon
<1>6. QED  BY <1>1, <1>4, <1>5

\* The words of the next state.
LEMMA InWordsNext ==
  /\ InPool' = Elems(pool_work_queue') /\ InDeques' = AllElems(queues')
  /\ Apart' <=> NoRepeats(pool_work_queue') /\ AllApart(queues') /\ InPool' \cap InDeques' = {}
<1>1. InPool' = Elems(pool_work_queue') /\ InDeques' = AllElems(queues')
  BY DEF InPool, InDeques, InDeque, Elems, AllElems
<1>2. \A v : InDeque(v)' = Elems(queues'[v + 1])
  BY DEF InDeque, Elems
<1>3. QED  BY <1>1, <1>2 DEF Apart, AllApart, NoRepeats

\* run_pending_task() takes a task out of the one place where it is.
LEMMA TakeEffect ==
  ASSUME TypeOK, LifeInv, QueuesInv, Apart, NEW t \in Thread, PopLocal(t) \/ PopPool(t) \/ Steal(t)
  PROVE  \/ UNCHANGED <<task, pool_work_queue, queues>>
         \/ \E x \in InPool \cup InDeques :
              /\ x \in Task /\ task' = [task EXCEPT ![t] = x]
              /\ Apart' /\ InPool' \cup InDeques' = (InPool \cup InDeques) \ {x}
<1>1. /\ pool_work_queue \in Seq(Task) /\ queues \in Seq(Seq(Task)) /\ i \in [Thread -> 0..ThreadCount]
      /\ Len(queues) \in Nat
  BY DEF TypeOK
<1>2. /\ NoRepeats(pool_work_queue) /\ AllApart(queues) /\ InPool \cap InDeques = {}
      /\ InPool = Elems(pool_work_queue) /\ InDeques = AllElems(queues)
  BY InWords
<1>3. ASSUME NEW j \in 0..Len(queues) - 1, NEW q, NEW p, Lacks(q, queues[j + 1], p),
             queues' = [queues EXCEPT ![j + 1] = q], pool_work_queue' = pool_work_queue,
             task' = [task EXCEPT ![t] = queues[j + 1][p]]
      PROVE  \E x \in InPool \cup InDeques :
               /\ x \in Task /\ task' = [task EXCEPT ![t] = x]
               /\ Apart' /\ InPool' \cup InDeques' = (InPool \cup InDeques) \ {x}
  <2>1. PICK x \in Task : x = queues[j + 1][p]
    BY <1>3, ElementOfSeq DEF Lacks
  <2>2. AllApart(queues') /\ x \in AllElems(queues) /\ AllElems(queues') = AllElems(queues) \ {x}
    <3> DEFINE R == [queues EXCEPT ![j + 1] = q]
    <3>1. AllApart(R) /\ x \in AllElems(queues) /\ AllElems(R) = AllElems(queues) \ {x}
      BY <1>1, <1>2, <1>3, <2>1, DequeLoses
    <3>2. QED  BY <1>3, <3>1
  <2>3. x \in InDeques /\ InPool' = InPool /\ InDeques' = InDeques \ {x} /\ Apart'
    BY <1>2, <1>3, <2>2, InWordsNext
  <2>4. InPool' \cup InDeques' = (InPool \cup InDeques) \ {x}
    BY <1>2, <2>3
  <2>5. QED  BY <1>3, <2>1, <2>3, <2>4
<1>4. CASE PopLocal(t)
  <2>1. CASE ~(t \in Worker /\ queues[t + 1] # <<>>)
    BY <1>4, <2>1 DEF PopLocal
  <2>2. CASE t \in Worker /\ queues[t + 1] # <<>>
    <3>1. PICK j \in 0..Len(queues) - 1 : j = t
      BY <1>4, <2>2 DEF PopLocal, LifeInv, QueuesInv, Busy, Worker
    <3> DEFINE s == queues[j + 1]
               q == Tail(s)
    <3>2. s \in Seq(Task) /\ s # <<>>
      BY <1>1, <2>2, <3>1
    <3>3. task' = [task EXCEPT ![t] = Head(s)] /\ queues' = [queues EXCEPT ![j + 1] = q]
          /\ pool_work_queue' = pool_work_queue
      BY <1>4, <2>2, <3>1 DEF PopLocal, Run
    <3> HIDE DEF s
    <3>4. /\ q \in Seq(Task) /\ Len(s) \in Nat \ {0} /\ Len(q) = Len(s) - 1 /\ Head(s) = s[1]
          /\ \A k \in 1..Len(s) - 1 : q[k] = s[k + 1]
      BY <3>2, HeadTailProperties
    <3> HIDE DEF q
    <3>5. Lacks(q, s, 1)
      BY <3>2, <3>4 DEF Lacks
    <3>6. Lacks(q, queues[j + 1], 1) /\ task' = [task EXCEPT ![t] = queues[j + 1][1]]
      BY <3>3, <3>4, <3>5 DEF s
    <3>7. QED  BY <1>3, <3>3, <3>6
  <2>3. QED  BY <2>1, <2>2
<1>5. CASE PopPool(t)
  <2>1. queues' = queues
    BY <1>5 DEF PopPool
  <2>2. CASE pool_work_queue = <<>>
    BY <1>5, <2>1, <2>2 DEF PopPool
  <2>3. CASE pool_work_queue # <<>>
    <3> DEFINE s == pool_work_queue
               q == Tail(s)
    <3>1. task' = [task EXCEPT ![t] = Head(s)] /\ pool_work_queue' = q
      BY <1>5, <2>3 DEF PopPool, Run
    <3>2. /\ q \in Seq(Task) /\ Len(s) \in Nat \ {0} /\ Len(q) = Len(s) - 1 /\ Head(s) = s[1]
          /\ \A k \in 1..Len(s) - 1 : q[k] = s[k + 1]
      BY <1>1, <2>3, HeadTailProperties
    <3> HIDE DEF q
    <3>3. Lacks(q, s, 1) /\ s[1] \in Task
      BY <1>1, <3>2 DEF Lacks
    <3>4. Elems(s) = Elems(q) \cup {s[1]} /\ NoRepeats(q) /\ s[1] \notin Elems(q)
      BY <1>2, <3>3, Lacking
    <3>5. InPool' = InPool \ {s[1]} /\ InDeques' = InDeques /\ s[1] \in InPool
      BY <1>2, <2>1, <3>1, <3>4, InWordsNext
    <3>6. Apart'
      BY <1>2, <2>1, <3>1, <3>4, <3>5, InWordsNext
    <3>7. InPool' \cup InDeques' = (InPool \cup InDeques) \ {s[1]}
      BY <1>2, <3>5
    <3>8. QED  BY <3>1, <3>2, <3>3, <3>5, <3>6, <3>7
  <2>4. QED  BY <2>2, <2>3
<1>6. CASE Steal(t)
  <2>1. pc[t] = "steal" /\ i[t] < Len(queues) /\ pool_work_queue' = pool_work_queue
    BY <1>6 DEF Steal
  <2>2. PICK j \in 0..Len(queues) - 1 : j = Victim(t, i[t])
    <3>0. UIntSize \in Nat \ {0} /\ \A w \in Worker : w \in Nat
      BY DEF Worker
    <3>1. i[t] \in Nat /\ Index(t) \in Nat
      BY <1>1, <3>0 DEF Index, Thread
    <3>2. (Index(t) + i[t] + 1) % UIntSize \in Nat
      BY <3>0, <3>1, Remainder
    <3>3. Len(queues) \in Nat \ {0}
      BY <1>1, <2>1, <3>1
    <3>4. QED  BY <3>2, <3>3, Remainder DEF Victim
  <2> DEFINE s == queues[j + 1]
  <2>3. s \in Seq(Task)
    BY <1>1
  <2>4. CASE s = <<>>
    BY <1>6, <2>2, <2>4 DEF Steal
  <2>5. CASE s # <<>>
    <3>0. PICK n \in Nat : n + 1 = Len(s)
      BY <2>3, <2>5
    <3> DEFINE q == SubSeq(s, 1, n)
    <3>1. /\ task' = [task EXCEPT ![t] = s[n + 1]] /\ queues' = [queues EXCEPT ![j + 1] = q]
      <4>1. n = Len(s) - 1
        BY <3>0, <2>3
      <4>2. QED  BY <3>0, <4>1, <1>6, <2>2, <2>5 DEF Steal, Run
    <3> HIDE DEF s
    <3>2. Len(s) = n + 1 /\ \A k \in 1..n + 1 : s[k] \in Task
      BY <2>3, <3>0
    <3>3. q \in Seq(Task) /\ Len(q) = n /\ \A k \in 1..n : q[k] = s[k]
      <4>1. 1 \in Int /\ n \in Int /\ \A k \in 1..n : s[k] \in Task
        BY <3>2
      <4>2. q \in Seq(Task)
        BY <4>1, SubSeqProperties
      <4>3. Len(q) = IF 1 <= n THEN n - 1 + 1 ELSE 0
        BY <4>1, SubSeqProperties
      <4>4. \A k \in 1..n - 1 + 1 : q[k] = s[1 + k - 1]
        BY <4>1, SubSeqProperties
      <4> HIDE DEF q
      <4>5. Len(q) = n
        BY <4>3
      <4>6. \A k \in 1..n : q[k] = s[k]
        BY <4>4
      <4>7. QED  BY <4>2, <4>5, <4>6
    <3> HIDE DEF q
    <3>4. Lacks(q, s, n + 1)
      BY <2>3, <3>2, <3>3 DEF Lacks
    <3>5. Lacks(q, queues[j + 1], n + 1) /\ task' = [task EXCEPT ![t] = queues[j + 1][n + 1]]
      BY <3>1, <3>4 DEF s
    <3>6. QED  BY <1>3, <2>1, <3>1, <3>5
  <2>6. QED  BY <2>4, <2>5
<1>7. QED  BY <1>4, <1>5, <1>6

\* submit() puts a task that is nowhere into one queue.
LEMMA SubmitEffect ==
  ASSUME TypeOK, LifeInv, QueuesInv, Apart, NEW t \in Thread, NEW x \in Task, Submit(t, x),
         x \notin InPool \cup InDeques
  PROVE  Apart' /\ InPool' \cup InDeques' = InPool \cup InDeques \cup {x}
<1>1. pool_work_queue \in Seq(Task) /\ queues \in Seq(Seq(Task)) /\ Len(queues) \in Nat
  BY DEF TypeOK
<1>2. /\ NoRepeats(pool_work_queue) /\ AllApart(queues) /\ InPool \cap InDeques = {}
      /\ InPool = Elems(pool_work_queue) /\ InDeques = AllElems(queues)
  BY InWords
<1>6. ASSUME NEW w \in 0..Len(queues) - 1, NEW q, Lacks(queues[w + 1], q, 1), q[1] = x
      PROVE  /\ AllApart([queues EXCEPT ![w + 1] = q])
             /\ \A y : y \in AllElems([queues EXCEPT ![w + 1] = q]) <=> y \in AllElems(queues) \/ y = x
  <2>1. q[1] \notin AllElems(queues)
    BY <1>2, <1>6
  <2>2. /\ AllApart([queues EXCEPT ![w + 1] = q])
        /\ \A y : y \in AllElems([queues EXCEPT ![w + 1] = q]) <=> y \in AllElems(queues) \/ y = q[1]
    BY <1>1, <1>2, <1>6, <2>1, DequeGains
  <2>3. QED  BY <1>6, <2>2
<1>3. CASE t \in Worker
  <2>1. PICK w \in 0..Len(queues) - 1 : w = t
    BY <1>3 DEF Submit, Submits, LifeInv, QueuesInv, Worker, Busy
  <2> DEFINE s == queues[w + 1]
             q == <<x>> \o s
  <2>2. s \in Seq(Task) /\ <<x>> \in Seq(Task) /\ Len(<<x>>) = 1 /\ <<x>>[1] = x
    BY <1>1
  <2>3. queues' = [queues EXCEPT ![w + 1] = q] /\ pool_work_queue' = pool_work_queue
    BY <1>3, <2>1 DEF Submit
  <2> HIDE DEF s
  <2>4. /\ q \in Seq(Task) /\ Len(q) = 1 + Len(s) /\ Len(s) \in Nat
        /\ \A k \in 1..1 + Len(s) : q[k] = IF k <= 1 THEN <<x>>[k] ELSE s[k - 1]
    BY <2>2, ConcatProperties
  <2> HIDE DEF q
  <2>5. Lacks(s, q, 1) /\ q[1] = x
    BY <2>2, <2>4 DEF Lacks
  <2>6. Lacks(queues[w + 1], q, 1)
    BY <2>5 DEF s
  <2>7. AllApart(queues') /\ AllElems(queues') = AllElems(queues) \cup {x}
    BY <1>6, <2>3, <2>5, <2>6
  <2>8. QED  BY <1>2, <2>3, <2>7, InWordsNext
<1>4. CASE t \notin Worker
  <2> DEFINE s == pool_work_queue
  <2>1. pool_work_queue' = Append(s, x) /\ queues' = queues
    BY <1>4 DEF Submit
  <2>2. /\ Append(s, x) \in Seq(Task) /\ Len(Append(s, x)) = Len(s) + 1 /\ Len(s) \in Nat
        /\ Append(s, x)[Len(s) + 1] = x
        /\ \A k \in 1..Len(s) : Append(s, x)[k] = s[k]
    BY <1>1, AppendProperties
  <2> DEFINE q == Append(s, x)
  <2>3. pool_work_queue' = q
    BY <2>1
  <2> HIDE DEF q
  <2>4. Lacks(s, q, Len(s) + 1) /\ q[Len(s) + 1] = x
    BY <1>1, <2>2 DEF Lacks, q
  <2>5. Elems(q) = Elems(s) \cup {x} /\ (NoRepeats(q) <=> NoRepeats(s) /\ x \notin Elems(s))
    BY <2>4, Lacking
  <2>6. QED  BY <1>2, <2>1, <2>3, <2>5, InWordsNext
<1>5. QED  BY <1>3, <1>4

\* Each step keeps every pending task in one place, and the flag in step with
\* the owner.
LEMMA PlaceStep == IInv /\ PlaceInv /\ [Next]_vars => PlaceInv'
<1> SUFFICES ASSUME IInv, PlaceInv, [Next]_vars  PROVE PlaceInv'
  OBVIOUS
<1>0. TypeOK /\ LifeInv /\ MutexInv /\ QueuesInv /\ Apart /\ Owner \in Thread /\ Owner \notin Worker
  BY DEF IInv, PlaceInv, Thread, Worker
<1>a. pc \in [Thread -> PcLabel] /\ task \in [Thread -> Task \cup {Null}]
      /\ fut \in [Task -> {"none", "pending", "ready", "broken"}]
  BY <1>0 DEF TypeOK
<1> DEFINE Closing == {"free_mtx", "join", "free_queues", "free_pool", "gone"}
           Flag == (done <=> pc[Owner] \in Closing)
<1>b. Flag
  BY DEF PlaceInv
<1>c. ASSUME Flag', UNCHANGED <<pool_work_queue, queues, fut, task>>  PROVE PlaceInv'
  <2>1. InPool' = InPool /\ InDeques' = InDeques /\ (Apart' <=> Apart)
    BY <1>c DEF InPool, InDeques, InDeque, Apart, NoRepeats
  <2>2. QED  BY <1>c, <2>1 DEF PlaceInv
<1>1. CASE CtorLock \/ CtorDone \/ CtorThrows \/ Close \/ FreeMtx \/ Join \/ Help
  <2>1. Flag'
    BY <1>0, <1>1, <1>a, <1>b DEF CtorLock, CtorDone, CtorThrows, Close, FreeMtx, Join, Help, Goto
  <2>2. QED
    BY <1>1, <1>c, <2>1 DEF CtorLock, CtorDone, CtorThrows, Close, FreeMtx, Join, Help, data
<1>2. CASE CreateThread
  <2>1. Flag'
    BY <1>0, <1>2, <1>b, CreateEffect
  <2>2. QED  BY <1>2, <1>c, <2>1 DEF CreateThread, data
<1>3. ASSUME NEW w \in Worker, Lock(w) \/ Unlock(w) \/ Bind(w) \/ CheckDone(w)  PROVE PlaceInv'
  <2>1. Flag'
    BY <1>0, <1>3, <1>a, <1>b DEF Lock, Unlock, Bind, CheckDone, Goto
  <2>2. QED  BY <1>3, <1>c, <2>1 DEF Lock, Unlock, Bind, CheckDone, data
<1>4. ASSUME NEW t \in Thread, StealFails(t)  PROVE PlaceInv'
  <2>1. Flag'
    BY <1>0, <1>4, <1>a, <1>b DEF StealFails, Goto, Back
  <2>2. QED  BY <1>4, <1>c, <2>1 DEF StealFails, data
<1>5. CASE AddQueue
  <2>1. Flag' /\ queues' = Append(queues, <<>>) /\ UNCHANGED <<pool_work_queue, fut, task>>
    BY <1>0, <1>5, <1>a, <1>b DEF AddQueue, Goto
  <2>2. /\ Len(queues') = Len(queues) + 1 /\ Len(queues) \in Nat /\ queues'[Len(queues) + 1] = <<>>
        /\ \A k \in 1..Len(queues) : queues'[k] = queues[k]
    <3>1. queues \in Seq(Seq(Task)) /\ <<>> \in Seq(Task)
      BY <1>0 DEF TypeOK
    <3>2. QED  BY <2>1, <3>1, AppendProperties
  <2>3. Elems(<<>>) = {} /\ NoRepeats(<<>>)
    BY DEF Elems, NoRepeats
  <2>4. \A v \in 0..Len(queues') - 1 :
          \/ v \in 0..Len(queues) - 1 /\ queues'[v + 1] = queues[v + 1]
          \/ queues'[v + 1] = <<>> /\ v = Len(queues)
    BY <2>2
  <2>5. AllApart(queues')
    BY <1>0, <2>3, <2>4, InWords DEF AllApart
  <2>6. AllElems(queues') = AllElems(queues)
    <3> DEFINE S(v) == Elems(queues[v + 1])
               T(v) == Elems(queues'[v + 1])
    <3>1. /\ \A v \in 0..Len(queues) - 1 : v \in 0..Len(queues') - 1 /\ T(v) = S(v)
          /\ \A v \in 0..Len(queues') - 1 : v \in 0..Len(queues) - 1 \/ T(v) = {}
      BY <2>2, <2>3, <2>4
    <3>2. AllElems(queues) = UNION {S(v) : v \in 0..Len(queues) - 1}
          /\ AllElems(queues') = UNION {T(v) : v \in 0..Len(queues') - 1}
      BY DEF AllElems
    <3> HIDE DEF S, T
    <3>3. \A y : /\ y \in AllElems(queues) <=> \E v \in 0..Len(queues) - 1 : y \in S(v)
                 /\ y \in AllElems(queues') <=> \E v \in 0..Len(queues') - 1 : y \in T(v)
      BY <3>2, Zenon
    <3>4. \A y : y \in AllElems(queues') <=> y \in AllElems(queues)
      BY <3>1, <3>3
    <3>5. QED  BY <3>4
  <2>7. InPool' = InPool /\ InDeques' = InDeques /\ Apart'
    BY <1>0, <2>1, <2>5, <2>6, InWords, InWordsNext
  <2>8. QED  BY <2>1, <2>7 DEF PlaceInv
<1>6. CASE FreeQueues
  <2>1. Flag' /\ queues' = <<>> /\ UNCHANGED <<pool_work_queue, task>> /\ pc[Owner] = "free_queues"
    BY <1>0, <1>6, <1>a, <1>b DEF FreeQueues, Goto
  <2>2. fut' = [x \in Task |-> IF x \in InDeques THEN "broken" ELSE fut[x]]
    BY <1>6, Zenon DEF FreeQueues, Break
  <2>3. \A t \in Thread : task[t] = Null
    BY <1>0, <2>1 DEF LifeInv, Thread, Busy
  <2>4. AllElems(queues') = {} /\ AllApart(queues')
    BY <2>1 DEF AllElems, AllApart
  <2>5. InPool' = InPool /\ InDeques' = {} /\ Apart'
    BY <1>0, <2>1, <2>4, InWords, InWordsNext
  <2>6. \A x \in InPool : x \in Task /\ x \notin InDeques
    BY <1>0 DEF TypeOK, InPool, Apart
  <2>7. QED  BY <2>1, <2>2, <2>3, <2>5, <2>6 DEF PlaceInv
<1>7. CASE FreePool
  <2>1. Flag' /\ pool_work_queue' = <<>> /\ UNCHANGED <<queues, task>> /\ pc[Owner] = "free_pool"
    BY <1>0, <1>7, <1>a, <1>b DEF FreePool, Goto
  <2>2. \A t \in Thread : task[t] = Null
    BY <1>0, <2>1 DEF LifeInv, Thread, Busy
  <2>3. queues = <<>>
    BY <1>0, <2>1 DEF QueuesInv
  <2>4. Elems(pool_work_queue') = {} /\ NoRepeats(pool_work_queue')
        /\ AllElems(queues') = {} /\ AllApart(queues')
    BY <2>1, <2>3 DEF Elems, NoRepeats, AllElems, AllApart
  <2>5. InPool' = {} /\ InDeques' = {} /\ Apart'
    BY <2>4, InWordsNext
  <2>6. QED  BY <2>1, <2>2, <2>5 DEF PlaceInv
<1>8. ASSUME NEW t \in Thread, PopLocal(t) \/ PopPool(t) \/ Steal(t)  PROVE PlaceInv'
  <2>1. UNCHANGED <<done, fut>> /\ task[t] = Null /\ pc[t] \notin Closing
    BY <1>0, <1>8, PopEffect
  <2>2. Flag'
    <3>1. \E l \in PcLabel \ Closing : pc' = [pc EXCEPT ![t] = l]
      <4>1. \/ \E l \in {"pool", "steal"} : pc' = [pc EXCEPT ![t] = l]
            \/ \E x \in Task : pc' = [pc EXCEPT ![t] = "run"]
        BY <1>0, <1>8, PopEffect
      <4>2. QED  BY <4>1 DEF PcLabel
    <3>2. QED  BY <1>0, <1>a, <1>b, <2>1, <3>1
  <2>3. CASE UNCHANGED <<task, pool_work_queue, queues>>
    BY <1>c, <2>1, <2>2, <2>3
  <2>4. ASSUME NEW x \in InPool \cup InDeques, x \in Task, task' = [task EXCEPT ![t] = x], Apart',
               InPool' \cup InDeques' = (InPool \cup InDeques) \ {x}
        PROVE  PlaceInv'
    <3>1. fut[x] = "pending" /\ \A u \in Thread : task[u] # x
      BY DEF PlaceInv
    <3>2. \A u \in Thread : task'[u] = IF u = t THEN x ELSE task[u]
      BY <1>a, <2>4
    <3>3. \A y \in InPool' \cup InDeques' : fut'[y] = "pending" /\ \A u \in Thread : task'[u] # y
      BY <2>1, <2>4, <3>2 DEF PlaceInv
    <3>4. \A u \in Thread : task'[u] # Null => fut'[task'[u]] = "pending"
      BY <2>1, <3>1, <3>2 DEF PlaceInv
    <3>5. \A u, v \in Thread : task'[u] = task'[v] /\ task'[u] # Null => u = v
      BY <3>1, <3>2 DEF PlaceInv
    <3>6. QED  BY <2>2, <2>4, <3>3, <3>4, <3>5 DEF PlaceInv
  <2>5. QED  BY <1>0, <1>8, <2>3, <2>4, TakeEffect
<1>9. ASSUME NEW t \in Thread, Finish(t)  PROVE PlaceInv'
  <2>1. PICK y \in Task : y = task[t] /\ y # Null
    BY <1>0, <1>9 DEF Finish, Goto, TypeOK, LifeInv
  <2>2. /\ fut' = [fut EXCEPT ![y] = "ready"] /\ task' = [task EXCEPT ![t] = Null] /\ done' = done
        /\ UNCHANGED <<pool_work_queue, queues>> /\ pc' = [pc EXCEPT ![t] = Back(t)] /\ pc[t] = "run"
    BY <1>9, <2>1 DEF Finish, Goto
  <2>3. Flag'
    BY <1>0, <1>a, <1>b, <2>2 DEF Back
  <2>4. InPool' = InPool /\ InDeques' = InDeques /\ (Apart' <=> Apart)
    BY <2>2 DEF InPool, InDeques, InDeque, Apart, NoRepeats
  <2>5. y \notin InPool \cup InDeques /\ \A u \in Thread : task[u] = y => u = t
    BY <2>1 DEF PlaceInv
  <2>6. \A u \in Thread : task'[u] = IF u = t THEN Null ELSE task[u]
    BY <1>a, <2>2
  <2>7. \A x \in Task : x # y => fut'[x] = fut[x]
    BY <1>a, <2>2
  <2>8. \A x \in InPool' \cup InDeques' : fut'[x] = "pending" /\ \A u \in Thread : task'[u] # x
    <3>1. \A x \in InPool \cup InDeques : x \in Task
      BY <1>0, QueuedTasks
    <3>2. QED  BY <2>4, <2>5, <2>6, <2>7, <3>1 DEF PlaceInv
  <2>9. \A u \in Thread : task'[u] # Null => fut'[task'[u]] = "pending"
    BY <1>a, <2>5, <2>6, <2>7 DEF PlaceInv
  <2>10. \A u, v \in Thread : task'[u] = task'[v] /\ task'[u] # Null => u = v
    BY <2>6 DEF PlaceInv
  <2>11. QED  BY <1>0, <2>3, <2>4, <2>8, <2>9, <2>10 DEF PlaceInv
<1>10. ASSUME NEW t \in Thread, NEW x \in Task, Submit(t, x)  PROVE PlaceInv'
  <2>1. fut[x] = "none" /\ fut' = [fut EXCEPT ![x] = "pending"] /\ UNCHANGED <<task, done, pc>>
    BY <1>10 DEF Submit
  <2>2. x \notin InPool \cup InDeques /\ \A u \in Thread : task[u] # x
    BY <2>1 DEF PlaceInv
  <2>3. Apart' /\ InPool' \cup InDeques' = InPool \cup InDeques \cup {x}
    BY <1>0, <1>10, <2>2, SubmitEffect
  <2>4. \A y : y # x => fut'[y] = fut[y] \/ y \notin Task
    BY <1>a, <2>1
  <2>5. \A y \in InPool' \cup InDeques' : fut'[y] = "pending" /\ \A u \in Thread : task'[u] # y
    BY <1>a, <2>1, <2>2, <2>3 DEF PlaceInv
  <2>6. \A u \in Thread : task'[u] # Null => fut'[task'[u]] = "pending"
    BY <1>a, <2>1 DEF PlaceInv
  <2>7. QED  BY <2>1, <2>3, <2>5, <2>6 DEF PlaceInv
<1>11. CASE UNCHANGED vars
  BY <1>b, <1>c, <1>11 DEF vars, data
<1>12. QED
  BY <1>1, <1>2, <1>3, <1>4, <1>5, <1>6, <1>7, <1>8, <1>9, <1>10, <1>11, StepsOf

\* As long as pending tasks are kept, none is lost.
LEMMA NoneLost ==
  /\ PendingKept => absStatus = [x \in Task |-> IF Running(x) THEN "running" ELSE StatusOf[fut[x]]]
  /\ PendingKept' => absStatus' = [x \in Task |-> IF Running(x)' THEN "running" ELSE StatusOf[fut'[x]]]
<1>1. ASSUME PendingKept
      PROVE  absStatus = [x \in Task |-> IF Running(x) THEN "running" ELSE StatusOf[fut[x]]]
  <2>1. \A x \in Task : ~Running(x) => ~Lost(x)
    BY <1>1 DEF PendingKept, Lost, Running
  <2>2. QED  BY <2>1 DEF absStatus
<1>2. ASSUME PendingKept'
      PROVE  absStatus' = [x \in Task |-> IF Running(x)' THEN "running" ELSE StatusOf[fut'[x]]]
  <2>1. \A x \in Task : ~Running(x)' => ~Lost(x)'
    BY <1>2 DEF PendingKept, Lost, Running
  <2>2. absStatus' = [x \in Task |-> IF Running(x)' THEN "running"
                                     ELSE IF Lost(x)' THEN "lost" ELSE StatusOf[fut'[x]]]
    BY Zenon DEF absStatus, StatusOf
  <2>3. QED  BY <2>1, <2>2
<1>3. QED  BY <1>1, <1>2

\* When no task begins or ends and the owner stays in its phase, TaskPool sees nothing.
LEMMA Stutter ==
  ASSUME PendingKept, PendingKept', fut' = fut, task' = task, absPhase' = absPhase
  PROVE  UNCHANGED <<absStatus, absPhase>>
<1>1. \A x \in Task : Running(x)' <=> Running(x)
  BY DEF Running
<1>2. QED  BY <1>1, NoneLost

\* Every step is one of TaskPool's or changes nothing it sees.
LEMMA StepRefines == IInv /\ PlaceInv /\ [Next]_vars => [Pool!Next]_<<absStatus, absPhase>>
<1> SUFFICES ASSUME IInv, PlaceInv, [Next]_vars  PROVE [Pool!Next]_<<absStatus, absPhase>>
  OBVIOUS
<1> DEFINE Goal == Pool!Next \/ UNCHANGED <<absStatus, absPhase>>
           Gone == {"free_queues", "free_pool", "gone"}
<1>a. /\ absStatus = [x \in Task |-> IF Running(x) THEN "running" ELSE StatusOf[fut[x]]]
      /\ absStatus' = [x \in Task |-> IF Running(x)' THEN "running" ELSE StatusOf[fut'[x]]]
  BY PendingStep, NoneLost DEF IInv
<1>k. PendingKept /\ PendingKept'
  BY PendingStep DEF IInv
<1>b. TypeOK /\ LifeInv /\ QueuesInv /\ Apart /\ Owner \in Thread /\ Owner \notin Worker
  BY DEF IInv, PlaceInv, Thread, Worker
<1>c. /\ pc \in [Thread -> PcLabel] /\ task \in [Thread -> Task \cup {Null}]
      /\ fut \in [Task -> {"none", "pending", "ready", "broken"}]
  BY <1>b DEF TypeOK
<1>d. ASSUME UNCHANGED <<fut, task, done>>, pc'[Owner] \notin Gone, pc[Owner] \notin Gone
      PROVE  Goal
  BY <1>k, <1>d, Stutter DEF absPhase
<1>1. CASE CtorLock \/ AddQueue \/ CtorDone \/ CtorThrows \/ FreeMtx \/ Help
  BY <1>1, <1>b, <1>c, <1>d DEF CtorLock, AddQueue, CtorDone, CtorThrows, FreeMtx, Help, Goto, data
<1>2. CASE CreateThread
  BY <1>2, <1>b, <1>d, CreateEffect DEF data
<1>3. CASE Close
  <2>1. /\ fut' = fut /\ task' = task /\ done' = TRUE /\ pc[Owner] \in {"open", "catch"}
        /\ pc'[Owner] = "free_mtx"
    BY <1>3, <1>b, <1>c DEF Close, Goto, data
  <2>2. absPhase = "open" /\ absPhase' = "closing"
    BY <2>1 DEF absPhase, PlaceInv
  <2>3. absStatus' = absStatus
    BY <1>a, <2>1 DEF Running
  <2>4. QED  BY <2>2, <2>3 DEF Pool!Next, Pool!Close
<1>4. CASE Join
  <2>1. fut' = fut /\ task' = task /\ done' = done /\ pc[Owner] = "join" /\ pc'[Owner] = "free_queues"
    BY <1>4, <1>b, <1>c DEF Join, Goto, data
  <2>2. absPhase = "closing" /\ absPhase' = "closed"
    BY <2>1 DEF absPhase, PlaceInv
  <2>3. absStatus' = absStatus
    BY <1>a, <2>1 DEF Running
  <2>4. \A t \in Thread : task[t] = Null
    <3>1. \A w \in Worker : pc[w] \in {"none", "exit"}
      BY <1>4, <1>b DEF Join, LifeInv, TypeOK, Worker
    <3>2. QED  BY <1>b, <2>1, <3>1 DEF LifeInv, Thread
  <2>5. \A x \in Task : absStatus[x] # "running"
    BY <1>a, <1>c, <2>4 DEF Running, StatusOf
  <2>6. QED  BY <2>2, <2>3, <2>5 DEF Pool!Next, Pool!Closed
<1>5. ASSUME NEW X, X \subseteq InPool \cup InDeques, task' = task, pc[Owner] \in Gone, pc'[Owner] \in Gone,
             fut' = [x \in Task |-> IF x \in X THEN "broken" ELSE fut[x]]
      PROVE  Goal
  <2>1. absPhase = "closed" /\ absPhase' = "closed"
    BY <1>5 DEF absPhase
  <2>2. \A x \in Task : ~Running(x) /\ ~Running(x)'
    <3>1. \A t \in Thread : task[t] = Null
      BY <1>5, <1>b DEF LifeInv, Thread, Busy
    <3>2. QED  BY <1>5, <3>1 DEF Running
  <2>3. \A x \in X : x \in Task /\ fut[x] = "pending"
    BY <1>5, <1>b, QueuedTasks DEF PlaceInv
  <2>4. X \in SUBSET {x \in Task : absStatus[x] = "queued"}
    BY <1>a, <2>2, <2>3 DEF StatusOf
  <2>5. absStatus' = [x \in Task |-> IF x \in X THEN "dropped" ELSE absStatus[x]]
    BY <1>5, <1>a, <2>2 DEF StatusOf
  <2>6. QED  BY <2>1, <2>4, <2>5 DEF Pool!Next, Pool!Drop
<1>6. CASE FreeQueues
  <2>1. task' = task /\ pc[Owner] \in Gone /\ pc'[Owner] \in Gone
    BY <1>6, <1>b, <1>c DEF FreeQueues, Goto
  <2>2. fut' = [x \in Task |-> IF x \in InDeques THEN "broken" ELSE fut[x]]
    BY <1>6, Zenon DEF FreeQueues, Break
  <2>3. QED  BY <1>5, <2>1, <2>2
<1>7. CASE FreePool
  <2>1. task' = task /\ pc[Owner] \in Gone /\ pc'[Owner] \in Gone
    BY <1>7, <1>b, <1>c DEF FreePool, Goto
  <2>2. fut' = [x \in Task |-> IF x \in InPool THEN "broken" ELSE fut[x]]
    BY <1>7, Zenon DEF FreePool, Break
  <2>3. QED  BY <1>5, <2>1, <2>2
<1>8. ASSUME NEW w \in Worker, Lock(w) \/ Unlock(w) \/ Bind(w) \/ CheckDone(w)  PROVE Goal
  <2>1. UNCHANGED <<fut, task, done>> /\ pc'[Owner] = pc[Owner]
    BY <1>8, <1>b, <1>c DEF Lock, Unlock, Bind, CheckDone, Goto, data
  <2>2. QED  BY <1>k, <2>1, Stutter DEF absPhase
<1>9. ASSUME NEW t \in Thread, StealFails(t)  PROVE Goal
  <2>1. UNCHANGED <<fut, task, done>> /\ (pc'[Owner] = pc[Owner] \/ (pc[Owner] = "steal" /\ pc'[Owner] = "open"))
    BY <1>9, <1>b, <1>c DEF StealFails, Back, Goto, data
  <2>2. QED  BY <1>k, <2>1, Stutter DEF absPhase
<1>10. ASSUME NEW t \in Thread, PopLocal(t) \/ PopPool(t) \/ Steal(t)  PROVE Goal
  <2>1. UNCHANGED <<done, fut>> /\ task[t] = Null /\ pc[t] \in {"local", "pool", "steal"}
    BY <1>10, <1>b, PopEffect
  <2>2. pc[Owner] \notin Gone
    BY <1>b, <2>1 DEF LifeInv, Thread
  <2>3. pc'[Owner] \notin Gone
    <3>1. \E l \in PcLabel \ Gone : pc' = [pc EXCEPT ![t] = l]
      <4>1. \/ \E l \in {"pool", "steal"} : pc' = [pc EXCEPT ![t] = l]
            \/ \E x \in Task : pc' = [pc EXCEPT ![t] = "run"]
        BY <1>10, <1>b, PopEffect
      <4>2. QED  BY <4>1 DEF PcLabel
    <3>2. QED  BY <1>b, <1>c, <2>2, <3>1
  <2>4. absPhase' = absPhase /\ absPhase # "closed"
    BY <2>1, <2>2, <2>3 DEF absPhase
  <2>5. CASE UNCHANGED <<task, pool_work_queue, queues>>
    BY <1>k, <2>1, <2>4, <2>5, Stutter
  <2>6. ASSUME NEW x \in InPool \cup InDeques, x \in Task, task' = [task EXCEPT ![t] = x]
        PROVE  Goal
    <3>1. fut[x] = "pending" /\ ~Running(x)
      BY DEF PlaceInv, Running
    <3>2. \A y \in Task : Running(y)' <=> y = x \/ Running(y)
      BY <1>c, <2>1, <2>6 DEF Running
    <3>3. absStatus[x] = "queued" /\ absStatus' = [absStatus EXCEPT ![x] = "running"]
      BY <1>a, <2>1, <2>6, <3>1, <3>2 DEF StatusOf
    <3>4. QED  BY <2>4, <2>6, <3>3 DEF Pool!Next, Pool!Begin, Pool!Move
  <2>7. QED  BY <1>10, <1>b, <2>5, <2>6, TakeEffect
<1>11. ASSUME NEW t \in Thread, Finish(t)  PROVE Goal
  <2>1. PICK y \in Task : y = task[t] /\ y # Null
    BY <1>b, <1>11 DEF Finish, Goto, TypeOK, LifeInv
  <2>2. /\ task' = [task EXCEPT ![t] = Null] /\ fut' = [fut EXCEPT ![y] = "ready"] /\ done' = done
        /\ pc' = [pc EXCEPT ![t] = Back(t)] /\ pc[t] = "run"
    BY <1>11, <2>1 DEF Finish, Goto
  <2>3. absPhase' = absPhase
    BY <1>b, <1>c, <2>2 DEF absPhase, Back
  <2>4. Running(y) /\ \A u \in Thread : task[u] = y => u = t
    BY <2>1 DEF Running, PlaceInv
  <2>5. \A x \in Task : Running(x)' <=> x # y /\ Running(x)
    BY <1>c, <2>1, <2>2, <2>4 DEF Running
  <2>6. absStatus[y] = "running" /\ absStatus' = [absStatus EXCEPT ![y] = "done"]
    BY <1>a, <1>c, <2>2, <2>4, <2>5 DEF StatusOf
  <2>7. QED  BY <2>3, <2>6 DEF Pool!Next, Pool!Finish, Pool!Move
<1>12. ASSUME NEW t \in Thread, NEW y \in Task, Submit(t, y)  PROVE Goal
  <2>1. /\ fut[y] = "none" /\ fut' = [fut EXCEPT ![y] = "pending"] /\ UNCHANGED <<task, done, pc>>
    BY <1>12 DEF Submit
  <2>2. pc[Owner] \notin Gone
    BY <1>12, <1>b DEF Submit, Submits, LifeInv, Thread
  <2>3. absPhase' = absPhase /\ absPhase # "closed"
    BY <2>1, <2>2 DEF absPhase
  <2>4. ~Running(y) /\ \A x \in Task : Running(x)' <=> Running(x)
    BY <2>1 DEF Running, PlaceInv
  <2>5. absStatus[y] = "new" /\ absStatus' = [absStatus EXCEPT ![y] = "queued"]
    BY <1>a, <1>c, <2>1, <2>4 DEF StatusOf
  <2>6. QED  BY <2>3, <2>5 DEF Pool!Next, Pool!Submit, Pool!Move
<1>13. CASE UNCHANGED vars
  BY <1>k, <1>13, Stutter DEF vars, data, absPhase
<1>14. QED
  BY <1>1, <1>2, <1>3, <1>4, <1>6, <1>7, <1>8, <1>9, <1>10, <1>11, <1>12, <1>13, StepsOf

\* The pool runs every task at most once, drops none while it is open and loses none:
\* three kinds of queues and the thieves do not let a task be taken twice or forgotten.
THEOREM Refinement == Spec => ImplementsTaskPool
<1>1. Init => PlaceInv /\ Pool!Init
  <2> SUFFICES ASSUME Init  PROVE PlaceInv /\ Pool!Init
    OBVIOUS
  <2>1. \A x \in Task : fut[x] = "none" /\ ~Running(x)
    BY DEF Init, Running
  <2>2. absStatus = [x \in Task |-> "new"]
    BY <2>1, Initially, NoneLost DEF IInv, StatusOf
  <2>3. pc[Owner] = "ctor"
    BY DEF Init, Thread
  <2>4. absPhase = "open"
    BY <2>3 DEF Init, absPhase
  <2>5. pool_work_queue = <<>> /\ queues = <<>>
    BY DEF Init
  <2>6. InPool = {} /\ InDeques = {} /\ Apart
    <3>1. Elems(pool_work_queue) = {} /\ NoRepeats(pool_work_queue)
          /\ AllElems(queues) = {} /\ AllApart(queues)
      BY <2>5 DEF Elems, NoRepeats, AllElems, AllApart
    <3>2. QED  BY <3>1, InWords
  <2>7. PlaceInv
    BY <2>3, <2>6 DEF Init, PlaceInv
  <2>8. QED  BY <2>2, <2>4, <2>7 DEF Pool!Init
<1>2. IInv /\ PlaceInv /\ [Next]_vars => [Pool!Next]_<<absStatus, absPhase>>
  BY StepRefines
<1>3. QED  BY <1>1, <1>2, PlaceStep, Invariance, PTL DEF Spec, ImplementsTaskPool, Pool!Spec, Pool!vars

\* Remainders of numbers below n, and of those that have passed it once.
LEMMA BelowN ==
  ASSUME NEW n \in Nat \ {0}, NEW a \in 0..n - 1
  PROVE  a % n = a
OBVIOUS

LEMMA PassedOnce ==
  ASSUME NEW n \in Nat \ {0}, NEW a \in 0..n - 1
  PROVE  (a + n) % n = a
OBVIOUS

\* The indexes a thread tries in pop_from_other_local_queue() are those of all the deques,
\* each once: for a worker they begin behind its own and come round to it, for the owner
\* my_index_ + 1 wraps round to 0.
LEMMA RoundVisits ==
  ASSUME NEW t \in Thread, t \in Worker => t < Len(queues),
         Len(queues) \in Nat, 2 * Len(queues) <= UIntSize
  PROVE  \A j \in 0..Len(queues) - 1 :
           \E k \in 0..Len(queues) - 1 :
             /\ Victim(t, k) = j
             /\ \A l \in 0..Len(queues) - 1 : Victim(t, l) = j => l = k
<1> DEFINE n == Len(queues)
<1>1. SUFFICES ASSUME NEW j \in 0..n - 1
               PROVE  \E k \in 0..n - 1 : /\ Victim(t, k) = j
                                          /\ \A l \in 0..n - 1 : Victim(t, l) = j => l = k
  OBVIOUS
<1>2. n \in Nat \ {0} /\ UIntSize \in Nat \ {0} /\ 2 * n <= UIntSize
  OBVIOUS
<1>3. CASE t = Owner
  <2>1. ASSUME NEW k \in 0..n - 1  PROVE Victim(t, k) = k
    <3>1. Index(t) + k + 1 = k + UIntSize /\ k \in 0..UIntSize - 1
      BY <1>2, <1>3 DEF Index
    <3>2. (Index(t) + k + 1) % UIntSize = k
      BY <1>2, <3>1, PassedOnce
    <3>3. QED  BY <1>2, <3>2, BelowN DEF Victim
  <2>2. QED  BY <1>2, <2>1
<1>4. CASE t # Owner
  <2>1. t \in 0..n - 1
    BY <1>4 DEF Thread, Worker
  <2>2. ASSUME NEW k \in 0..n - 1
        PROVE  Victim(t, k) = IF t + k + 1 < n THEN t + k + 1 ELSE t + k + 1 - n
    <3>1. t + k + 1 \in 0..UIntSize - 1 /\ Index(t) = t
      BY <1>2, <1>4, <2>1 DEF Index
    <3>2. Victim(t, k) = (t + k + 1) % n
      BY <1>2, <3>1, BelowN DEF Victim
    <3>3. CASE t + k + 1 < n
      <4>1. t + k + 1 \in 0..n - 1
        BY <1>2, <2>1, <3>3
      <4>2. (t + k + 1) % n = t + k + 1
        BY <1>2, <4>1, BelowN
      <4>3. QED  BY <3>2, <3>3, <4>2
    <3>4. CASE t + k + 1 >= n
      <4>1. t + k + 1 - n \in 0..n - 1 /\ (t + k + 1 - n) + n = t + k + 1
        BY <1>2, <2>1, <3>4
      <4>2. QED  BY <1>2, <2>1, <3>2, <3>4, <4>1, PassedOnce
    <3>5. QED  BY <1>2, <2>1, <3>3, <3>4
  <2> HIDE DEF n
  <2> DEFINE k == IF j > t THEN j - t - 1 ELSE j + n - t - 1
  <2>3. k \in 0..n - 1 /\ Victim(t, k) = j
    BY <1>1, <1>2, <2>1, <2>2
  <2>4. \A l \in 0..n - 1 : Victim(t, l) = j => l = k
    BY <1>1, <1>2, <2>1, <2>2
  <2>5. QED  BY <2>3, <2>4
<1>5. QED  BY <1>3, <1>4
\* The stealing loop misses no deque, if an unsigned int can hold twice their number.
THEOREM EveryDequeTried ==
  ASSUME 2 * ThreadCount <= UIntSize
  PROVE  Spec => []RoundComplete
<1>1. IInv => RoundComplete
  <2> SUFFICES ASSUME IInv, NEW t \in Thread, pc[t] = "steal"
               PROVE  \A j \in 0..Len(queues) - 1 :
                        \E k \in 0..Len(queues) - 1 :
                          /\ Victim(t, k) = j
                          /\ \A l \in 0..Len(queues) - 1 : Victim(t, l) = j => l = k
    BY DEF RoundComplete
  <2>1. Len(queues) \in Nat /\ Len(queues) <= ThreadCount
    BY DEF IInv, TypeOK, QueuesInv
  <2>2. t \in Worker => t < Len(queues)
    <3> HAVE t \in Worker
    <3>1. pc[Owner] \notin {"free_pool", "gone"}
      BY DEF IInv, LifeInv
    <3>2. QED  BY <3>1 DEF IInv, QueuesInv, Busy
  <2>3. 2 * Len(queues) <= UIntSize
    BY <2>1
  <2>4. QED  BY <2>1, <2>2, <2>3, RoundVisits
<1>2. QED  BY <1>1, Invariance, PTL

=============================================================================
