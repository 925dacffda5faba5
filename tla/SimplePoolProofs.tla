-------------------------- MODULE SimplePoolProofs --------------------------
(* Proofs about SimplePool, for any number of threads and any tasks.       *)
EXTENDS SimplePool, SequenceTheorems, TLAPS

USE CountAssumption, TaskAssumption, KindAssumption, NameAssumption

\* The types: only Pop and Submit change the queue, FreeQueue empties it.
LEMMA TypeStep == IInv /\ [Next]_vars => TypeOK'
<1> SUFFICES ASSUME IInv, [Next]_vars  PROVE TypeOK'
  OBVIOUS
<1> USE DEF IInv, TypeOK, Goto, PcLabel
<1>1. CASE CreateThread
  BY <1>1 DEF CreateThread, Worker, Thread
<1>2. CASE CreateThreadFails
  BY <1>2 DEF CreateThreadFails
<1>3. CASE CtorDone
  BY <1>3 DEF CtorDone
<1>4. CASE Close
  BY <1>4 DEF Close
<1>5. CASE Join
  BY <1>5 DEF Join
<1>6. CASE FreeQueue
  <2>1. fut' = [x \in Task |-> IF Queued(x) THEN "broken" ELSE fut[x]]
    BY <1>6, Zenon DEF FreeQueue, Queued
  <2>2. fut' \in [Task -> {"none", "pending", "ready", "broken"}]
    BY <2>1
  <2>3. <<>> \in Seq(Task)
    OBVIOUS
  <2>4. QED  BY <1>6, <2>2, <2>3, Zenon DEF FreeQueue
<1>7. ASSUME NEW w \in Worker, CheckDone(w)  PROVE TypeOK'
  BY <1>7 DEF CheckDone
<1>8. ASSUME NEW w \in Worker, Pop(w)  PROVE TypeOK'
  BY <1>8, HeadTailProperties DEF Pop
<1>9. ASSUME NEW w \in Worker, Yield(w)  PROVE TypeOK'
  BY <1>9 DEF Yield
<1>10. ASSUME NEW w \in Worker, Finish(w)  PROVE TypeOK'
  <2>1. task[w] \in Task
    BY <1>10 DEF Finish, PhaseInv
  <2>2. QED  BY <1>10, <2>1 DEF Finish
<1>11. ASSUME NEW w \in Worker, Terminate(w)  PROVE TypeOK'
  BY <1>11 DEF Terminate
<1>12. ASSUME NEW t \in Thread, NEW x \in Task, Submit(t, x)  PROVE TypeOK'
  BY <1>12, AppendProperties DEF Submit
<1>13. CASE UNCHANGED vars
  BY <1>13 DEF vars
<1>14. QED
  BY <1>1, <1>2, <1>3, <1>4, <1>5, <1>6,
     <1>7, <1>8, <1>9, <1>10, <1>11, <1>12, <1>13
     DEF Next, OwnerStep, WorkerStep, Choose, Worker, Thread

\* Which thread is where in each phase; Join lets the owner on only when every
\* started worker has left its loop.
LEMMA PhaseStep == IInv /\ [Next]_vars => PhaseInv'
<1> SUFFICES ASSUME IInv, [Next]_vars  PROVE PhaseInv'
  OBVIOUS
<1> USE DEF IInv, TypeOK, PhaseInv, MembersAlive, Goto, Worker, Thread
<1>1. CASE CreateThread
  BY <1>1 DEF CreateThread
<1>2. CASE CreateThreadFails
  BY <1>2 DEF CreateThreadFails
<1>3. CASE CtorDone
  BY <1>3 DEF CtorDone
<1>4. CASE Close
  BY <1>4 DEF Close
<1>5. CASE Join
  BY <1>5 DEF Join
<1>6. CASE FreeQueue
  BY <1>6 DEF FreeQueue
<1>7. ASSUME NEW w \in Worker, CheckDone(w)  PROVE PhaseInv'
  BY <1>7 DEF CheckDone
<1>8. ASSUME NEW w \in Worker, Pop(w)  PROVE PhaseInv'
  BY <1>8, HeadTailProperties DEF Pop
<1>9. ASSUME NEW w \in Worker, Yield(w)  PROVE PhaseInv'
  BY <1>9 DEF Yield
<1>10. ASSUME NEW w \in Worker, Finish(w)  PROVE PhaseInv'
  BY <1>10 DEF Finish
<1>11. ASSUME NEW w \in Worker, Terminate(w)  PROVE PhaseInv'
  BY <1>11 DEF Terminate
<1>12. ASSUME NEW t \in Thread, NEW x \in Task, Submit(t, x)  PROVE PhaseInv'
  BY <1>12 DEF Submit
<1>13. CASE UNCHANGED vars
  BY <1>13 DEF vars
<1>14. QED
  BY <1>1, <1>2, <1>3, <1>4, <1>5, <1>6,
     <1>7, <1>8, <1>9, <1>10, <1>11, <1>12, <1>13
     DEF Next, OwnerStep, WorkerStep, Choose, Worker, Thread

-----------------------------------------------------------------------------
\* A pending task is in one place.  Elements of the queue move when a worker
\* takes its head and when a task is appended.
LEMMA PlaceStep == IInv /\ [Next]_vars => PlaceInv'
<1> SUFFICES ASSUME IInv, [Next]_vars  PROVE PlaceInv'
  OBVIOUS
<1> USE DEF IInv, TypeOK, PlaceInv, Queued, Running, Goto
<1>1. CASE (OwnerStep /\ ~FreeQueue) \/ (pc[Owner] = "open" /\ Close)
  BY <1>1 DEF OwnerStep, CreateThread, CreateThreadFails, CtorDone, Close, Join
<1>2. CASE FreeQueue
  <2>1. \A w \in Worker : task[w] = Null
    BY <1>2 DEF FreeQueue, PhaseInv, MembersAlive
  <2>2. work_queue' = <<>> /\ Len(work_queue') = 0 /\ task' = task
    BY <1>2 DEF FreeQueue
  <2>3. \A x \in Task : ~Running(x) /\ ~Running(x)' /\ ~Queued(x)'
    BY <2>1, <2>2
  <2>4. \A x \in Task : fut'[x] = IF Queued(x) THEN "broken" ELSE fut[x]
    BY <1>2, Zenon DEF FreeQueue
  <2>5. \A x \in Task : fut'[x] # "pending"
    BY <2>3, <2>4
  <2>6. QED  BY <2>1, <2>2, <2>3, <2>5
<1>3. ASSUME NEW w \in Worker, CheckDone(w) \/ Yield(w) \/ Terminate(w)  PROVE PlaceInv'
  BY <1>3 DEF CheckDone, Yield, Terminate
<1>4. ASSUME NEW w \in Worker, Pop(w)  PROVE PlaceInv'
  <2>0. PICK h \in Task : h = Head(work_queue)
    BY <1>4, HeadTailProperties DEF Pop
  <2>1. /\ task[w] = Null /\ work_queue # <<>>
        /\ task' = [task EXCEPT ![w] = h] /\ work_queue' = Tail(work_queue) /\ fut' = fut
    BY <1>4, <2>0 DEF Pop, PhaseInv
  <2>2. /\ Len(work_queue) \in Nat \ {0} /\ Len(work_queue') = Len(work_queue) - 1
        /\ h = work_queue[1] /\ \A k \in 1..Len(work_queue') : work_queue'[k] = work_queue[k + 1]
    BY <2>0, <2>1, HeadTailProperties
  <2>3. Queued(h) /\ ~Running(h) /\ Running(h)' /\ ~Queued(h)'
    <3>1. 1 \in 1..Len(work_queue) /\ work_queue[1] = h
      BY <2>2
    <3>2. Queued(h)
      BY <3>1
    <3>3. ~Running(h)
      BY <3>2, <2>1
    <3>4. Running(h)'
      <4>1. task'[w] = h
        BY <2>1
      <4>2. QED  BY <4>1, Zenon DEF Running
    <3>5. ~Queued(h)'
      <4>1. SUFFICES ASSUME NEW k \in 1..Len(work_queue'), work_queue'[k] = h  PROVE FALSE
        BY Zenon DEF Queued
      <4>2. k + 1 \in 1..Len(work_queue) /\ work_queue[k + 1] = work_queue[1] /\ k + 1 # 1
        BY <4>1, <2>2
      <4>3. QED  BY <4>2, <3>1
    <3>6. QED  BY <3>2, <3>3, <3>4, <3>5
  <2>4. ASSUME NEW x \in Task, x # h  PROVE (Queued(x)' <=> Queued(x)) /\ (Running(x)' <=> Running(x))
    <3>1. Queued(x) => Queued(x)'
      <4>1. SUFFICES ASSUME NEW k \in 1..Len(work_queue), work_queue[k] = x  PROVE Queued(x)'
        OBVIOUS
      <4>2. k - 1 \in 1..Len(work_queue') /\ work_queue'[k - 1] = x
        BY <4>1, <2>2, <2>4
      <4>3. QED  BY <4>2
    <3>2. Queued(x)' => Queued(x)
      <4>1. SUFFICES ASSUME NEW k \in 1..Len(work_queue'), work_queue'[k] = x  PROVE Queued(x)
        OBVIOUS
      <4>2. k + 1 \in 1..Len(work_queue) /\ work_queue[k + 1] = x
        BY <4>1, <2>2
      <4>3. QED  BY <4>2
    <3>3. QED  BY <3>1, <3>2, <2>1, <2>4
  <2>5. \A k, l \in 1..Len(work_queue') : work_queue'[k] = work_queue'[l] => k = l
    BY <2>2
  <2>6. \A u, v \in Worker : task'[u] = task'[v] /\ task'[u] # Null => u = v
    BY <2>1, <2>3
  <2>7. QED  BY <2>1, <2>3, <2>4, <2>5, <2>6
<1>5. ASSUME NEW w \in Worker, Finish(w)  PROVE PlaceInv'
  <2>0. PICK y \in Task : y = task[w]
    BY <1>5 DEF Finish, PhaseInv
  <2>1. /\ y = task[w] /\ task' = [task EXCEPT ![w] = Null] /\ work_queue' = work_queue
        /\ fut' = [fut EXCEPT ![y] = "ready"]
    BY <1>5, <2>0 DEF Finish
  <2>2. ~Queued(y)' /\ ~Running(y)'
    <3>1. Running(y)
      BY <2>1
    <3>2. ~Queued(y)
      BY <3>1, <2>1
    <3>3. ~Running(y)'
      <4>1. SUFFICES ASSUME NEW v \in Worker, task'[v] = y  PROVE FALSE
        BY Zenon DEF Running
      <4>2. v # w /\ task[v] = task[w] /\ task[v] # Null
        BY <4>1, <2>1
      <4>3. QED  BY <4>2
    <3>4. QED  BY <3>2, <3>3, <2>1
  <2>3. \A x \in Task : x # y => (Queued(x)' <=> Queued(x)) /\ (Running(x)' <=> Running(x))
    BY <2>1
  <2>4. QED  BY <2>1, <2>2, <2>3
<1>6. ASSUME NEW t \in Thread, NEW y \in Task, Submit(t, y)  PROVE PlaceInv'
  <2>1. /\ fut[y] = "none" /\ fut' = [fut EXCEPT ![y] = "pending"]
        /\ work_queue' = Append(work_queue, y) /\ task' = task
    BY <1>6 DEF Submit
  <2>2. /\ Len(work_queue) \in Nat /\ Len(work_queue') = Len(work_queue) + 1
        /\ work_queue'[Len(work_queue) + 1] = y
        /\ \A k \in 1..Len(work_queue) : work_queue'[k] = work_queue[k]
    BY <2>1, AppendProperties
  <2>3. ~Queued(y) /\ ~Running(y) /\ Queued(y)'
    BY <2>1, <2>2
  <2>4. \A x \in Task : (Running(x)' <=> Running(x)) /\ (x # y => (Queued(x)' <=> Queued(x)))
    BY <2>1, <2>2
  <2>5. \A k, l \in 1..Len(work_queue') : work_queue'[k] = work_queue'[l] => k = l
    <3>1. \A k \in 1..Len(work_queue) : work_queue'[k] # y
      BY <2>2, <2>3
    <3>2. SUFFICES ASSUME NEW k \in 1..Len(work_queue'), NEW l \in 1..Len(work_queue'),
                          work_queue'[k] = work_queue'[l]
                   PROVE k = l
      OBVIOUS
    <3>3. CASE k \in 1..Len(work_queue) /\ l \in 1..Len(work_queue)
      BY <3>2, <3>3, <2>2
    <3>4. CASE k = Len(work_queue) + 1 \/ l = Len(work_queue) + 1
      BY <3>1, <3>2, <3>4, <2>2
    <3>5. QED  BY <3>3, <3>4, <2>2
  <2>6. \A x \in Task : fut'[x] = "pending" <=> Queued(x)' \/ Running(x)'
    BY <2>1, <2>3, <2>4
  <2>7. \A x \in Task : ~(Queued(x)' /\ Running(x)')
    BY <2>3, <2>4
  <2>8. QED  BY <2>1, <2>5, <2>6, <2>7
<1>7. CASE UNCHANGED vars
  BY <1>7 DEF vars
<1>8. ASSUME NEW w \in Worker, WorkerStep(w)  PROVE PlaceInv'
  BY <1>3, <1>4, <1>5, <1>6, <1>8, Zenon DEF WorkerStep, Thread
<1>9. CASE \E x \in Task : Submit(Owner, x)
  BY <1>6, <1>9, Zenon DEF Thread
<1> HIDE DEF IInv, TypeOK, PlaceInv, Queued, Running, Goto
<1>10. QED
  <2>1. CASE OwnerStep
    BY <1>1, <1>2, <2>1
  <2>2. CASE Choose
    BY <1>1, <1>9, <2>2 DEF Choose
  <2>3. QED  BY <1>7, <1>8, <2>1, <2>2, Zenon DEF Next

\* A task is running only until the workers are joined, and what is still
\* queued then loses its promise with the queue.
LEMMA SettledStep == IInv /\ [Next]_vars => FuturesSettled'
<1> SUFFICES ASSUME IInv, [Next]_vars, pc'[Owner] = "gone", NEW x \in Task  PROVE fut'[x] # "pending"
  BY DEF FuturesSettled
<1> USE DEF IInv, TypeOK, Goto
<1>1. CASE pc[Owner] = "gone"
  <2>1. ~Queued(x) /\ ~Running(x)
    BY <1>1 DEF FuturesSettled, PlaceInv
  <2>2. fut[x] # "pending" /\ \A w \in Worker : pc[w] \notin {"pop", "run"}
    BY <1>1 DEF FuturesSettled, PhaseInv, MembersAlive
  <2>3. QED
    BY <1>1, <2>2 DEF Next, OwnerStep, WorkerStep, Choose, Worker, Thread, vars, CreateThread,
       CreateThreadFails, CtorDone, Close, Join, FreeQueue, CheckDone, Pop, Yield, Finish, Terminate,
       Submit, Submits
<1>2. CASE FreeQueue
  <2>1. fut'[x] = IF Queued(x) THEN "broken" ELSE fut[x]
    BY <1>2, Zenon DEF FreeQueue, Queued
  <2>2. ~Running(x)
    BY <1>2 DEF FreeQueue, PhaseInv, MembersAlive, Running
  <2>3. QED  BY <2>1, <2>2 DEF PlaceInv
<1>3. pc[Owner] # "gone" => FreeQueue
  BY DEF Next, OwnerStep, WorkerStep, Choose, Worker, Thread, vars, CreateThread, CreateThreadFails,
     CtorDone, Close, Join, CheckDone, Pop, Yield, Finish, Terminate, Submit
<1>4. QED  BY <1>1, <1>2, <1>3

\* It holds when the owner enters the constructor.
LEMMA Initially == Init => IInv
<1> SUFFICES ASSUME Init  PROVE IInv
  OBVIOUS
<1>1. /\ pc \in [Thread -> PcLabel] /\ pc[Owner] = "ctor" /\ ~done /\ threads = 0
      /\ \A w \in Worker : w # Owner /\ w >= 0 /\ pc[w] = "none" /\ task[w] = Null
  <2>1. Owner \in Thread /\ \A w \in Worker : w \in Nat /\ w \in Thread /\ w # Owner
    BY DEF Worker, Thread
  <2>2. pc = [t \in Thread |-> IF t = Owner THEN "ctor" ELSE "none"]
    BY DEF Init
  <2>3. \A w \in Worker : task[w] = Null
    BY DEF Init
  <2>4. pc \in [Thread -> PcLabel] /\ pc[Owner] = "ctor" /\ \A w \in Worker : pc[w] = "none"
    BY <2>1, <2>2 DEF PcLabel
  <2>5. ~done /\ threads = 0
    BY DEF Init
  <2>6. QED  BY <2>1, <2>3, <2>4, <2>5
<1>2. PhaseInv
  BY <1>1 DEF PhaseInv, MembersAlive
<1>3. PlaceInv
  BY DEF Init, PlaceInv, Queued, Running
<1>4. FuturesSettled
  BY DEF Init, FuturesSettled
<1>5. TypeOK
  <2>1. withResult \in BOOLEAN /\ done \in BOOLEAN
    BY Zenon DEF Init
  <2>2. threads \in 0..ThreadCount
    BY <1>1
  <2>3. work_queue \in Seq(Task)
    BY DEF Init
  <2>4. task \in [Worker -> Task \cup {Null}]
    BY DEF Init
  <2>5. fut \in [Task -> {"none", "pending", "ready", "broken"}]
    BY DEF Init
  <2>6. QED  BY <1>1, <2>1, <2>2, <2>3, <2>4, <2>5, Zenon DEF TypeOK
<1>6. QED  BY <1>2, <1>3, <1>4, <1>5 DEF IInv

\* The inductive invariant: who is where in every phase of the pool, and a
\* pending task is in exactly one place.
THEOREM Invariance == Spec => []IInv
<1>1. IInv /\ [Next]_vars => IInv'
  BY TypeStep, PhaseStep, PlaceStep, SettledStep DEF IInv
<1>2. QED  BY <1>1, Initially, PTL DEF Spec

\* No more threads are started than the machine has.
THEOREM TypeCorrect == Spec => []TypeOK
<1>1. IInv => TypeOK
  BY DEF IInv
<1>2. QED  BY <1>1, Invariance, PTL

\* No worker outlives the queue, wherever the constructor was interrupted.
THEOREM MembersOutlive == Spec => []MembersAlive
<1>1. IInv => MembersAlive
  BY DEF IInv, PhaseInv
<1>2. QED  BY <1>1, Invariance, PTL

\* No future is pending once the pool is gone.
THEOREM NoFutureForgotten == Spec => []FuturesSettled
<1>1. IInv => FuturesSettled
  BY DEF IInv
<1>2. QED  BY <1>1, Invariance, PTL

-----------------------------------------------------------------------------
(* Refinement *)

\* As long as pending tasks are in their place, none is lost.
LEMMA NoneLost ==
  /\ PlaceInv => absStatus = [x \in Task |-> IF Running(x) THEN "running" ELSE StatusOf[fut[x]]]
  /\ PlaceInv' => absStatus' = [x \in Task |-> IF Running(x)' THEN "running" ELSE StatusOf[fut'[x]]]
<1>1. ASSUME PlaceInv
      PROVE  absStatus = [x \in Task |-> IF Running(x) THEN "running" ELSE StatusOf[fut[x]]]
  <2>1. \A x \in Task : ~Running(x) => ~Lost(x)
    BY <1>1 DEF PlaceInv, Lost
  <2>2. QED  BY <2>1 DEF absStatus
<1>2. ASSUME PlaceInv'
      PROVE  absStatus' = [x \in Task |-> IF Running(x)' THEN "running" ELSE StatusOf[fut'[x]]]
  <2>1. \A x \in Task : ~Running(x)' => ~Lost(x)'
    BY <1>2 DEF PlaceInv, Lost
  <2>2. absStatus' = [x \in Task |-> IF Running(x)' THEN "running"
                                     ELSE IF Lost(x)' THEN "lost" ELSE StatusOf[fut'[x]]]
    BY Zenon DEF absStatus, StatusOf
  <2>3. QED  BY <2>1, <2>2
<1>3. QED  BY <1>1, <1>2

\* What a step leaves alone: when no task changes its place and the owner
\* stays in its phase, TaskPool sees nothing.
LEMMA Stutter ==
  ASSUME IInv, IInv', fut' = fut, \A x \in Task : Running(x)' <=> Running(x), absPhase' = absPhase
  PROVE  UNCHANGED <<absStatus, absPhase>>
<1>1. IInv => PlaceInv
  BY DEF IInv
<1>2. IInv' => PlaceInv'
  BY DEF IInv
<1>3. QED  BY <1>1, <1>2, NoneLost

\* Every step is one of TaskPool's or changes nothing it sees.
LEMMA StepRefines == IInv /\ [Next]_vars => [Pool!Next]_<<absStatus, absPhase>>
<1> SUFFICES ASSUME IInv, [Next]_vars  PROVE [Pool!Next]_<<absStatus, absPhase>>
  OBVIOUS
<1> DEFINE Goal == Pool!Next \/ UNCHANGED <<absStatus, absPhase>>
<1>a. /\ absStatus = [x \in Task |-> IF Running(x) THEN "running" ELSE StatusOf[fut[x]]]
      /\ absStatus' = [x \in Task |-> IF Running(x)' THEN "running" ELSE StatusOf[fut'[x]]]
  BY PlaceStep, NoneLost DEF IInv
<1>k. IInv'
  BY TypeStep, PhaseStep, PlaceStep, SettledStep DEF IInv
<1>1. CASE CreateThread \/ CreateThreadFails \/ CtorDone
  <2>1. fut' = fut /\ task' = task /\ done' = done /\ pc[Owner] = "ctor"
    BY <1>1 DEF CreateThread, CreateThreadFails, CtorDone, Goto
  <2>2. pc'[Owner] \in {"ctor", "catch", "open"}
    <3>1. threads # Owner /\ Owner \in Thread /\ pc \in [Thread -> PcLabel]
      BY DEF IInv, TypeOK, Thread
    <3>2. QED  BY <1>1, <2>1, <3>1 DEF CreateThread, CreateThreadFails, CtorDone, Goto
  <2>3. absPhase' = absPhase
    BY <2>1, <2>2 DEF absPhase
  <2>4. QED  BY <1>k, <2>1, <2>3, Stutter DEF Running
<1>2. CASE Close
  <2>1. fut' = fut /\ task' = task /\ done' = TRUE /\ pc[Owner] \in {"open", "catch"} /\ pc'[Owner] = "join"
    BY <1>2 DEF Close, Goto, IInv, TypeOK, Thread
  <2>2. absPhase = "open" /\ absPhase' = "closing"
    BY <2>1 DEF absPhase, IInv, PhaseInv
  <2>3. absStatus' = absStatus
    BY <1>a, <2>1 DEF Running
  <2>4. QED  BY <2>2, <2>3 DEF Pool!Next, Pool!Close
<1>3. CASE Join
  <2>1. fut' = fut /\ task' = task /\ done' = done /\ pc[Owner] = "join" /\ pc'[Owner] = "free_queue"
    BY <1>3 DEF Join, Goto, IInv, TypeOK, Thread
  <2>2. absPhase = "closing" /\ absPhase' = "closed"
    BY <2>1 DEF absPhase, IInv, PhaseInv
  <2>3. absStatus' = absStatus
    BY <1>a, <2>1 DEF Running
  <2>4. \A w \in Worker : task[w] = Null
    <3>1. \A w \in Worker : pc[w] \in {"none", "exit"}
      BY <1>3, <2>1 DEF Join, IInv, PhaseInv, TypeOK, Worker
    <3>2. QED  BY <3>1 DEF IInv, PhaseInv
  <2>5. \A x \in Task : ~Running(x) /\ absStatus[x] # "running"
    BY <1>a, <2>4 DEF Running, StatusOf, IInv, TypeOK
  <2>6. QED  BY <2>2, <2>3, <2>5 DEF Pool!Next, Pool!Closed
<1>4. CASE FreeQueue
  <2>1. task' = task /\ done' = done /\ pc[Owner] = "free_queue" /\ pc'[Owner] = "gone"
    BY <1>4 DEF FreeQueue, Goto, IInv, TypeOK, Thread
  <2>2. absPhase = "closed" /\ absPhase' = "closed"
    BY <2>1 DEF absPhase
  <2>3. fut' = [x \in Task |-> IF Queued(x) THEN "broken" ELSE fut[x]]
    BY <1>4, Zenon DEF FreeQueue, Queued
  <2>4. \A x \in Task : ~Running(x) /\ ~Running(x)'
    BY <2>1 DEF Running, IInv, PhaseInv, MembersAlive
  <2> DEFINE X == {x \in Task : Queued(x)}
  <2>5. X \in SUBSET {x \in Task : absStatus[x] = "queued"}
    BY <1>a, <2>4 DEF IInv, PlaceInv, StatusOf
  <2>6. absStatus' = [x \in Task |-> IF x \in X THEN "dropped" ELSE absStatus[x]]
    BY <1>a, <2>3, <2>4 DEF StatusOf
  <2> HIDE DEF X
  <2>7. QED  BY <2>2, <2>5, <2>6 DEF Pool!Next, Pool!Drop
<1>5. ASSUME NEW w \in Worker, CheckDone(w) \/ Yield(w) \/ Terminate(w)  PROVE Goal
  <2>1. fut' = fut /\ task' = task /\ done' = done
    BY <1>5 DEF CheckDone, Yield, Terminate
  <2>2. w # Owner /\ pc[Owner] \in PcLabel
    BY DEF Worker, Thread, IInv, TypeOK
  <2>3. CASE CheckDone(w) \/ Yield(w)
    <3>1. pc'[Owner] = pc[Owner]
      BY <2>2, <2>3 DEF CheckDone, Yield, Goto, IInv, TypeOK, Worker, Thread
    <3>2. QED  BY <1>k, <2>1, <3>1, Stutter DEF absPhase, Running
  <2>4. CASE Terminate(w)
    <3>1. pc'[Owner] = "terminated" /\ pc[Owner] \notin {"free_queue", "gone"}
      BY <2>4 DEF Terminate, Thread, IInv, PhaseInv, MembersAlive
    <3>2. QED  BY <1>k, <2>1, <3>1, Stutter DEF absPhase, Running
  <2>5. QED  BY <1>5, <2>3, <2>4
<1>6. ASSUME NEW w \in Worker, Pop(w)  PROVE Goal
  <2>1. PICK h \in Task : /\ h = Head(work_queue) /\ Queued(h)
                          /\ task[w] = Null /\ task' = [task EXCEPT ![w] = h]
    <3>1. /\ work_queue # <<>> /\ Head(work_queue) \in Task /\ Head(work_queue) = work_queue[1]
          /\ 1 \in 1..Len(work_queue)
      BY <1>6, HeadTailProperties DEF Pop, IInv, TypeOK
    <3>2. QED  BY <1>6, <3>1 DEF Pop, Queued, IInv, PhaseInv, TypeOK, Goto, Worker, Thread
  <2>2. fut' = fut /\ done' = done /\ pc'[Owner] = pc[Owner] /\ pc[Owner] \notin {"free_queue", "gone"}
    BY <1>6 DEF Pop, Goto, IInv, TypeOK, PhaseInv, MembersAlive, Worker, Thread
  <2>3. absPhase' = absPhase /\ absPhase # "closed"
    BY <2>2 DEF absPhase
  <2>4. ~Running(h) /\ fut[h] = "pending"
    BY <2>1 DEF IInv, PlaceInv
  <2>5. \A x \in Task : Running(x)' <=> x = h \/ Running(x)
    BY <2>1 DEF Running, IInv, TypeOK
  <2>6. absStatus[h] = "queued" /\ absStatus' = [absStatus EXCEPT ![h] = "running"]
    BY <1>a, <2>2, <2>4, <2>5 DEF StatusOf
  <2>7. QED  BY <2>3, <2>6 DEF Pool!Next, Pool!Begin, Pool!Move
<1>7. ASSUME NEW w \in Worker, Finish(w)  PROVE Goal
  <2>1. PICK y \in Task : y = task[w]
    BY <1>7 DEF Finish, Goto, IInv, PhaseInv, TypeOK
  <2>2. /\ task' = [task EXCEPT ![w] = Null] /\ fut' = [fut EXCEPT ![y] = "ready"] /\ done' = done
        /\ pc'[Owner] = pc[Owner]
    BY <1>7, <2>1 DEF Finish, Goto, IInv, TypeOK, Worker, Thread
  <2>3. absPhase' = absPhase
    BY <2>2 DEF absPhase
  <2>4. Running(y) /\ \A v \in Worker : task[v] = y => v = w
    BY <2>1 DEF Running, IInv, PlaceInv
  <2>5. \A x \in Task : Running(x)' <=> x # y /\ Running(x)
    BY <2>1, <2>2, <2>4 DEF Running, IInv, TypeOK
  <2>6. absStatus[y] = "running" /\ absStatus' = [absStatus EXCEPT ![y] = "done"]
    BY <1>a, <2>2, <2>4, <2>5 DEF StatusOf, IInv, TypeOK
  <2>7. QED  BY <2>3, <2>6 DEF Pool!Next, Pool!Finish, Pool!Move
<1>8. ASSUME NEW t \in Thread, NEW y \in Task, Submit(t, y)  PROVE Goal
  <2>1. /\ fut[y] = "none" /\ fut' = [fut EXCEPT ![y] = "pending"] /\ task' = task /\ done' = done /\ pc' = pc
    BY <1>8 DEF Submit
  <2>2. pc[Owner] \notin {"free_queue", "gone"}
    BY <1>8 DEF Submit, Submits, IInv, PhaseInv, MembersAlive, Thread, Worker
  <2>3. absPhase' = absPhase /\ absPhase # "closed"
    BY <2>1, <2>2 DEF absPhase
  <2>4. ~Running(y) /\ \A x \in Task : Running(x)' <=> Running(x)
    BY <2>1 DEF Running, IInv, PlaceInv
  <2>5. absStatus[y] = "new" /\ absStatus' = [absStatus EXCEPT ![y] = "queued"]
    BY <1>a, <2>1, <2>4 DEF StatusOf, IInv, TypeOK
  <2>6. QED  BY <2>3, <2>5 DEF Pool!Next, Pool!Submit, Pool!Move
<1>9. CASE UNCHANGED vars
  BY <1>k, <1>9, Stutter DEF vars, Running, absPhase
<1>10. ASSUME NEW w \in Worker, WorkerStep(w)  PROVE Goal
  BY <1>5, <1>6, <1>7, <1>8, <1>10, Zenon DEF WorkerStep, Thread
<1>11. CASE OwnerStep
  BY <1>1, <1>2, <1>3, <1>4, <1>11, Zenon DEF OwnerStep
<1>12. CASE Choose
  BY <1>2, <1>8, <1>12, Zenon DEF Choose, Thread
<1>13. QED  BY <1>9, <1>10, <1>11, <1>12, Zenon DEF Next

\* The pool runs every task at most once and drops none while it is open.
THEOREM Refinement == Spec => ImplementsTaskPool
<1>1. Init => Pool!Init
  <2> SUFFICES ASSUME Init  PROVE Pool!Init
    OBVIOUS
  <2>1. IInv
    BY Initially
  <2>2. \A x \in Task : fut[x] = "none" /\ ~Running(x)
    BY DEF Init, Running
  <2>3. absStatus = [x \in Task |-> "new"]
    BY <2>2, Initially, NoneLost DEF IInv, StatusOf
  <2>4. absPhase = "open"
    BY <2>1 DEF Init, absPhase, IInv, PhaseInv, Thread
  <2>5. QED  BY <2>3, <2>4 DEF Pool!Init
<1>2. IInv /\ [Next]_vars => [Pool!Next]_<<absStatus, absPhase>>
  BY StepRefines
<1>3. QED  BY <1>1, <1>2, Invariance, PTL DEF Spec, ImplementsTaskPool, Pool!Spec, Pool!vars
=============================================================================
