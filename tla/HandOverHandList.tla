-------------------------- MODULE HandOverHandList --------------------------
(***************************************************************************)
(* threadsafe_list<T>: a singly linked list with a mutex in every node.  A *)
(* traversal locks the next node before it unlocks the one it stands on,   *)
(* so that traversals follow one another through the list and none         *)
(* overtakes another.                                                      *)
(*                                                                         *)
(* Each step of a thread is one access to what it shares with the others;  *)
(* the two moves that unlink a node, whose mutexes are both held, are one. *)
(* A cell outside live is free and may be allocated again.  find_first_if  *)
(* stands for for_each as well, which makes the same accesses with a       *)
(* predicate that is never true.                                           *)
(***************************************************************************)
EXTENDS Selection

SeqExt == INSTANCE SequencesExt

CONSTANTS Thread, Value, Node, Null,
          Front,   \* the node head_, a member of the list
          Calls    \* Calls[t]: the operations thread t may call

Op == {"push_front", "find_first_if", "remove_if", "empty"}
Cell == Node \cup {Front}

ASSUME NullAssumption == Null \notin Thread \cup Value \cup Cell
ASSUME NodeAssumption == Front \notin Node
ASSUME CallsAssumption == Calls \in [Thread -> SUBSET Op]

VARIABLES
  next,   \* next[n]: the cell n's unique_ptr next points to
  data,   \* data[n]: the value in n
  live,   \* the allocated cells
  mtx,    \* mtx[n]: the thread that holds n's mutex
  pc,     \* pc[t]: the access thread t makes next
  op,     \* op[t]: the operation t is executing
  arg,    \* arg[t]: the value it pushes, the values its predicate accepts
  cur,    \* cur[t]: its local variable current
  nxt,    \* nxt[t]: its local variable next
  own,    \* own[t]: the cell of its local unique_ptr (new_node, old_next)
  chain,  \* history: the cells of the list in order
  seen,   \* history: what t's operation has shown its caller
  ahead   \* history: the cells it will still see if it is to be atomic

heap == <<next, data, live>>
history == <<chain, seen, ahead>>
vars == <<heap, mtx, pc, op, arg, cur, nxt, own, history>>

Init == /\ next = [n \in Cell |-> Null] /\ data = [n \in Node |-> Null] /\ live = {}
        /\ mtx = [n \in Cell |-> Null]
        /\ pc = [t \in Thread |-> "idle"] /\ op = [t \in Thread |-> "none"]
        /\ arg = [t \in Thread |-> {}]
        /\ cur = [t \in Thread |-> Null] /\ nxt = cur /\ own = cur
        /\ chain = <<>> /\ seen = [t \in Thread |-> <<>>] /\ ahead = [t \in Thread |-> {}]

Goto(t, from, to) == pc[t] = from /\ pc' = [pc EXCEPT ![t] = to]

InChain == {chain[k] : k \in DOMAIN chain}

\* A cell's place in the list, and the list without it.
Place(n) == IF n = Front THEN 0 ELSE CHOOSE k \in DOMAIN chain : chain[k] = n
Without(n) == IF n \in InChain THEN SeqExt!RemoveAt(chain, Place(n)) ELSE chain

\* The cells that traversals under way are going to remove, and those of the list
\* without them: what a traversal that starts now is going to see.
Doomed == {n \in Node : \E u \in Thread : op[u] = "remove_if" /\ n \in ahead[u] /\ data[n] \in arg[u]}
Contents == InChain \ Doomed
-----------------------------------------------------------------------------
PushCall(t, v) ==
  /\ "push_front" \in Calls[t] /\ Goto(t, "idle", "lock_front")
  /\ \E n \in Node \ live :
       /\ live' = live \cup {n}
       /\ next' = [next EXCEPT ![n] = Null]
       /\ data' = [data EXCEPT ![n] = v]
       /\ own' = [own EXCEPT ![t] = n]
  /\ op' = [op EXCEPT ![t] = "push_front"] /\ arg' = [arg EXCEPT ![t] = {v}]
  /\ UNCHANGED <<mtx, cur, nxt, history>>

Call(t, o, P) ==
  /\ o \in Calls[t] /\ o # "push_front" /\ Goto(t, "idle", "lock_front")
  /\ op' = [op EXCEPT ![t] = o] /\ arg' = [arg EXCEPT ![t] = P]
  /\ UNCHANGED <<heap, mtx, cur, nxt, own, history>>

\* Every operation begins with head_.mtx.
LockFront(t) ==
  /\ mtx[Front] = Null /\ mtx' = [mtx EXCEPT ![Front] = t]
  /\ Goto(t, "lock_front", CASE op[t] = "push_front" -> "link"
                             [] op[t] = "empty" -> "test_empty"
                             [] OTHER -> "next")
  /\ IF op[t] \in {"find_first_if", "remove_if"}
     THEN cur' = [cur EXCEPT ![t] = Front] /\ ahead' = [ahead EXCEPT ![t] = Contents]
     ELSE UNCHANGED <<cur, ahead>>
  /\ UNCHANGED <<heap, op, arg, nxt, own, chain, seen>>

\* The operation has released its lock; its locals are gone.
Finish(t, from) == /\ Goto(t, from, "return")
                   /\ cur' = [cur EXCEPT ![t] = Null] /\ nxt' = [nxt EXCEPT ![t] = Null]
                   /\ own' = [own EXCEPT ![t] = Null]
                   /\ UNCHANGED <<data, live, op, arg>>

Return(t) == /\ Goto(t, "return", "idle")
             /\ op' = [op EXCEPT ![t] = "none"] /\ arg' = [arg EXCEPT ![t] = {}]
             /\ seen' = [seen EXCEPT ![t] = <<>>] /\ ahead' = [ahead EXCEPT ![t] = {}]
             /\ UNCHANGED <<heap, mtx, cur, nxt, own, chain>>

\* new_node->next = std::move(head_.next)
Link(t) == /\ Goto(t, "link", "set_front")
           /\ next' = [next EXCEPT ![own[t]] = next[Front], ![Front] = Null]
           /\ UNCHANGED <<data, live, mtx, op, arg, cur, nxt, own, history>>

\* head_.next = std::move(new_node)
SetFront(t) == /\ Finish(t, "set_front")
               /\ next' = [next EXCEPT ![Front] = own[t]]
               /\ chain' = <<own[t]>> \o chain
               /\ mtx' = [mtx EXCEPT ![Front] = Null]
               /\ UNCHANGED <<seen, ahead>>

TestEmpty(t) == /\ Finish(t, "test_empty")
                /\ seen' = [seen EXCEPT ![t] = <<next[Front] = Null>>]
                /\ mtx' = [mtx EXCEPT ![Front] = Null]
                /\ UNCHANGED <<next, chain, ahead>>
-----------------------------------------------------------------------------
(* The loop of the traversals: t holds the mutex of cur[t] *)

\* Seeded bug: lk.unlock() comes before the next node is locked.
ReadNextUnlocked(t) == /\ Goto(t, "next", "lock_next") /\ next[cur[t]] # Null
                       /\ nxt' = [nxt EXCEPT ![t] = next[cur[t]]]
                       /\ mtx' = [mtx EXCEPT ![cur[t]] = Null]
                       /\ UNCHANGED <<heap, op, arg, cur, own, history>>

ReadNext(t) == /\ Goto(t, "next", "lock_next") /\ next[cur[t]] # Null
               /\ nxt' = [nxt EXCEPT ![t] = next[cur[t]]]
               /\ UNCHANGED <<heap, mtx, op, arg, cur, own, history>>

\* Seeded bug: the last lock is not released.
AtEndLocked(t) == /\ Finish(t, "next") /\ next[cur[t]] = Null
                  /\ UNCHANGED <<next, mtx, history>>

AtEnd(t) == /\ Finish(t, "next") /\ next[cur[t]] = Null
            /\ mtx' = [mtx EXCEPT ![cur[t]] = Null]
            /\ UNCHANGED <<next, history>>

LockNext(t) == /\ Goto(t, "lock_next", IF op[t] = "remove_if" THEN "test" ELSE "unlock")
               /\ mtx[nxt[t]] = Null /\ mtx' = [mtx EXCEPT ![nxt[t]] = t]
               /\ UNCHANGED <<heap, op, arg, cur, nxt, own, history>>

\* find_first_if lets go of the current node before it calls the predicate ...
Unlock(t) == /\ Goto(t, "unlock", "test")
             /\ mtx' = [mtx EXCEPT ![cur[t]] = Null]
             /\ UNCHANGED <<heap, op, arg, cur, nxt, own, history>>

\* The predicate is called with *next->data.
See(t) == /\ seen' = [seen EXCEPT ![t] = Append(@, data[nxt[t]])]
          /\ ahead' = [ahead EXCEPT ![t] = @ \ {nxt[t]}]

Found(t) == /\ Finish(t, "test") /\ op[t] = "find_first_if" /\ data[nxt[t]] \in arg[t]
            /\ See(t)
            /\ mtx' = [mtx EXCEPT ![nxt[t]] = Null]
            /\ UNCHANGED <<next, chain>>

\* ... and remove_if only now.
Advance(t) == /\ Goto(t, "test", "next") /\ data[nxt[t]] \notin arg[t]
              /\ See(t)
              /\ mtx' = IF op[t] = "remove_if" THEN [mtx EXCEPT ![cur[t]] = Null] ELSE mtx
              /\ cur' = [cur EXCEPT ![t] = nxt[t]] /\ nxt' = [nxt EXCEPT ![t] = Null]
              /\ UNCHANGED <<heap, op, arg, own, chain>>

\* Seeded bug: the node is unlinked without the list behind it.
UnlinkRest(t) ==
  /\ Goto(t, "test", "unlock_dead") /\ op[t] = "remove_if" /\ data[nxt[t]] \in arg[t]
  /\ See(t)
  /\ own' = [own EXCEPT ![t] = nxt[t]]
  /\ next' = [next EXCEPT ![cur[t]] = Null]
  /\ chain' = Without(nxt[t])
  /\ UNCHANGED <<data, live, mtx, op, arg, cur, nxt>>

\* old_next = std::move(current->next); current->next = std::move(next->next)
Unlink(t) ==
  /\ Goto(t, "test", "unlock_dead") /\ op[t] = "remove_if" /\ data[nxt[t]] \in arg[t]
  /\ See(t)
  /\ own' = [own EXCEPT ![t] = nxt[t]]
  /\ next' = [next EXCEPT ![cur[t]] = next[nxt[t]], ![nxt[t]] = Null]
  /\ chain' = Without(nxt[t])
  /\ UNCHANGED <<data, live, mtx, op, arg, cur, nxt>>

UnlockDead(t) == /\ Goto(t, "unlock_dead", "delete")
                 /\ mtx' = [mtx EXCEPT ![nxt[t]] = Null]
                 /\ UNCHANGED <<heap, op, arg, cur, nxt, own, history>>

\* Seeded bug: the removed node is not deleted.
DeleteNothing(t) == /\ Goto(t, "delete", "next")
                    /\ own' = [own EXCEPT ![t] = Null] /\ nxt' = [nxt EXCEPT ![t] = Null]
                    /\ UNCHANGED <<heap, mtx, op, arg, cur, history>>

\* old_next goes out of scope: the node and its mutex are destroyed.
Delete(t) == /\ Goto(t, "delete", "next")
             /\ live' = live \ {own[t]}
             /\ data' = [data EXCEPT ![own[t]] = Null]
             /\ own' = [own EXCEPT ![t] = Null] /\ nxt' = [nxt EXCEPT ![t] = Null]
             /\ UNCHANGED <<next, mtx, op, arg, cur, history>>
-----------------------------------------------------------------------------
Start(t) == \/ \E v \in Value : PushCall(t, v)
            \/ \E o \in {"find_first_if", "remove_if"}, P \in SUBSET Value : Call(t, o, P)
            \/ Call(t, "empty", {})

Step(t) == \/ LockFront(t) \/ Link(t) \/ SetFront(t) \/ TestEmpty(t)
           \/ ReadNext(t) \/ AtEnd(t) \/ LockNext(t) \/ Unlock(t) \/ Found(t)
           \/ Advance(t) \/ Unlink(t) \/ UnlockDead(t) \/ Delete(t) \/ Return(t)

Next == \E t \in Thread : Start(t) \/ Step(t)

Spec == Init /\ [][Next]_vars
-----------------------------------------------------------------------------
(* Properties *)

PcLabel == {"idle", "lock_front", "link", "set_front", "test_empty", "next", "lock_next",
            "unlock", "test", "unlock_dead", "delete", "return"}

\* Types.  A traversal never follows the null pointer at the end of the list.
TypeOK ==
  /\ next \in [Cell -> Node \cup {Null}] /\ data \in [Node -> Value \cup {Null}]
  /\ live \subseteq Node
  /\ mtx \in [Cell -> Thread \cup {Null}]
  /\ pc \in [Thread -> PcLabel] /\ op \in [Thread -> Op \cup {"none"}]
  /\ arg \in [Thread -> SUBSET Value]
  /\ cur \in [Thread -> Cell \cup {Null}]
  /\ nxt \in [Thread -> Node \cup {Null}] /\ own \in [Thread -> Node \cup {Null}]
  /\ chain \in Seq(Node)
  /\ seen \in [Thread -> Seq(Value \cup BOOLEAN)] /\ ahead \in [Thread -> SUBSET Node]
  /\ \A t \in Thread : pc[t] \in {"lock_next", "unlock", "test"} => nxt[t] \in Node

\* Between its two moves a push_front has the list in its own node.
First == LET P == {t \in Thread : pc[t] = "set_front"}
         IN IF P = {} THEN Front ELSE own[CHOOSE t \in P : TRUE]
Path == <<First>> \o chain

\* The types are right.  From head_ the next pointers lead through distinct
\* cells, each with a value, to the end, whatever is being unlinked in the
\* middle; and every allocated cell is in the list or owned by one thread.
ListIntact ==
  /\ TypeOK
  /\ \A k \in DOMAIN Path :
       next[Path[k]] = IF k < Len(Path) THEN Path[k + 1] ELSE Null
  /\ \A k \in DOMAIN chain : data[chain[k]] \in Value
  /\ \A k, n \in DOMAIN chain : chain[k] = chain[n] => k = n
  /\ live = InChain \cup {own[t] : t \in {u \in Thread : own[u] # Null}}
  /\ \A t, u \in Thread : own[t] # Null =>
       own[t] \notin InChain /\ (own[t] = own[u] => t = u)

\* The cells thread t can still access: once find_first_if has unlocked the
\* current node, that node may be deleted, and the pointer may dangle.
Uses(t) == {nxt[t]} \cup IF pc[t] = "test" /\ op[t] = "find_first_if" THEN {} ELSE {cur[t]}

\* A removed node is destroyed with its mutex: at that moment nobody holds the
\* mutex, nobody waits for it, and nobody is going to access the node.
DeadUnreachable ==
  \A t, u \in Thread : pc[t] = "delete" =>
    mtx[own[t]] = Null /\ (t # u => own[t] \notin Uses(u))

\* No overtaking.  A traversal sees exactly the list as it was when it locked
\* head_, without what the removals ahead of it were still going to remove, and
\* sees it in order: no element that was there is missed or taken out of the list
\* before it is seen, and none that was doomed is seen.
SeesSnapshot ==
  \A t \in Thread :
    /\ ahead[t] \subseteq InChain \/ pc[t] = "return"
    /\ pc[t] \in {"lock_next", "unlock", "test"} =>
         nxt[t] \in ahead[t] /\ \A n \in ahead[t] : Place(nxt[t]) <= Place(n)
    /\ pc[t] = "next" /\ next[cur[t]] = Null => ahead[t] = {}

(* The list implements AtomicList: push_front takes effect at head_.next = *)
(* new_node, empty at its test, the traversals when they lock head_.  What *)
(* a traversal under way is going to show its caller is decided there.     *)
InEffect(t) == \/ pc[t] = "return"
               \/ op[t] \in {"find_first_if", "remove_if"} /\ pc[t] # "lock_front"

\* The values in those cells of the list that are in S, in its order.
ValuesOf(S) == LET cells == Select(chain, {k \in DOMAIN chain : chain[k] \in S})
               IN [k \in DOMAIN cells |-> data[cells[k]]]

ToShow(t) == IF op[t] = "find_first_if" THEN UpToFirst(ValuesOf(ahead[t]), arg[t])
             ELSE ValuesOf(ahead[t])

absItems == ValuesOf(Contents)
absOp == [t \in Thread |-> IF InEffect(t) THEN "done" ELSE op[t]]
absArg == [t \in Thread |-> IF InEffect(t) THEN {} ELSE arg[t]]
absRes == [t \in Thread |-> IF InEffect(t) /\ pc[t] # "return" THEN seen[t] \o ToShow(t)
                            ELSE seen[t]]

Atomic == INSTANCE AtomicList WITH items <- absItems, op <- absOp, arg <- absArg, res <- absRes

ImplementsAtomicList == Atomic!Spec

\* The node whose mutex t is to lock.
ToLock(t) == CASE pc[t] = "lock_front" -> {Front} [] pc[t] = "lock_next" -> {nxt[t]} [] OTHER -> {}

\* Threads never wait for each other in a circle: whoever holds the mutex that
\* a thread waits for is inside an operation, and if it waits itself, then for
\* a node further down the list.
NoDeadlock == \A t, u \in Thread : \A n \in ToLock(t) : mtx[n] = u =>
  /\ pc[u] \notin {"idle", "return"}
  /\ \A m \in ToLock(u) : Place(m) > Place(n)
=============================================================================
