-------------------------- MODULE BlockAlgorithms --------------------------
(***************************************************************************)
(* parallel_for_each, parallel_for_each_async, exception_safe_accumulate   *)
(* and parallel_find.  The caller divides the range, starts a thread (or   *)
(* a std::async()) for every block but the last, works on that one itself, *)
(* and collects what the others left: futures, or one promise and a flag.  *)
(*                                                                         *)
(* The elements are their positions in the range.  bad are those where the *)
(* caller's function, its += or its == throws; match those parallel_find   *)
(* looks for.                                                              *)
(***************************************************************************)
EXTENDS Blocks

CONSTANTS Kind,         \* the algorithms to consider
          MaxLength,    \* bound of the model: the longest range
          MaxHardware,  \* bound of the model: std::thread::hardware_concurrency()
          CanThrow      \* whether starting a thread may throw

ASSUME KindAssumption == Kind \subseteq {"for_each", "for_each_async", "accumulate", "find"}
ASSUME BoundAssumption == MaxLength \in Nat /\ MaxHardware \in Nat /\ CanThrow \in BOOLEAN

VARIABLES
  kind, length, hardware, bad, match,  \* the call; these never change
  pc,       \* what the caller does next
  i,        \* the loop variable of its loops over the blocks
  start,    \* block_start
  st,       \* st[b]: what the thread, or the caller, does in block b; then its result
  begin, pos, end, \* begin[b], end[b]: the block; pos[b]: the element it has come to
  count,    \* count[e]: how often f was applied to e, or e was added to the result
  promise,  \* result of parallel_find: not set, <<"value", e>> or <<"exception">>
  flag,     \* done_flag of parallel_find
  outcome   \* what the caller returns, or <<"exception">>

input == <<kind, length, hardware, bad, match>>
caller == <<pc, i, start>>
work == <<st, begin, pos, end>>
vars == <<input, caller, work, count, promise, flag, outcome>>

thread_num == ThreadNum(length, hardware)
block_size == BlockSize(length, hardware)

Elem == 0..length - 1
Block == 0..MaxLength
Last == thread_num - 1  \* the caller's own block

Init == /\ kind \in Kind /\ length \in 0..MaxLength /\ hardware \in 0..MaxHardware
        /\ bad \in SUBSET Elem
        /\ match \in IF kind = "find" THEN SUBSET (Elem \ bad) ELSE {{}}
        /\ pc = "call" /\ i = 0 /\ start = 0
        /\ st = [b \in Block |-> "none"]
        /\ begin = [b \in Block |-> 0] /\ pos = begin /\ end = begin
        /\ count = [e \in 0..MaxLength |-> 0]
        /\ promise = <<>> /\ flag = FALSE /\ outcome = <<>>

Goto(from, to) == pc = from /\ pc' = to
-----------------------------------------------------------------------------
(* The caller divides the range *)

Call == /\ pc = "call"
        /\ IF length = 0 THEN pc' = "return" /\ outcome' = IF kind = "find" THEN <<"last">> ELSE <<"ok">>
           ELSE pc' = "create" /\ UNCHANGED outcome
        /\ UNCHANGED <<input, i, start, work, count, promise, flag>>

\* Block b begins at block_start and ends before e.
Assign(b, e, s) == /\ st' = [st EXCEPT ![b] = s]
                   /\ begin' = [begin EXCEPT ![b] = start]
                   /\ pos' = [pos EXCEPT ![b] = start]
                   /\ end' = [end EXCEPT ![b] = e]

\* Seeded bug: block_start is not advanced.
CreateSameBlock == /\ pc = "create" /\ i < thread_num - 1
                   /\ \E s \in IF kind = "for_each_async" THEN {"run", "deferred"} ELSE {"run"} :
                        Assign(i, start + block_size, s)
                   /\ i' = i + 1
                   /\ UNCHANGED <<input, pc, start, count, promise, flag, outcome>>

\* A thread is started; std::async() may also defer its function.
CreateThread == /\ pc = "create" /\ i < thread_num - 1
                /\ \E s \in IF kind = "for_each_async" THEN {"run", "deferred"} ELSE {"run"} :
                     Assign(i, start + block_size, s)
                /\ i' = i + 1
                /\ start' = start + block_size
                /\ UNCHANGED <<input, pc, count, promise, flag, outcome>>

\* std::thread throws; std::async() defers instead.
CreateFails == /\ CanThrow /\ kind # "for_each_async" /\ i < thread_num - 1
               /\ Goto("create", "join")
               /\ outcome' = <<"exception">>
               /\ UNCHANGED <<input, i, start, work, count, promise, flag>>

BeginOwn == /\ i = thread_num - 1 /\ Goto("create", "own")
            /\ Assign(i, length, "run")
            /\ UNCHANGED <<input, i, start, count, promise, flag, outcome>>
-----------------------------------------------------------------------------
(* The blocks *)

\* std::for_each or std::accumulate, one element after the other; the future
\* gets the result or the exception.
Apply(b) ==
  /\ kind # "find" /\ st[b] = "run"
  /\ IF pos[b] = end[b] THEN st' = [st EXCEPT ![b] = "ready"] /\ UNCHANGED <<pos, count>>
     ELSE IF pos[b] \in bad THEN st' = [st EXCEPT ![b] = "threw"] /\ UNCHANGED <<pos, count>>
     ELSE /\ pos' = [pos EXCEPT ![b] = @ + 1]
          /\ count' = IF kind = "accumulate" THEN count ELSE [count EXCEPT ![pos[b]] = @ + 1]
          /\ UNCHANGED st
  /\ UNCHANGED <<input, caller, begin, end, promise, flag, outcome>>

FindGoto(b, from, to) == st[b] = from /\ st' = [st EXCEPT ![b] = to]

\* The test of the loop: the end of the block, or somebody is done.
Test(b) == /\ kind = "find"
           /\ FindGoto(b, "run", IF pos[b] = end[b] \/ flag THEN "ready" ELSE "compare")
           /\ UNCHANGED <<input, caller, begin, pos, end, count, promise, flag, outcome>>

Compare(b) == /\ FindGoto(b, "compare", IF pos[b] \in bad THEN "catch"
                                        ELSE IF pos[b] \in match THEN "set" ELSE "run")
              /\ pos' = [pos EXCEPT ![b] = IF @ \in bad \cup match THEN @ ELSE @ + 1]
              /\ UNCHANGED <<input, caller, begin, end, count, promise, flag, outcome>>

\* Seeded bug: the flag is stored, but the promise never set.
SetNothing(b) == /\ FindGoto(b, "set", "store")
                 /\ flag' = TRUE
                 /\ UNCHANGED <<input, caller, begin, pos, end, count, promise, outcome>>

\* result->set_value(): throws if the promise is set, which goes to the handler.
SetValue(b) == /\ FindGoto(b, "set", IF promise = <<>> THEN "store" ELSE "catch")
               /\ promise' = IF promise = <<>> THEN <<"value", pos[b]>> ELSE promise
               /\ UNCHANGED <<input, caller, begin, pos, end, count, flag, outcome>>

\* Seeded bug: the handler drops the exception.
DropException(b) == /\ FindGoto(b, "catch", "ready")
                    /\ UNCHANGED <<input, caller, begin, pos, end, count, promise, flag, outcome>>

\* The handler: set_exception() throws too if the promise is set, which is
\* discarded.
SetException(b) == /\ FindGoto(b, "catch", IF promise = <<>> THEN "store" ELSE "ready")
                   /\ promise' = IF promise = <<>> THEN <<"exception">> ELSE promise
                   /\ UNCHANGED <<input, caller, begin, pos, end, count, flag, outcome>>

StoreFlag(b) == /\ FindGoto(b, "store", "ready")
                /\ flag' = TRUE
                /\ UNCHANGED <<input, caller, begin, pos, end, count, promise, outcome>>

WorkOn(b) == \/ Apply(b) \/ Test(b) \/ Compare(b)
             \/ SetValue(b) \/ SetException(b) \/ StoreFlag(b)
-----------------------------------------------------------------------------
(* The caller collects the results *)

Running(b) == st[b] \notin {"none", "deferred", "ready", "threw"}

\* The caller's own block is done: its futures are next, in find and accumulate
\* after the join; an exception is on its way through the destructors.
EndOwn == /\ pc = "own" /\ ~Running(Last)
          /\ IF st[Last] = "threw" THEN pc' = "join" /\ outcome' = <<"exception">> /\ i' = i
             ELSE /\ pc' = CASE kind = "find" -> "join" [] kind = "accumulate" -> "join_all"
                            [] OTHER -> "get"
                  /\ i' = 0
                  /\ UNCHANGED outcome
          /\ UNCHANGED <<input, start, work, count, promise, flag>>

AllEnded == \A b \in Block : b < Last => ~Running(b)

\* accumulate joins its threads before it looks at their futures.
JoinAll == /\ AllEnded /\ Goto("join_all", "get")
           /\ UNCHANGED <<input, i, start, work, count, promise, flag, outcome>>

\* The elements of block b, which its future's value is the sum of, are added.
Sum(b) == begin[b]..pos[b] - 1
Plus(b) == [e \in DOMAIN count |-> count[e] + IF e \in Sum(b) THEN 1 ELSE 0]

\* futures[i].get(): waits, rethrows, or runs a deferred function.
Get == /\ pc = "get" /\ i < thread_num - 1 /\ ~Running(i)
       /\ \/ /\ st[i] = "deferred" /\ st' = [st EXCEPT ![i] = "run"]
             /\ UNCHANGED <<pc, i, count, outcome>>
          \/ /\ st[i] = "threw" /\ pc' = "join" /\ outcome' = <<"exception">>
             /\ UNCHANGED <<i, st, count>>
          \/ /\ st[i] = "ready" /\ i' = i + 1
             /\ count' = IF kind = "accumulate" THEN Plus(i) ELSE count
             /\ UNCHANGED <<pc, st, outcome>>
       /\ UNCHANGED <<input, start, begin, pos, end, promise, flag>>

\* The last block's result is added, and the function returns.
GotAll == /\ i = thread_num - 1 /\ Goto("get", "join")
          /\ count' = IF kind = "accumulate" THEN Plus(Last) ELSE count
          /\ outcome' = <<"ok">>
          /\ UNCHANGED <<input, i, start, work, promise, flag>>

\* Seeded bug: no joiner, the threads are detached.
JoinNobody == /\ Goto("join", IF kind = "find" /\ outcome = <<>> THEN "result" ELSE "return")
              /\ UNCHANGED <<input, i, start, work, count, promise, flag, outcome>>

\* ~join_threads(), and the destructors of futures from std::async(), wait for
\* the blocks that were begun; deferred functions never run.
Join == /\ pc = "join" /\ AllEnded
        /\ pc' = IF kind = "find" /\ outcome = <<>> THEN "result" ELSE "return"
        /\ UNCHANGED <<input, i, start, work, count, promise, flag, outcome>>

\* parallel_find looks at the flag after the join; the future's get() waits for
\* the promise.
Report == /\ Goto("result", "return")
          /\ flag => promise # <<>>
          /\ outcome' = IF flag THEN promise ELSE <<"last">>
          /\ UNCHANGED <<input, i, start, work, count, promise, flag>>
-----------------------------------------------------------------------------
CallerStep == \/ Call \/ CreateThread \/ CreateFails \/ BeginOwn \/ EndOwn
              \/ JoinAll \/ Get \/ GotAll \/ Join \/ Report

Next == CallerStep \/ \E b \in Block : WorkOn(b)

Spec == Init /\ [][Next]_vars

(* The caller and every thread are scheduled again and again.              *)
FairSpec == Spec /\ WF_vars(CallerStep) /\ \A b \in Block : WF_vars(WorkOn(b))
-----------------------------------------------------------------------------
(* Properties *)

\* Types; the blocks stay within the range, one thread for each at most.
TypeOK ==
  /\ kind \in Kind /\ length \in 0..MaxLength /\ hardware \in 0..MaxHardware
  /\ bad \in SUBSET Elem /\ match \in SUBSET Elem
  /\ pc \in {"call", "create", "own", "join_all", "get", "join", "result", "return"}
  /\ i \in 0..MaxLength /\ start \in 0..length
  /\ st \in [Block -> {"none", "deferred", "run", "compare", "set", "catch", "store",
                       "ready", "threw"}]
  /\ begin \in [Block -> 0..length] /\ pos \in [Block -> 0..length] /\ end \in [Block -> 0..length]
  /\ count \in [0..MaxLength -> Nat]
  /\ promise \in {<<>>, <<"exception">>} \cup {<<"value", e>> : e \in Elem}
  /\ flag \in BOOLEAN
  /\ outcome \in {<<>>, <<"exception">>, <<"ok">>, <<"last">>} \cup {<<"value", e>> : e \in Elem}

\* The blocks cover every element once, for every length and number of threads:
\* f is applied to each once before for_each returns, each is in accumulate's
\* result once; when something throws, none twice.
EachOnce == /\ \A e \in Elem : count[e] <= 1
            /\ outcome = <<"ok">> /\ pc # "call" => \A e \in Elem : count[e] = 1 /\ e \notin bad

\* However the call ends, no thread still works on the caller's range, or holds
\* a pointer to the promise and the flag of parallel_find.
NoStragglers == pc \in {"result", "return"} => \A b \in Block : ~Running(b)

\* parallel_find reports a match if it reports a position, and the end only if
\* there is none and no comparison threw, although several threads may have
\* found one and others were interrupted.
FindRight == kind = "find" /\ pc = "return" =>
  CASE outcome = <<"last">> -> match = {} /\ bad = {}
    [] outcome = <<"exception">> -> bad # {} \/ CanThrow
    [] OTHER -> \E e \in match : outcome = <<"value", e>>

\* The call ends; in particular parallel_find never waits for a promise that
\* nobody sets.
Ends == <>(pc = "return")

\* The inductive invariant.  Blocks that were begun are where Blocks says; what
\* a block has come past neither throws nor matches.
Mine(b) == {e \in Elem : begin[b] <= e /\ e < pos[b]}

BlockFact(b) ==
  /\ st[b] = "none" => Mine(b) = {}
  /\ st[b] # "none" => /\ b < thread_num /\ begin[b] <= pos[b] /\ pos[b] <= end[b]
                       /\ begin[b] = BlockStart(length, hardware, b)
                       /\ end[b] = BlockEnd(length, hardware, b)
  /\ st[b] = "deferred" => kind = "for_each_async" /\ b < Last
  /\ st[b] \in {"compare", "set", "catch", "store"} => kind = "find"
  /\ st[b] = "threw" => kind # "find"
  /\ st[b] \in {"compare", "set"} => pos[b] < end[b]
  /\ st[b] = "ready" /\ kind # "find" => pos[b] = end[b]
  /\ Mine(b) \cap (bad \cup match) = {}

BlockInv == \A b \in Block : BlockFact(b)

\* parallel_find's caller waits for the others, to look at the flag.
Searched == pc = "join" /\ outcome = <<>>

\* What the caller knows when it has come to pc: of the loop, of the outcome,
\* of the blocks that were begun, and of those that have ended.
CallerInv ==
  /\ pc \in {"call", "create", "own", "join_all", "get", "result"} => outcome = <<>>
  /\ pc = "return" => outcome # <<>>
  /\ length = 0 => pc \in {"call", "return"}
  /\ pc = "call" => i = 0 /\ start = 0
  /\ pc = "create" => i < thread_num /\ start = BlockStart(length, hardware, i)
  /\ pc \in {"join_all", "get"} => kind # "find"
  /\ pc = "join_all" => i = 0
  /\ pc = "get" => i < thread_num
  /\ pc = "result" \/ Searched => kind = "find"
  /\ outcome = <<"ok">> => kind # "find"
  /\ kind = "find" /\ pc = "join" /\ outcome # <<>> => outcome = <<"exception">> /\ CanThrow

BegunInv ==
  /\ pc = "call" \/ length = 0 => \A b \in Block : st[b] = "none"
  /\ pc = "create" => \A b \in Block : st[b] # "none" <=> b < i
  /\ pc \in {"own", "join_all", "get", "result"} \/ Searched =>
       \A b \in Block : b < thread_num => st[b] # "none"

EndedInv ==
  /\ pc \in {"join_all", "get"} => st[Last] = "ready"
  /\ pc = "get" => \A b \in Block : b < i => st[b] = "ready"
  /\ pc \in {"join", "result", "return"} => \A b \in Block : Running(b) => b < Last
  /\ outcome = <<"ok">> /\ length # 0 => \A b \in Block : b < thread_num => st[b] = "ready"
  /\ NoStragglers

PhaseInv == CallerInv /\ BegunInv /\ EndedInv

\* count is the number of blocks that have come past an element, in accumulate
\* once the block's future has been read.
CountInv ==
  /\ kind \in {"for_each", "for_each_async"} => \A e \in Elem :
       count[e] = IF \E b \in Block : e \in Mine(b) THEN 1 ELSE 0
  /\ kind = "find" => \A e \in Elem : count[e] = 0
  /\ kind = "accumulate" => \A e \in Elem :
       /\ pc \in {"call", "create", "own", "join_all"} => count[e] = 0
       /\ pc = "get" => count[e] = IF \E b \in Block : b < i /\ e \in Mine(b) THEN 1 ELSE 0
  /\ EachOnce

\* The flag follows the promise; who stops early does so for the promise's sake.
FindInv ==
  /\ kind # "find" => match = {}
  /\ \/ promise = <<>>
     \/ promise = <<"exception">> /\ bad # {}
     \/ \E e \in match : promise = <<"value", e>>
  /\ flag => promise # <<>>
  /\ promise # <<>> => flag \/ \E b \in Block : st[b] = "store"
  /\ \A b \in Block : /\ st[b] = "set" => pos[b] \in match
                      /\ st[b] = "catch" => promise # <<>> \/ pos[b] \in bad
                      /\ st[b] = "store" => promise # <<>>
                      /\ st[b] = "ready" /\ kind = "find" => pos[b] = end[b] \/ promise # <<>>
  /\ FindRight

IInv == TypeOK /\ BlockInv /\ PhaseInv /\ CountInv /\ FindInv
=============================================================================
