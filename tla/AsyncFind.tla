----------------------------- MODULE AsyncFind -----------------------------
(***************************************************************************)
(* parallel_find_async: a call halves its range until it is short, gives   *)
(* the right half to std::async() and searches the left one itself.  A     *)
(* flag that all calls share stops the others as soon as one has found     *)
(* something or thrown.                                                    *)
(*                                                                         *)
(* A call is named by its range <<first, last>>; the ranges of one search  *)
(* differ.  A call that finds nothing returns its last.                    *)
(***************************************************************************)
EXTENDS Integers

CONSTANTS MinPerThread,  \* min_per_thread; 25 in the code
          MaxLength      \* bound of the model: the longest range

ASSUME MinAssumption == MinPerThread \in Nat \ {0}
ASSUME BoundAssumption == MaxLength \in Nat

Range == {r \in (0..MaxLength) \X (0..MaxLength) : r[1] <= r[2]}

VARIABLES
  length, bad, match,  \* the search: bad are the elements whose == throws
  pc,       \* pc[r]: what the call for range r does next
  first,    \* first[r]: the element it has come to
  res,      \* res[r]: its result
  done,     \* the flag
  outcome   \* what parallel_find_async returns: <<"value", e>> or <<"exception">>

vars == <<length, bad, match, pc, first, res, done, outcome>>
input == <<length, bad, match>>

Elem == 0..length - 1
Root == <<0, length>>

Mid(r) == r[1] + (r[2] - r[1]) \div 2
Left(r) == <<r[1], Mid(r)>>
Right(r) == <<Mid(r), r[2]>>

Init == /\ length \in 0..MaxLength
        /\ bad \in SUBSET Elem /\ match \in SUBSET (Elem \ bad)
        /\ pc = [r \in Range |-> IF r = Root THEN "enter" ELSE "none"]
        /\ first = [r \in Range |-> r[1]]
        /\ res = [r \in Range |-> r[2]]
        /\ done = FALSE
        /\ outcome = <<>>

Goto(r, from, to) == pc[r] = from /\ pc' = [pc EXCEPT ![r] = to]
-----------------------------------------------------------------------------
(* A short range *)

Leaf(r) == r[2] - r[1] < 2 * MinPerThread

Scan(r) == /\ Leaf(r) /\ Goto(r, "enter", "test")
           /\ UNCHANGED <<input, first, res, done, outcome>>

\* Seeded bug: the last element is left out.
TestShort(r) == /\ Goto(r, "test", IF first[r] + 1 >= r[2] \/ done THEN "returned" ELSE "compare")
                /\ UNCHANGED <<input, first, res, done, outcome>>

\* first != last && !done.load()
Test(r) == /\ Goto(r, "test", IF first[r] = r[2] \/ done THEN "returned" ELSE "compare")
           /\ UNCHANGED <<input, first, res, done, outcome>>

\* Seeded bug: the loop does not advance.
CompareStays(r) == /\ Goto(r, "compare", IF first[r] \in bad THEN "catch"
                                         ELSE IF first[r] \in match THEN "found" ELSE "test")
                   /\ UNCHANGED <<input, first, res, done, outcome>>

Compare(r) == /\ Goto(r, "compare", IF first[r] \in bad THEN "catch"
                                    ELSE IF first[r] \in match THEN "found" ELSE "test")
              /\ first' = [first EXCEPT ![r] = IF @ \in bad \cup match THEN @ ELSE @ + 1]
              /\ UNCHANGED <<input, res, done, outcome>>

\* Seeded bug: the handler swallows the exception.
CatchSilent(r) == /\ Goto(r, "catch", "returned")
                  /\ done' = TRUE
                  /\ UNCHANGED <<input, first, res, outcome>>

\* The handler: stop the others, rethrow.
Catch(r) == /\ Goto(r, "catch", "threw")
            /\ done' = TRUE
            /\ UNCHANGED <<input, first, res, outcome>>

Found(r) == /\ Goto(r, "found", "returned")
            /\ done' = TRUE
            /\ res' = [res EXCEPT ![r] = first[r]]
            /\ UNCHANGED <<input, first, outcome>>
-----------------------------------------------------------------------------
(* A long range *)

Ended(r) == pc[r] \in {"returned", "threw"}

\* std::async() starts a thread for the right half, or defers it.
Split(r) == /\ ~Leaf(r) /\ pc[r] = "enter"
            /\ \E s \in {"enter", "deferred"} :
                 pc' = [pc EXCEPT ![r] = "left", ![Left(r)] = "enter", ![Right(r)] = s]
            /\ UNCHANGED <<input, first, res, done, outcome>>

\* left_result == mid_point: nothing there, or interrupted.
LeftEnded(r) == /\ pc[r] = "left" /\ Ended(Left(r))
                /\ Goto(r, "left", IF pc[Left(r)] = "threw" THEN "unwind"
                                   ELSE IF res[Left(r)] = Mid(r) THEN "get" ELSE "drop")
                /\ res' = [res EXCEPT ![r] = IF res[Left(r)] = Mid(r) THEN @ ELSE res[Left(r)]]
                /\ UNCHANGED <<input, first, done, outcome>>

RunDeferred(r) == /\ pc[r] = "get" /\ pc[Right(r)] = "deferred"
                  /\ pc' = [pc EXCEPT ![Right(r)] = "enter"]
                  /\ UNCHANGED <<input, first, res, done, outcome>>

\* right_future.get()
Get(r) == /\ pc[r] = "get" /\ Ended(Right(r))
          /\ Goto(r, "get", IF pc[Right(r)] = "threw" THEN "catch" ELSE "returned")
          /\ res' = [res EXCEPT ![r] = res[Right(r)]]
          /\ UNCHANGED <<input, first, done, outcome>>

\* Seeded bug: the future does not wait in its destructor.
DropDetached(r) == /\ Goto(r, "drop", "returned") \/ Goto(r, "unwind", "catch")
                   /\ UNCHANGED <<input, first, res, done, outcome>>

\* ~future() waits for the right half unless it was deferred.
Drop(r) == /\ Goto(r, "drop", "returned") \/ Goto(r, "unwind", "catch")
           /\ Ended(Right(r)) \/ pc[Right(r)] = "deferred"
           /\ UNCHANGED <<input, first, res, done, outcome>>

\* parallel_find_async() returns, and its local done is gone.
Return == /\ outcome = <<>> /\ Ended(Root)
          /\ outcome' = IF pc[Root] = "threw" THEN <<"exception">> ELSE <<"value", res[Root]>>
          /\ UNCHANGED <<input, pc, first, res, done>>
-----------------------------------------------------------------------------
Step(r) == \/ Scan(r) \/ Test(r) \/ Compare(r) \/ Catch(r) \/ Found(r)
           \/ Split(r) \/ LeftEnded(r) \/ RunDeferred(r) \/ Get(r) \/ Drop(r)

Next == Return \/ \E r \in Range : Step(r)

Spec == Init /\ [][Next]_vars

(* Every thread is scheduled again and again.                              *)
FairSpec == Spec /\ WF_vars(Return) /\ \A r \in Range : WF_vars(Step(r))
-----------------------------------------------------------------------------
(* Properties *)

\* Types; a call never looks at an element behind its range.
TypeOK ==
  /\ length \in 0..MaxLength /\ bad \in SUBSET Elem /\ match \in SUBSET Elem
  /\ pc \in [Range -> {"none", "deferred", "enter", "test", "compare", "catch", "found",
                       "left", "unwind", "get", "drop", "returned", "threw"}]
  /\ first \in [Range -> 0..MaxLength] /\ res \in [Range -> 0..MaxLength]
  /\ \A r \in Range : /\ first[r] \in r[1]..r[2] /\ res[r] \in r[1]..r[2]
                      /\ pc[r] = "compare" => first[r] < r[2]
  /\ done \in BOOLEAN
  /\ outcome \in {<<>>, <<"exception">>} \cup {<<"value", e>> : e \in 0..length}

\* A call that was interrupted returns the end of its range, as one does that
\* found nothing.  Its caller may take it so: there was nothing in the range, or
\* somebody else has found something or thrown.
InterruptedHalf == \A r \in Range :
  pc[r] = "returned" /\ res[r] = r[2] /\ r[1]..r[2] - 1 \cap (match \cup bad) # {} => done

\* What is found, or thrown, is not lost on the way up: the end of the whole
\* range is returned only if nothing matches and no comparison threw.
FindRight ==
  /\ outcome = <<"value", length>> => match = {} /\ bad = {}
  /\ outcome = <<"exception">> => bad # {}
  /\ \A e \in Elem : outcome = <<"value", e>> => e \in match

\* When the search ends no call is left that uses the range or the flag.
NoStragglers == outcome # <<>> =>
  \A r \in Range : pc[r] \in {"none", "deferred", "returned", "threw"}

\* The search ends, with all halves deferred or none.
Ends == <>(outcome # <<>>)
=============================================================================
