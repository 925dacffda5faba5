-------------------------- MODULE AsyncFindProofs --------------------------
(* Proofs about AsyncFind, for ranges of any length and any min_per_thread. *)
EXTENDS AsyncFind, TLAPS

USE MinAssumption, BoundAssumption

-----------------------------------------------------------------------------
(* The inductive invariant *)

Active(r) == pc[r] # "none"

\* A call that has divided its range.
Parent(r) == ~Leaf(r) /\ pc[r] \notin {"none", "deferred", "enter"}

In(s, r) == r[1] <= s[1] /\ s[2] <= r[2]
Apart(q, r) == q[2] <= r[1] \/ r[2] <= q[1]

\* The calls form a tree under the whole range: two of them are nested or share no
\* element, and below a call there are its two halves and what lies in one of them.
TreeInv ==
  /\ \A r \in Range : Active(r) => In(r, Root)
  /\ \A r \in Range : Parent(r) => Active(Left(r)) /\ Active(Right(r))
  /\ \A q, r \in Range : Active(q) /\ Active(r) => Apart(q, r) \/ In(q, r) \/ In(r, q)
  /\ \A r, s \in Range : Active(r) /\ Active(s) /\ In(s, r) /\ s # r =>
       Parent(r) /\ (In(s, Left(r)) \/ In(s, Right(r)))

\* What a call that scans its range knows: it has passed nothing of interest.
LeafInv == \A r \in Range :
  /\ pc[r] \in {"none", "deferred", "enter"} => first[r] = r[1]
  /\ pc[r] \in {"none", "deferred", "enter", "test", "compare"} => res[r] = r[2]
  /\ pc[r] \in {"test", "compare", "found"} =>
       Leaf(r) /\ \A e \in r[1]..first[r] - 1 : e \notin match \cup bad
  /\ pc[r] = "found" => first[r] \in match /\ first[r] < r[2]

\* What a call that divided its range knows of its halves.
HalfInv == \A r \in Range :
  /\ pc[r] \in {"left", "unwind", "get", "drop"} => ~Leaf(r)
  /\ pc[r] \in {"unwind", "get", "drop"} => Ended(Left(r))
  /\ pc[r] = "get" => pc[Left(r)] = "returned" /\ res[Left(r)] = Mid(r)
  /\ pc[r] = "drop" => res[r] \in match /\ res[r] # r[2]
  /\ pc[r] = "catch" /\ ~Leaf(r) =>
       Ended(Left(r)) /\ (Ended(Right(r)) \/ pc[Right(r)] = "deferred")

\* A result is the end of the range or matches; and an exception has a cause.
ResultInv == \A r \in Range :
  /\ pc[r] = "returned" => res[r] = r[2] \/ res[r] \in match
  /\ pc[r] \in {"catch", "unwind", "threw"} => bad # {}

\* A call that brings news to its caller.
Carries(r) == pc[r] = "threw" \/ (pc[r] = "returned" /\ res[r] # r[2])

\* When a call ends nothing below it runs, and no news from below is lost.
EndInv == \A r, s \in Range : Ended(r) /\ Active(s) /\ In(s, r) =>
            /\ Ended(s) \/ pc[s] = "deferred"
            /\ Carries(s) => Carries(r)

\* Who raised the flag brings the news.
DoneInv == done => \E r \in Range : Carries(r)

OutcomeInv == outcome # <<>> => Ended(Root)

IInv == /\ TypeOK /\ TreeInv /\ LeafInv /\ HalfInv /\ ResultInv /\ EndInv /\ DoneInv
        /\ OutcomeInv /\ InterruptedHalf /\ FindRight

-----------------------------------------------------------------------------
(* Ranges and their halves *)

\* A range is a pair of bounds in order.
LEMMA RangeType ==
  ASSUME NEW r \in Range
  PROVE  /\ r[1] \in 0..MaxLength /\ r[2] \in 0..MaxLength /\ r[1] <= r[2]
         /\ r = <<r[1], r[2]>>
BY DEF Range

\* Such a pair is a range.
LEMMA PairInRange ==
  ASSUME NEW a \in 0..MaxLength, NEW b \in 0..MaxLength, a <= b
  PROVE  <<a, b>> \in Range /\ <<a, b>>[1] = a /\ <<a, b>>[2] = b
BY DEF Range

\* Ranges with the same bounds are the same.
LEMMA SameRange ==
  ASSUME NEW q \in Range, NEW r \in Range, q[1] = r[1], q[2] = r[2]
  PROVE  q = r
<1>1. q = <<q[1], q[2]>> /\ r = <<r[1], r[2]>>
  BY RangeType
<1>2. QED  BY <1>1

\* The whole range.
LEMMA RootType ==
  ASSUME length \in 0..MaxLength
  PROVE  Root \in Range /\ Root[1] = 0 /\ Root[2] = length
<1>1. 0 \in 0..MaxLength /\ 0 <= length
  OBVIOUS
<1>2. QED  BY <1>1, PairInRange DEF Root

\* Neither half of a long range is empty, and neither is the whole.
LEMMA Halves ==
  ASSUME NEW r \in Range, ~Leaf(r)
  PROVE  /\ Mid(r) \in 0..MaxLength /\ r[1] < Mid(r) /\ Mid(r) < r[2]
         /\ Left(r) \in Range /\ Left(r)[1] = r[1] /\ Left(r)[2] = Mid(r)
         /\ Right(r) \in Range /\ Right(r)[1] = Mid(r) /\ Right(r)[2] = r[2]
         /\ Left(r) # r /\ Right(r) # r /\ Left(r) # Right(r)
<1>1. r[1] \in 0..MaxLength /\ r[2] \in 0..MaxLength
  BY RangeType
<1>2. r[2] - r[1] >= 2
  BY <1>1 DEF Leaf
<1> DEFINE d == r[2] - r[1]
<1>3. d \in Nat /\ d >= 2
  BY <1>1, <1>2
<1> HIDE DEF d
<1>4. d \div 2 >= 1 /\ d \div 2 < d /\ d \div 2 \in Nat
  BY <1>3
<1>5. Mid(r) = r[1] + d \div 2 /\ r[2] = r[1] + d
  BY <1>1 DEF Mid, d
<1>6. Mid(r) \in 0..MaxLength /\ r[1] < Mid(r) /\ Mid(r) < r[2]
  BY <1>1, <1>3, <1>4, <1>5
<1>7. Left(r) \in Range /\ Left(r)[1] = r[1] /\ Left(r)[2] = Mid(r)
  BY <1>1, <1>6, PairInRange DEF Left
<1>8. Right(r) \in Range /\ Right(r)[1] = Mid(r) /\ Right(r)[2] = r[2]
  BY <1>1, <1>6, PairInRange DEF Right
<1>9. Left(r) # r /\ Right(r) # r /\ Left(r) # Right(r)
  BY <1>1, <1>6, <1>7, <1>8
<1>10. QED  BY <1>6, <1>7, <1>8, <1>9

-----------------------------------------------------------------------------
(* The tree of calls *)

\* A step that starts no call and divides none leaves the tree as it is.
LEMMA TreeKept ==
  ASSUME TreeInv, length' = length,
         \A r \in Range : Active(r)' <=> Active(r),
         \A r \in Range : Parent(r)' <=> Parent(r)
  PROVE  TreeInv'
<1>1. \A r \in Range : Active(r)' => In(r, Root')
  BY DEF TreeInv, Root
<1>2. \A r \in Range : Parent(r)' => Active(Left(r))' /\ Active(Right(r))'
  BY Halves DEF TreeInv, Parent
<1>3. \A q, r \in Range : Active(q)' /\ Active(r)' => Apart(q, r) \/ In(q, r) \/ In(r, q)
  BY DEF TreeInv
<1>4. \A r, s \in Range : Active(r)' /\ Active(s)' /\ In(s, r) /\ s # r =>
       Parent(r)' /\ (In(s, Left(r)) \/ In(s, Right(r)))
  BY DEF TreeInv
<1>5. QED  BY <1>1, <1>2, <1>3, <1>4 DEF TreeInv, In, Apart, Left, Right, Mid

\* The halves of a call that has not divided its range are new.
LEMMA HalvesNew ==
  ASSUME TreeInv, NEW r \in Range, ~Leaf(r), pc[r] = "enter"
  PROVE  ~Active(Left(r)) /\ ~Active(Right(r))
<1>1. Left(r) \in Range /\ Right(r) \in Range /\ Left(r) # r /\ Right(r) # r
  BY Halves
<1>2. In(Left(r), r) /\ In(Right(r), r)
  BY Halves, RangeType DEF In
<1>3. Active(r) /\ ~Parent(r)
  BY DEF Active, Parent
<1>4. QED  BY <1>1, <1>2, <1>3 DEF TreeInv

\* What is below a half of a range is below the range.
LEMMA InHalf ==
  ASSUME NEW r \in Range, ~Leaf(r), NEW s \in Range, In(s, Left(r)) \/ In(s, Right(r))
  PROVE  In(s, r)
BY Halves, RangeType DEF In

\* The two halves have nothing in common, and a range is not below its half.
LEMMA HalvesApart ==
  ASSUME NEW r \in Range, ~Leaf(r)
  PROVE  /\ ~In(Left(r), Right(r)) /\ ~In(Right(r), Left(r)) /\ Apart(Left(r), Right(r))
         /\ ~In(r, Left(r)) /\ ~In(r, Right(r))
BY Halves, RangeType DEF In, Apart

\* To be below is an order.
LEMMA InOrder ==
  ASSUME NEW p \in Range, NEW q \in Range, NEW r \in Range
  PROVE  /\ In(p, p)
         /\ In(p, q) /\ In(q, r) => In(p, r)
         /\ In(p, q) /\ In(q, p) => p = q
BY RangeType, SameRange DEF In

\* Split(r) writes three calls.
LEMMA SplitWrites ==
  ASSUME TypeOK, NEW r \in Range, Split(r)
  PROVE  /\ Left(r) \in Range /\ Right(r) \in Range
         /\ pc'[r] = "left" /\ pc'[Left(r)] = "enter" /\ pc'[Right(r)] \in {"enter", "deferred"}
         /\ \A q \in Range \ {r, Left(r), Right(r)} : pc'[q] = pc[q]
<1>1. ~Leaf(r)
  BY DEF Split
<1>2. PICK s \in {"enter", "deferred"} :
        pc' = [pc EXCEPT ![r] = "left", ![Left(r)] = "enter", ![Right(r)] = s]
  BY DEF Split
<1>3. Left(r) \in Range /\ Right(r) \in Range /\ Left(r) # r /\ Right(r) # r /\ Left(r) # Right(r)
  BY <1>1, Halves
<1>4. DOMAIN pc = Range
  BY DEF TypeOK
<1>5. QED  BY <1>2, <1>3, <1>4

\* Dividing a range adds its halves to the tree.
LEMMA SplitTree ==
  ASSUME TypeOK, TreeInv, NEW r \in Range, Split(r)
  PROVE  TreeInv'
<1> DEFINE H == {Left(r), Right(r)}
<1>1. ~Leaf(r) /\ pc[r] = "enter" /\ length' = length
  BY DEF Split, input
<1>2. Active(r) /\ ~Parent(r) /\ \A h \in H : ~Active(h)
  BY <1>1, HalvesNew DEF Active, Parent
<1>3. H \subseteq Range /\ r \notin H
  BY <1>1, Halves
<1>4. \A q \in Range : Active(q)' <=> Active(q) \/ q \in H
  BY SplitWrites, <1>1 DEF Active
<1>5. Parent(r)' /\ \A q \in Range : Parent(q) => Parent(q)'
  BY SplitWrites, <1>1, <1>2 DEF Parent, Leaf, Active
<1>6. \A q \in Range \ {r} : Parent(q)' => Parent(q)
  BY SplitWrites DEF Parent, Leaf
<1>7. \A h \in H : In(h, r)
  BY <1>1, <1>3, InHalf, InOrder
<1>8. \A s \in Range : Active(s) /\ In(s, r) => s = r
  BY <1>2 DEF TreeInv
<1>9. \A h \in H, s \in Range : In(s, h) => In(s, r) /\ s # r
  BY <1>1, InHalf, HalvesApart
<1>10. \A g, h \in H : Apart(g, h) \/ g = h
  BY <1>1, HalvesApart, Halves, RangeType DEF Apart
<1>11. \A g, h \in H : In(g, h) => g = h
  BY <1>1, HalvesApart
<1> HIDE DEF H
<1>12. \A q \in Range : Active(q)' => In(q, Root)'
  <2>1. TypeOK => Root \in Range
    BY RootType DEF TypeOK
  <2>2. \A q \in Range : Active(q)' => In(q, Root)
    BY <1>2, <1>3, <1>4, <1>7, <2>1, InOrder DEF TreeInv
  <2>3. QED  BY <1>1, <2>2 DEF In, Root
<1>13. \A q \in Range : Parent(q)' => Active(Left(q))' /\ Active(Right(q))'
  <2> SUFFICES ASSUME NEW q \in Range, Parent(q)'  PROVE Active(Left(q))' /\ Active(Right(q))'
    OBVIOUS
  <2>1. CASE q = r
    BY <1>3, <1>4, <2>1 DEF H, Left, Right, Mid, Active
  <2>2. CASE q # r
    <3>1. Parent(q) /\ ~Leaf(q)
      BY <1>6, <2>2 DEF Parent
    <3>2. Active(Left(q)) /\ Active(Right(q)) /\ Left(q) \in Range /\ Right(q) \in Range
      BY <3>1, Halves DEF TreeInv
    <3>3. \A x \in Range : Active(x) => pc'[x] # "none"
      BY <1>4 DEF Active
    <3>4. QED  BY <3>2, <3>3 DEF Left, Right, Mid, Active
  <2>3. QED  BY <2>1, <2>2
<1>14. \A q, s \in Range : Active(q)' /\ Active(s)' => Apart(q, s) \/ In(q, s) \/ In(s, q)
  <2>1. \A h \in H, q \in Range : Active(q) => Apart(h, q) \/ In(h, q)
    <3> SUFFICES ASSUME NEW h \in H, NEW q \in Range, Active(q)
                 PROVE  Apart(h, q) \/ In(h, q)
      OBVIOUS
    <3>1. CASE Apart(r, q)
      BY <3>1, <1>3, <1>7, RangeType DEF Apart, In
    <3>2. CASE In(r, q)
      BY <3>2, <1>3, <1>7, InOrder
    <3>3. CASE In(q, r)
      BY <3>3, <1>7, <1>8
    <3>4. QED  BY <1>2, <3>1, <3>2, <3>3 DEF TreeInv
  <2>2. \A p, q : Apart(p, q) <=> Apart(q, p)
    BY DEF Apart
  <2>3. \A h \in H : In(h, h)
    BY <1>3, InOrder
  <2>4. QED
    BY <1>4, <1>10, <2>1, <2>2, <2>3 DEF TreeInv
<1>15. \A q, s \in Range : Active(q)' /\ Active(s)' /\ In(s, q) /\ s # q =>
         Parent(q)' /\ (In(s, Left(q)) \/ In(s, Right(q)))
  <2> SUFFICES ASSUME NEW q \in Range, NEW s \in Range, Active(q)', Active(s)', In(s, q), s # q
               PROVE  Parent(q)' /\ (In(s, Left(q)) \/ In(s, Right(q)))
    OBVIOUS
  <2>1. CASE q \in H
    BY <2>1, <1>4, <1>8, <1>9, <1>11
  <2>2. CASE Active(q) /\ Active(s)
    BY <2>2, <1>5 DEF TreeInv
  <2>3. CASE Active(q) /\ s \in H
    <3>1. CASE q = r
      BY <3>1, <2>3, <1>3, <1>5, InOrder DEF H
    <3>2. CASE q # r
      <4>1. ~Apart(q, r)
        <5>1. s[1] < s[2]
          BY <2>3, <1>1, Halves, RangeType DEF H
        <5>2. QED  BY <5>1, <2>3, <1>7, RangeType DEF Apart, In
      <4>2. In(r, q)
        BY <1>2, <1>8, <2>3, <3>2, <4>1 DEF TreeInv
      <4>3. Parent(q) /\ (In(r, Left(q)) \/ In(r, Right(q))) /\ Left(q) \in Range /\ Right(q) \in Range
        BY <1>2, <2>3, <3>2, <4>2, Halves DEF TreeInv, Parent
      <4>4. QED  BY <2>3, <4>3, <1>5, <1>7, InOrder
    <3>3. QED  BY <3>1, <3>2
  <2>4. QED  BY <1>4, <2>1, <2>2, <2>3
<1>16. QED  BY <1>12, <1>13, <1>14, <1>15 DEF TreeInv, In, Apart, Left, Right, Mid

-----------------------------------------------------------------------------
(* What a step writes *)

\* The steps that neither divide a range nor start a deferred call.
Own(r) == \/ Scan(r) \/ Test(r) \/ Compare(r) \/ Catch(r) \/ Found(r)
          \/ LeftEnded(r) \/ Get(r) \/ Drop(r)

\* They are steps of a call that runs, and change nothing of another.
LEMMA OwnWrites ==
  ASSUME TypeOK, NEW r \in Range, Own(r)
  PROVE  /\ pc[r] \notin {"none", "deferred", "returned", "threw"}
         /\ pc'[r] \notin {"none", "deferred", "enter"}
         /\ pc[r] = "enter" => Leaf(r)
         /\ \A q \in Range \ {r} : pc'[q] = pc[q] /\ first'[q] = first[q] /\ res'[q] = res[q]
         /\ UNCHANGED <<length, bad, match, outcome>>
         /\ done => done'
<1> USE DEF TypeOK, Goto, input
<1>1. CASE Scan(r)       BY <1>1 DEF Scan
<1>2. CASE Test(r)       BY <1>2 DEF Test
<1>3. CASE Compare(r)    BY <1>3 DEF Compare
<1>4. CASE Catch(r)      BY <1>4 DEF Catch
<1>5. CASE Found(r)      BY <1>5 DEF Found
<1>6. CASE LeftEnded(r)  BY <1>6 DEF LeftEnded
<1>7. CASE Get(r)        BY <1>7 DEF Get
<1>8. CASE Drop(r)       BY <1>8 DEF Drop
<1>9. QED  BY <1>1, <1>2, <1>3, <1>4, <1>5, <1>6, <1>7, <1>8 DEF Own

\* A deferred call is started.
LEMMA RunWrites ==
  ASSUME TypeOK, HalfInv, NEW r \in Range, RunDeferred(r)
  PROVE  /\ Right(r) \in Range /\ ~Leaf(r) /\ pc[r] = "get"
         /\ pc[Right(r)] = "deferred" /\ pc'[Right(r)] = "enter"
         /\ \A q \in Range \ {Right(r)} : pc'[q] = pc[q]
         /\ UNCHANGED <<length, bad, match, first, res, done, outcome>>
<1>1. pc[r] = "get" /\ ~Leaf(r)
  BY DEF HalfInv, RunDeferred
<1>2. Right(r) \in Range
  BY <1>1, Halves
<1>3. QED  BY <1>1, <1>2 DEF RunDeferred, TypeOK, input

\* The kinds of step.
LEMMA StepKinds ==
  ASSUME Next
  PROVE  \/ Return
         \/ \E r \in Range : Own(r) \/ Split(r) \/ RunDeferred(r)
BY DEF Next, Step, Own

\* A call that has ended stays as it is.
LEMMA EndedStays ==
  ASSUME TypeOK, TreeInv, HalfInv, Next, NEW q \in Range, Ended(q)
  PROVE  pc'[q] = pc[q] /\ res'[q] = res[q] /\ Ended(q)' /\ (Carries(q)' <=> Carries(q))
<1> SUFFICES pc'[q] = pc[q] /\ res'[q] = res[q]
  BY DEF Ended, Carries
<1>1. CASE Return
  BY <1>1 DEF Return
<1>2. ASSUME NEW r \in Range, Own(r)  PROVE pc'[q] = pc[q] /\ res'[q] = res[q]
  BY <1>2, OwnWrites DEF Ended
<1>3. ASSUME NEW r \in Range, Split(r)  PROVE pc'[q] = pc[q] /\ res'[q] = res[q]
  <2>1. pc[r] = "enter" /\ ~Leaf(r) /\ res' = res
    BY <1>3 DEF Split
  <2>2. ~Active(Left(r)) /\ ~Active(Right(r))
    BY <2>1, HalvesNew
  <2>3. q \notin {r, Left(r), Right(r)}
    BY <2>1, <2>2 DEF Active, Ended
  <2>4. QED  BY <1>3, <2>1, <2>3, SplitWrites
<1>4. ASSUME NEW r \in Range, RunDeferred(r)  PROVE pc'[q] = pc[q] /\ res'[q] = res[q]
  BY <1>4, RunWrites DEF Ended
<1>5. QED  BY <1>1, <1>2, <1>3, <1>4, StepKinds

-----------------------------------------------------------------------------
(* Each part of the invariant, step by step *)

LEMMA TypeStep ==
  ASSUME IInv, Next
  PROVE  TypeOK'
<1> DEFINE S == {"none", "deferred", "enter", "test", "compare", "catch", "found",
                 "left", "unwind", "get", "drop", "returned", "threw"}
           Within(q) == /\ first[q] \in q[1]..q[2] /\ res[q] \in q[1]..q[2]
                        /\ pc[q] = "compare" => first[q] < q[2]
<1>1. TypeOK /\ LeafInv /\ HalfInv
  BY DEF IInv
<1>2. pc \in [Range -> S] /\ \A q \in Range : Within(q)
  BY <1>1 DEF TypeOK
<1>3. UNCHANGED input
  BY DEF Next, Step, Return, Scan, Test, Compare, Catch, Found, Split, LeftEnded, RunDeferred,
         Get, Drop
<1>4. done' \in BOOLEAN
  BY <1>1 DEF TypeOK, Next, Step, Return, Scan, Test, Compare, Catch, Found, Split, LeftEnded,
              RunDeferred, Get, Drop
<1>5. pc' \in [Range -> S]
  <2>1. CASE Return
    BY <1>2, <2>1 DEF Return
  <2>2. ASSUME NEW r \in Range, Step(r)  PROVE pc' \in [Range -> S]
    <3> USE <1>2 DEF Goto
    <3>1. CASE Scan(r)         BY <3>1 DEF Scan
    <3>2. CASE Test(r)         BY <3>2 DEF Test
    <3>3. CASE Compare(r)      BY <3>3 DEF Compare
    <3>4. CASE Catch(r)        BY <3>4 DEF Catch
    <3>5. CASE Found(r)        BY <3>5 DEF Found
    <3>6. CASE Split(r)        BY <3>6 DEF Split
    <3>7. CASE LeftEnded(r)    BY <3>7 DEF LeftEnded
    <3>8. CASE RunDeferred(r)  BY <3>8 DEF RunDeferred
    <3>9. CASE Get(r)          BY <3>9 DEF Get
    <3>10. CASE Drop(r)        BY <3>10 DEF Drop
    <3>11. QED
      BY <2>2, <3>1, <3>2, <3>3, <3>4, <3>5, <3>6, <3>7, <3>8, <3>9, <3>10 DEF Step
  <2>3. QED  BY <2>1, <2>2 DEF Next
<1>6. \A q \in Range : Within(q)'
  <2>1. CASE Return
    BY <1>2, <2>1 DEF Return
  <2>2. ASSUME NEW r \in Range, Own(r)  PROVE \A q \in Range : Within(q)'
    <3>1. \A q \in Range \ {r} : Within(q)'
      BY <1>1, <1>2, <2>2, OwnWrites
    <3> SUFFICES Within(r)'
      BY <3>1
    <3>2. r[1] \in Nat /\ r[2] \in Nat /\ r[1] <= r[2] /\ Within(r)
      BY <1>2, RangeType
    <3>3. first[r] \in Int /\ res[r] \in Int
      BY <3>2
    <3>4. DOMAIN first = Range /\ DOMAIN res = Range
      BY <1>1 DEF TypeOK
    <3> HIDE <1>1, <1>2
    <3> USE <3>2, <3>4 DEF Goto
    <3>5. CASE Scan(r)
      BY <1>2, <3>5 DEF Scan
    <3>6. CASE Test(r)
      BY <1>2, <3>6 DEF Test
    <3>7. CASE Compare(r)
      <4>1. first[r] < r[2]
        BY <3>7 DEF Compare
      <4>2. pc'[r] # "compare" /\ res' = res
        BY <1>2, <3>7 DEF Compare
      <4>3. first'[r] = first[r] \/ first'[r] = first[r] + 1
        BY <3>7 DEF Compare
      <4>4. QED  BY <3>3, <4>1, <4>2, <4>3
    <3>8. CASE Catch(r)
      BY <1>2, <3>8 DEF Catch
    <3>9. CASE Found(r)
      BY <1>2, <3>9 DEF Found
    <3>10. CASE LeftEnded(r)
      <4>1. ~Leaf(r)
        BY <1>1, <3>10 DEF LeftEnded, HalfInv
      <4>2. Within(Left(r))
        BY <1>2, <4>1, Halves
      <4>3. res[Left(r)] \in r[1]..r[2]
        BY <4>1, <4>2, Halves
      <4>4. pc'[r] # "compare" /\ first' = first /\ (res'[r] = res[r] \/ res'[r] = res[Left(r)])
        BY <1>2, <3>10 DEF LeftEnded
      <4>5. QED  BY <4>3, <4>4
    <3>11. CASE Get(r)
      <4>1. ~Leaf(r)
        BY <1>1, <3>11 DEF Get, HalfInv
      <4>2. Within(Right(r))
        BY <1>2, <4>1, Halves
      <4>3. res[Right(r)] \in r[1]..r[2]
        BY <4>1, <4>2, Halves
      <4>4. pc'[r] # "compare" /\ first' = first /\ res'[r] = res[Right(r)]
        BY <1>2, <3>11 DEF Get
      <4>5. QED  BY <4>3, <4>4
    <3>12. CASE Drop(r)
      BY <1>2, <3>12 DEF Drop
    <3>13. QED
      BY <2>2, <3>5, <3>6, <3>7, <3>8, <3>9, <3>10, <3>11, <3>12 DEF Own
  <2>3. ASSUME NEW r \in Range, Split(r)  PROVE \A q \in Range : Within(q)'
    <3>1. \A q \in Range : pc'[q] = "compare" => pc[q] = "compare"
      BY <1>1, <2>3, SplitWrites
    <3>2. first' = first /\ res' = res
      BY <2>3 DEF Split
    <3>3. QED  BY <1>2, <3>1, <3>2
  <2>4. ASSUME NEW r \in Range, RunDeferred(r)  PROVE \A q \in Range : Within(q)'
    <3>1. \A q \in Range : pc'[q] = "compare" => pc[q] = "compare"
      BY <1>1, <2>4, RunWrites
    <3>2. first' = first /\ res' = res
      BY <2>4 DEF RunDeferred
    <3>3. QED  BY <1>2, <3>1, <3>2
  <2>5. QED  BY <2>1, <2>2, <2>3, <2>4, StepKinds
<1>7. outcome' \in {<<>>, <<"exception">>} \cup {<<"value", e>> : e \in 0..length}
  <2>1. CASE Return
    <3>1. res[Root] \in 0..length
      BY <1>1, <1>2, RootType DEF TypeOK
    <3>2. QED  BY <2>1, <3>1 DEF Return
  <2>2. CASE outcome' = outcome
    BY <1>1, <2>2 DEF TypeOK
  <2>3. QED  BY <1>1, <2>1, <2>2, StepKinds, OwnWrites, RunWrites DEF Split
<1>8. first' \in [Range -> 0..MaxLength] /\ res' \in [Range -> 0..MaxLength]
  <2>1. \A q \in Range : first'[q] \in 0..MaxLength /\ res'[q] \in 0..MaxLength
    BY <1>6, RangeType
  <2>2. \E a, b : first' = [q \in Range |-> a[q]] /\ res' = [q \in Range |-> b[q]]
    <3>1. first = [q \in Range |-> first[q]] /\ res = [q \in Range |-> res[q]]
      BY <1>1 DEF TypeOK
    <3>2. \/ first' = first
          \/ \E r \in Range : \E v : first' = [first EXCEPT ![r] = v]
      BY DEF Next, Step, Return, Scan, Test, Compare, Catch, Found, Split, LeftEnded,
             RunDeferred, Get, Drop
    <3>3. \/ res' = res
          \/ \E r \in Range : \E v : res' = [res EXCEPT ![r] = v]
      BY DEF Next, Step, Return, Scan, Test, Compare, Catch, Found, Split, LeftEnded,
             RunDeferred, Get, Drop
    <3>4. first' = [q \in Range |-> first'[q]]
      BY <3>1, <3>2
    <3>5. res' = [q \in Range |-> res'[q]]
      BY <3>1, <3>3
    <3>6. QED  BY <3>4, <3>5
  <2>3. QED  BY <2>1, <2>2
<1>9. QED  BY <1>1, <1>3, <1>4, <1>5, <1>6, <1>7, <1>8 DEF TypeOK, input, Elem

LEMMA TreeStep ==
  ASSUME IInv, Next
  PROVE  TreeInv'
<1>1. TypeOK /\ TreeInv /\ HalfInv
  BY DEF IInv
<1>2. CASE Return
  BY <1>1, <1>2, TreeKept DEF Return, Active, Parent, Leaf, input
<1>3. ASSUME NEW r \in Range, Own(r)  PROVE TreeInv'
  <2>1. \A q \in Range : (Active(q)' <=> Active(q)) /\ (Parent(q)' <=> Parent(q))
    BY <1>1, <1>3, OwnWrites DEF Active, Parent, Leaf
  <2>2. QED  BY <1>1, <1>3, <2>1, OwnWrites, TreeKept
<1>4. ASSUME NEW r \in Range, Split(r)  PROVE TreeInv'
  BY <1>1, <1>4, SplitTree
<1>5. ASSUME NEW r \in Range, RunDeferred(r)  PROVE TreeInv'
  <2>1. \A q \in Range : (Active(q)' <=> Active(q)) /\ (Parent(q)' <=> Parent(q))
    BY <1>1, <1>5, RunWrites DEF Active, Parent, Leaf
  <2>2. QED  BY <1>1, <1>5, <2>1, RunWrites, TreeKept
<1>6. QED  BY <1>2, <1>3, <1>4, <1>5, StepKinds

\* A call has one caller: two that divided their ranges have different right halves.
LEMMA OneCaller ==
  ASSUME TreeInv, NEW q \in Range, NEW r \in Range, Parent(q), Parent(r), Right(q) = Right(r)
  PROVE  q = r
<1>1. ~Leaf(q) /\ ~Leaf(r) /\ Active(q) /\ Active(r)
  BY DEF Parent, Active
<1>2. /\ Left(q) \in Range /\ Right(q) \in Range /\ Left(r) \in Range /\ Right(r) \in Range
      /\ Right(q)[1] < Right(q)[2]
  BY <1>1, Halves
<1>3. In(Right(q), q) /\ In(Right(q), r)
  BY <1>1, <1>2, InHalf, InOrder
<1>4. ~Apart(q, r)
  BY <1>2, <1>3, RangeType DEF Apart, In
<1>5. ASSUME NEW a \in Range, NEW b \in Range, ~Leaf(a), ~Leaf(b), Right(a) = Right(b)
      PROVE  ~In(b, Left(a)) /\ ~In(b, Right(a))
  <2>1. /\ Left(a) \in Range /\ Right(b) \in Range /\ In(Right(b), b) /\ ~In(b, Right(b))
        /\ ~In(Right(a), Left(a))
    BY <1>5, Halves, InHalf, InOrder, HalvesApart
  <2>2. QED  BY <1>5, <2>1, InOrder
<1>6. QED  BY <1>1, <1>4, <1>5 DEF TreeInv

\* A deferred call whose caller has given it up is never started.
LEMMA DeferredStays ==
  ASSUME TypeOK, TreeInv, HalfInv, Next, NEW q \in Range, pc[q] = "catch", ~Leaf(q),
         pc[Right(q)] = "deferred"
  PROVE  pc'[Right(q)] = "deferred"
<1>1. Right(q) \in Range /\ Parent(q) /\ Active(Right(q))
  BY Halves DEF Parent, Active
<1>2. CASE Return
  BY <1>2 DEF Return
<1>3. ASSUME NEW r \in Range, Own(r)  PROVE pc'[Right(q)] = "deferred"
  BY <1>1, <1>3, OwnWrites
<1>4. ASSUME NEW r \in Range, Split(r)  PROVE pc'[Right(q)] = "deferred"
  <2>1. pc[r] = "enter" /\ ~Leaf(r)
    BY <1>4 DEF Split
  <2>2. Right(q) \notin {r, Left(r), Right(r)}
    BY <1>1, <2>1, HalvesNew
  <2>3. QED  BY <1>1, <1>4, <2>2, SplitWrites
<1>5. ASSUME NEW r \in Range, RunDeferred(r)  PROVE pc'[Right(q)] = "deferred"
  <2>1. Parent(r) /\ q # r
    BY <1>5, RunWrites DEF Parent
  <2>2. Right(q) # Right(r)
    BY <1>1, <2>1, OneCaller
  <2>3. QED  BY <1>1, <1>5, <2>2, RunWrites
<1>6. QED  BY <1>2, <1>3, <1>4, <1>5, StepKinds

LEMMA LeafStep ==
  ASSUME IInv, Next
  PROVE  LeafInv'
<1> DEFINE K(q) ==
      /\ pc[q] \in {"none", "deferred", "enter"} => first[q] = q[1]
      /\ pc[q] \in {"none", "deferred", "enter", "test", "compare"} => res[q] = q[2]
      /\ pc[q] \in {"test", "compare", "found"} =>
           Leaf(q) /\ \A e \in q[1]..first[q] - 1 : e \notin match \cup bad
      /\ pc[q] = "found" => first[q] \in match /\ first[q] < q[2]
<1>1. TypeOK /\ TreeInv /\ HalfInv /\ \A q \in Range : K(q)
  BY DEF IInv, LeafInv
<1>2. \A q \in Range : first[q] \in Int
  BY <1>1 DEF TypeOK
<1>3. CASE Return
  BY <1>1, <1>3 DEF Return, input, LeafInv, Leaf
<1>4. ASSUME NEW r \in Range, Own(r)  PROVE \A q \in Range : K(q)'
  <2>1. \A q \in Range \ {r} : K(q)'
    BY <1>1, <1>4, OwnWrites DEF Leaf
  <2> SUFFICES K(r)'
    BY <2>1
  <2>2. r[1] \in Nat /\ r[2] \in Nat /\ first[r] \in Int /\ K(r)
    BY <1>1, <1>2, RangeType
  <2>3. DOMAIN pc = Range /\ DOMAIN first = Range /\ match' = match /\ bad' = bad
    BY <1>1, <1>4, OwnWrites DEF TypeOK
  <2> USE <2>2, <2>3 DEF Goto
  <2>4. CASE Scan(r)
    BY <2>4 DEF Scan, Leaf
  <2>5. CASE Test(r)
    BY <2>5 DEF Test, Leaf
  <2>6. CASE Compare(r)
    <3>1. first[r] < r[2]
      BY <1>1, <2>6 DEF TypeOK, Compare
    <3>2. CASE first[r] \in match \cup bad
      BY <2>6, <3>1, <3>2 DEF Compare, Leaf
    <3>3. CASE first[r] \notin match \cup bad
      <4>1. pc'[r] = "test" /\ first'[r] = first[r] + 1 /\ res' = res /\ pc[r] = "compare"
        BY <2>6, <3>3 DEF Compare
      <4>2. \A e \in r[1]..first'[r] - 1 : e \in r[1]..first[r] - 1 \/ e = first[r]
        BY <4>1
      <4>3. QED  BY <3>3, <4>1, <4>2 DEF Leaf
    <3>4. QED  BY <3>2, <3>3
  <2>7. CASE Catch(r) \/ Found(r) \/ Drop(r)
    BY <2>7 DEF Catch, Found, Drop
  <2>8. CASE LeftEnded(r) \/ Get(r)
    BY <2>8 DEF LeftEnded, Get
  <2>9. QED  BY <1>4, <2>4, <2>5, <2>6, <2>7, <2>8 DEF Own
<1>5. ASSUME NEW r \in Range, Split(r)  PROVE \A q \in Range : K(q)'
  <2>1. pc[r] = "enter" /\ ~Leaf(r) /\ UNCHANGED <<match, bad, first, res>>
    BY <1>5 DEF Split, input
  <2>2. pc[Left(r)] = "none" /\ pc[Right(r)] = "none"
    BY <1>1, <2>1, HalvesNew DEF Active
  <2>3. QED  BY <1>1, <1>5, <2>1, <2>2, SplitWrites DEF Leaf
<1>6. ASSUME NEW r \in Range, RunDeferred(r)  PROVE \A q \in Range : K(q)'
  BY <1>1, <1>6, RunWrites DEF Leaf
<1>7. QED  BY <1>3, <1>4, <1>5, <1>6, StepKinds DEF LeafInv

LEMMA HalfStep ==
  ASSUME IInv, Next
  PROVE  HalfInv'
<1> DEFINE K(q) ==
      /\ pc[q] \in {"left", "unwind", "get", "drop"} => ~Leaf(q)
      /\ pc[q] \in {"unwind", "get", "drop"} => Ended(Left(q))
      /\ pc[q] = "get" => pc[Left(q)] = "returned" /\ res[Left(q)] = Mid(q)
      /\ pc[q] = "drop" => res[q] \in match /\ res[q] # q[2]
      /\ pc[q] = "catch" /\ ~Leaf(q) =>
           Ended(Left(q)) /\ (Ended(Right(q)) \/ pc[Right(q)] = "deferred")
<1>1. TypeOK /\ TreeInv /\ LeafInv /\ ResultInv /\ HalfInv /\ \A q \in Range : K(q)
  BY DEF IInv, HalfInv
<1>2. match' = match
  BY <1>1, OwnWrites, RunWrites, StepKinds DEF Return, Split, input
\* What the others know of their halves stays true.
<1>3. ASSUME NEW q \in Range, pc'[q] = pc[q], res'[q] = res[q]  PROVE K(q)'
  <2>1. CASE Leaf(q)
    <3>1. pc[q] \notin {"left", "unwind", "get", "drop"}
      BY <1>1, <2>1
    <3>2. QED  BY <1>3, <2>1, <3>1 DEF Leaf
  <2>2. CASE ~Leaf(q)
    <3>1. Left(q) \in Range /\ Right(q) \in Range
      BY <2>2, Halves
    <3>2. Ended(Left(q)) => Ended(Left(q))' /\ pc'[Left(q)] = pc[Left(q)] /\ res'[Left(q)] = res[Left(q)]
      BY <1>1, <3>1, EndedStays DEF Left, Mid
    <3>3. Ended(Right(q)) => Ended(Right(q))'
      BY <1>1, <3>1, EndedStays DEF Right, Mid
    <3>4. pc[q] = "catch" /\ pc[Right(q)] = "deferred" => pc'[Right(q)] = "deferred"
      BY <1>1, <2>2, DeferredStays
    <3>5. pc[q] = "get" => pc'[Left(q)] = "returned" /\ res'[Left(q)] = Mid(q)
      BY <1>1, <3>2 DEF Ended
    <3>6. K(q)
      BY <1>1
    <3>7. QED  BY <1>2, <1>3, <2>2, <3>2, <3>3, <3>4, <3>5, <3>6 DEF Leaf, Left, Right, Mid
  <2>3. QED  BY <2>1, <2>2
<1>4. CASE Return
  BY <1>3, <1>4 DEF Return, HalfInv
<1>5. ASSUME NEW r \in Range, Own(r)  PROVE \A q \in Range : K(q)'
  <2>1. \A q \in Range \ {r} : K(q)'
    BY <1>1, <1>3, <1>5, OwnWrites
  <2> SUFFICES K(r)'
    BY <2>1
  <2>2. DOMAIN pc = Range /\ DOMAIN res = Range /\ K(r)
    BY <1>1 DEF TypeOK
  <2> USE <2>2 DEF Goto
  <2>3. CASE Scan(r) \/ Test(r) \/ Found(r) \/ Catch(r)
    BY <2>3 DEF Scan, Test, Found, Catch
  <2>4. CASE Compare(r)
    <3>1. Leaf(r)
      BY <1>1, <2>4 DEF Compare, LeafInv
    <3>2. QED  BY <2>4, <3>1 DEF Compare, Leaf
  <2>5. CASE LeftEnded(r)
    <3>1. ~Leaf(r) /\ Ended(Left(r)) /\ pc'[r] \in {"unwind", "get", "drop"}
      BY <2>5 DEF LeftEnded
    <3>2. /\ Left(r) \in Range /\ Left(r)[1] = r[1] /\ Left(r)[2] = Mid(r)
          /\ Mid(r) < r[2] /\ Mid(r) \in Int /\ r[2] \in Int /\ r[1] \in Int
      BY <3>1, Halves, RangeType
    <3>3. Ended(Left(r))' /\ pc'[Left(r)] = pc[Left(r)] /\ res'[Left(r)] = res[Left(r)]
      BY <1>1, <3>1, <3>2, EndedStays DEF Left, Mid
    <3>4. pc'[r] = "get" => pc[Left(r)] = "returned" /\ res[Left(r)] = Mid(r)
      BY <2>5, <3>1 DEF LeftEnded, Ended
    <3>5. pc'[r] = "drop" =>
            pc[Left(r)] = "returned" /\ res[Left(r)] # Mid(r) /\ res'[r] = res[Left(r)]
      BY <2>5, <3>1 DEF LeftEnded, Ended
    <3>6. pc'[r] = "drop" => res'[r] \in match /\ res'[r] # r[2]
      <4>1. res[Left(r)] \in r[1]..Mid(r)
        BY <1>1, <3>2 DEF TypeOK
      <4>2. pc'[r] = "drop" => res[Left(r)] \in match
        BY <1>1, <3>2, <3>5 DEF ResultInv
      <4>3. QED  BY <3>2, <3>5, <4>1, <4>2
    <3>7. QED
      BY <1>2, <3>1, <3>3, <3>4, <3>6 DEF Leaf, Left, Right, Mid
  <2>6. CASE Get(r)
    <3>1. ~Leaf(r) /\ Ended(Left(r)) /\ Ended(Right(r)) /\ pc'[r] \in {"catch", "returned"}
      BY <2>6 DEF Get
    <3>2. Left(r) \in Range /\ Right(r) \in Range
      BY <3>1, Halves
    <3>3. Ended(Left(r))' /\ Ended(Right(r))'
      BY <1>1, <3>1, <3>2, EndedStays DEF Left, Right, Mid
    <3>4. QED  BY <3>1, <3>3
  <2>7. CASE Drop(r)
    <3>1. /\ ~Leaf(r) /\ Ended(Left(r)) /\ (Ended(Right(r)) \/ pc[Right(r)] = "deferred")
          /\ pc'[r] \in {"catch", "returned"}
      BY <2>7 DEF Drop
    <3>2. Left(r) \in Range /\ Right(r) \in Range /\ Right(r) # r
      BY <3>1, Halves
    <3>3. Ended(Left(r))'
      BY <1>1, <3>1, <3>2, EndedStays DEF Left, Mid
    <3>4. Ended(Right(r)) => Ended(Right(r))'
      BY <1>1, <3>2, EndedStays DEF Right, Mid
    <3>5. pc[Right(r)] = "deferred" => pc'[Right(r)] = "deferred"
      BY <1>1, <1>5, <3>2, OwnWrites
    <3>6. QED  BY <3>1, <3>3, <3>4, <3>5 DEF Right, Mid
  <2>8. QED  BY <1>5, <2>3, <2>4, <2>5, <2>6, <2>7 DEF Own
<1>6. ASSUME NEW r \in Range, Split(r)  PROVE \A q \in Range : K(q)'
  <2>1. ~Leaf(r) /\ res' = res
    BY <1>6 DEF Split
  <2>2. \A q \in Range \ {r, Left(r), Right(r)} : K(q)'
    BY <1>1, <1>3, <1>6, <2>1, SplitWrites
  <2>3. \A q \in {r, Left(r), Right(r)} : K(q)'
    BY <1>1, <1>6, <2>1, SplitWrites DEF Leaf
  <2>4. QED  BY <2>2, <2>3
<1>7. ASSUME NEW r \in Range, RunDeferred(r)  PROVE \A q \in Range : K(q)'
  <2>1. \A q \in Range \ {Right(r)} : K(q)'
    BY <1>1, <1>3, <1>7, RunWrites
  <2>2. K(Right(r))'
    BY <1>1, <1>7, RunWrites
  <2>3. QED  BY <2>1, <2>2
<1>8. QED  BY <1>4, <1>5, <1>6, <1>7, StepKinds DEF HalfInv

LEMMA ResultStep ==
  ASSUME IInv, Next
  PROVE  ResultInv'
<1> DEFINE K(q) == /\ pc[q] = "returned" => res[q] = q[2] \/ res[q] \in match
                   /\ pc[q] \in {"catch", "unwind", "threw"} => bad # {}
<1>1. TypeOK /\ TreeInv /\ LeafInv /\ HalfInv /\ \A q \in Range : K(q)
  BY DEF IInv, ResultInv
<1>2. CASE Return
  BY <1>1, <1>2 DEF Return, input, ResultInv
<1>3. ASSUME NEW r \in Range, Own(r)  PROVE \A q \in Range : K(q)'
  <2>1. \A q \in Range \ {r} : K(q)'
    BY <1>1, <1>3, OwnWrites
  <2> SUFFICES K(r)'
    BY <2>1
  <2>2. DOMAIN pc = Range /\ DOMAIN res = Range /\ K(r) /\ match' = match /\ bad' = bad
    BY <1>1, <1>3, OwnWrites DEF TypeOK
  <2> USE <2>2 DEF Goto
  <2>3. CASE Scan(r) \/ Compare(r) \/ Catch(r)
    BY <2>3 DEF Scan, Compare, Catch
  <2>4. CASE Test(r)
    BY <1>1, <2>4 DEF Test, LeafInv
  <2>5. CASE Found(r)
    BY <1>1, <2>5 DEF Found, LeafInv
  <2>6. CASE LeftEnded(r)
    <3>1. ~Leaf(r) /\ pc'[r] # "returned" /\ (pc'[r] = "unwind" => pc[Left(r)] = "threw")
          /\ pc'[r] \notin {"catch", "threw"}
      BY <1>1, <2>6 DEF LeftEnded, HalfInv
    <3>2. Left(r) \in Range
      BY <3>1, Halves
    <3>3. QED  BY <1>1, <3>1, <3>2
  <2>7. CASE Get(r)
    <3>1. /\ ~Leaf(r) /\ Ended(Right(r)) /\ res'[r] = res[Right(r)]
          /\ pc'[r] = IF pc[Right(r)] = "threw" THEN "catch" ELSE "returned"
      BY <1>1, <2>7 DEF Get, HalfInv
    <3>2. Right(r) \in Range /\ Right(r)[2] = r[2]
      BY <3>1, Halves
    <3>3. K(Right(r))
      BY <1>1, <3>2
    <3>4. QED  BY <3>1, <3>2, <3>3 DEF Ended
  <2>8. CASE Drop(r)
    BY <1>1, <2>8 DEF Drop, HalfInv
  <2>9. QED  BY <1>3, <2>3, <2>4, <2>5, <2>6, <2>7, <2>8 DEF Own
<1>4. ASSUME NEW r \in Range, Split(r)  PROVE \A q \in Range : K(q)'
  BY <1>1, <1>4, SplitWrites DEF Split, input
<1>5. ASSUME NEW r \in Range, RunDeferred(r)  PROVE \A q \in Range : K(q)'
  BY <1>1, <1>5, RunWrites
<1>6. QED  BY <1>2, <1>3, <1>4, <1>5, StepKinds DEF ResultInv

\* When a step ends a call nothing below it runs, and it brings the news from below.
LEMMA OwnEnds ==
  ASSUME IInv, NEW r \in Range, Own(r), Ended(r)',
         NEW s \in Range, Active(s), In(s, r), s # r
  PROVE  /\ Ended(s) \/ pc[s] = "deferred"
         /\ Carries(s) => Carries(r)'
<1>1. TypeOK /\ TreeInv /\ HalfInv /\ LeafInv /\ EndInv
  BY DEF IInv
<1>2. Active(r)
  BY <1>1, OwnWrites DEF Active
<1>3. Parent(r) /\ (In(s, Left(r)) \/ In(s, Right(r))) /\ ~Leaf(r)
  BY <1>1, <1>2 DEF TreeInv, Parent
<1>4. /\ Left(r) \in Range /\ Right(r) \in Range
      /\ Left(r)[2] = Mid(r) /\ Right(r)[2] = r[2]
  BY <1>3, Halves
<1>5. Ended(Left(r)) /\ In(s, Left(r)) =>
        (Ended(s) \/ pc[s] = "deferred") /\ (Carries(s) => Carries(Left(r)))
  BY <1>1, <1>4 DEF EndInv
<1>6. Ended(Right(r)) /\ In(s, Right(r)) =>
        (Ended(s) \/ pc[s] = "deferred") /\ (Carries(s) => Carries(Right(r)))
  BY <1>1, <1>4 DEF EndInv
<1>7. pc[Right(r)] = "deferred" /\ In(s, Right(r)) => s = Right(r)
  BY <1>1, <1>4 DEF TreeInv, Parent, Active
<1>8. DOMAIN pc = Range /\ DOMAIN res = Range
  BY <1>1 DEF TypeOK
<1> USE <1>8 DEF Goto
<1>9. CASE Scan(r) \/ Test(r) \/ Compare(r) \/ Found(r)
  BY <1>1, <1>3, <1>9 DEF Scan, Test, Compare, Found, LeafInv
<1>10. CASE LeftEnded(r)
  BY <1>10 DEF LeftEnded, Ended
<1>11. CASE Catch(r)
  <2>1. Ended(Left(r)) /\ (Ended(Right(r)) \/ pc[Right(r)] = "deferred") /\ pc'[r] = "threw"
    BY <1>1, <1>3, <1>11 DEF Catch, HalfInv
  <2>2. QED  BY <1>3, <1>5, <1>6, <1>7, <2>1 DEF Carries
<1>12. CASE Get(r)
  <2>1. /\ Ended(Right(r)) /\ Ended(Left(r)) /\ res'[r] = res[Right(r)]
        /\ pc[Right(r)] # "threw" /\ pc'[r] = "returned"
        /\ pc[Left(r)] = "returned" /\ res[Left(r)] = Mid(r)
    BY <1>1, <1>12 DEF Get, HalfInv, Ended
  <2>2. ~Carries(Left(r))
    BY <1>4, <2>1 DEF Carries
  <2>3. Carries(Right(r)) => Carries(r)'
    BY <1>4, <2>1 DEF Carries
  <2>4. QED  BY <1>3, <1>5, <1>6, <2>1, <2>2, <2>3
<1>13. CASE Drop(r)
  <2>1. /\ Ended(Left(r)) /\ (Ended(Right(r)) \/ pc[Right(r)] = "deferred")
        /\ pc[r] = "drop" /\ pc'[r] = "returned" /\ res'[r] # r[2]
    BY <1>1, <1>13 DEF Drop, HalfInv, Ended
  <2>2. QED  BY <1>3, <1>5, <1>6, <1>7, <2>1 DEF Carries
<1>14. QED  BY <1>9, <1>10, <1>11, <1>12, <1>13 DEF Own

LEMMA EndStep ==
  ASSUME IInv, Next
  PROVE  EndInv'
<1> DEFINE K(r, s) == /\ Ended(s) \/ pc[s] = "deferred"
                      /\ Carries(s) => Carries(r)
<1>1. TypeOK /\ TreeInv /\ HalfInv /\ EndInv
  BY DEF IInv
<1>2. \A r, s \in Range : Ended(r) /\ Active(s) /\ In(s, r) => K(r, s)
  BY <1>1 DEF EndInv
<1>3. CASE Return
  BY <1>2, <1>3 DEF Return, EndInv, Ended, Active, Carries, In
<1>4. ASSUME NEW r \in Range, Own(r)  PROVE EndInv'
  <2> SUFFICES ASSUME NEW p \in Range, NEW s \in Range, Ended(p)', Active(s)', In(s, p)
               PROVE  K(p, s)'
    BY DEF EndInv, In
  <2>1. pc[r] \notin {"none", "deferred", "returned", "threw"}
    BY <1>1, <1>4, OwnWrites
  <2>2. \A q \in Range \ {r} : pc'[q] = pc[q] /\ res'[q] = res[q]
    BY <1>1, <1>4, OwnWrites
  <2>3. CASE p # r
    <3>1. Ended(p) /\ Active(s)
      BY <2>1, <2>2, <2>3 DEF Ended, Active
    <3>2. s # r
      BY <1>2, <2>1, <3>1 DEF Ended
    <3>3. QED  BY <1>2, <2>2, <2>3, <3>1, <3>2 DEF Ended, Carries
  <2>4. CASE p = r /\ s = r
    BY <2>4
  <2>5. CASE p = r /\ s # r
    <3>1. Active(s) /\ pc'[s] = pc[s] /\ res'[s] = res[s]
      BY <2>2, <2>5 DEF Active
    <3>2. (Ended(s) \/ pc[s] = "deferred") /\ (Carries(s) => Carries(r)')
      BY <1>4, <2>5, <3>1, OwnEnds
    <3>3. QED  BY <2>5, <3>1, <3>2 DEF Ended, Carries
  <2>6. QED  BY <2>3, <2>4, <2>5
<1>5. ASSUME NEW r \in Range, Split(r)  PROVE EndInv'
  <2> DEFINE H == {Left(r), Right(r)}
  <2> SUFFICES ASSUME NEW p \in Range, NEW s \in Range, Ended(p)', Active(s)', In(s, p)
               PROVE  K(p, s)'
    BY DEF EndInv, In
  <2>1. pc[r] = "enter" /\ ~Leaf(r) /\ res' = res
    BY <1>5 DEF Split
  <2>2. p \notin H \cup {r} /\ Ended(p)
    BY <1>1, <1>5, SplitWrites DEF Ended
  <2>3. TreeInv'
    BY <1>1, <1>5, SplitTree
  <2>4. s \notin H \cup {r}
    <3> SUFFICES ASSUME s \in H \cup {r}  PROVE FALSE
      OBVIOUS
    <3>1. Active(r) /\ ~Parent(r) /\ Active(p)
      BY <2>1, <2>2 DEF Active, Parent, Ended
    <3>2. ~In(r, p)
      BY <1>2, <2>1, <2>2, <3>1 DEF Ended
    <3>3. ~In(p, r)
      BY <1>1, <2>2, <3>1 DEF TreeInv
    <3>4. Apart(r, p)
      BY <1>1, <3>1, <3>2, <3>3 DEF TreeInv
    <3>5. In(s, r) /\ s[1] < s[2] /\ s[1] \in Int /\ s[2] \in Int
      BY <2>1, Halves, RangeType DEF In
    <3>6. QED  BY <3>4, <3>5, RangeType DEF Apart, In
  <2>5. pc'[s] = pc[s] /\ pc'[p] = pc[p]
    BY <1>1, <1>5, <2>2, <2>4, SplitWrites
  <2>6. QED  BY <1>2, <2>1, <2>2, <2>5 DEF Ended, Active, Carries
<1>6. ASSUME NEW r \in Range, RunDeferred(r)  PROVE EndInv'
  <2> DEFINE h == Right(r)
  <2> SUFFICES ASSUME NEW p \in Range, NEW s \in Range, Ended(p)', Active(s)', In(s, p)
               PROVE  K(p, s)'
    BY DEF EndInv, In
  <2>1. /\ h \in Range /\ ~Leaf(r) /\ pc[r] = "get" /\ pc[h] = "deferred" /\ pc'[h] = "enter"
        /\ res' = res /\ \A q \in Range \ {h} : pc'[q] = pc[q]
    BY <1>1, <1>6, RunWrites
  <2>2. p # h /\ Ended(p) /\ Active(s)
    BY <2>1 DEF Ended, Active
  <2>3. s # h
    <3> SUFFICES ASSUME s = h  PROVE FALSE
      OBVIOUS
    <3>1. Active(r) /\ Active(p) /\ p # r
      BY <2>1, <2>2 DEF Active, Ended
    <3>2. ~In(r, p)
      BY <1>2, <2>1, <2>2, <3>1 DEF Ended
    <3>3. In(p, r) => In(p, Left(r)) \/ In(p, h)
      BY <1>1, <3>1 DEF TreeInv
    <3>4. ~In(p, h)
      BY <2>1, <2>2, InOrder
    <3>5. ~In(p, Left(r))
      BY <2>1, Halves, HalvesApart, InOrder
    <3>6. Apart(r, p)
      BY <1>1, <3>1, <3>2, <3>3, <3>4, <3>5 DEF TreeInv
    <3>7. In(h, r) /\ h[1] < h[2] /\ h[1] \in Int /\ h[2] \in Int
      BY <2>1, Halves, RangeType DEF In
    <3>8. QED  BY <3>6, <3>7, RangeType DEF Apart, In
  <2>4. QED  BY <1>2, <2>1, <2>2, <2>3 DEF Ended, Active, Carries
<1>7. QED  BY <1>3, <1>4, <1>5, <1>6, StepKinds

LEMMA DoneStep ==
  ASSUME IInv, Next
  PROVE  DoneInv'
<1>1. TypeOK /\ TreeInv /\ HalfInv /\ DoneInv
  BY DEF IInv
<1>2. CASE done' = done
  <2> SUFFICES ASSUME done  PROVE \E q \in Range : Carries(q)'
    BY <1>2 DEF DoneInv
  <2>1. PICK q \in Range : Carries(q)
    BY <1>1 DEF DoneInv
  <2>2. Ended(q)
    BY <2>1 DEF Carries, Ended
  <2>3. QED  BY <1>1, <2>1, <2>2, EndedStays
<1>3. ASSUME NEW r \in Range, Catch(r)  PROVE Carries(r)'
  BY <1>1, <1>3 DEF Catch, Goto, Carries, TypeOK
<1>4. ASSUME NEW r \in Range, Found(r)  PROVE Carries(r)'
  <2>1. pc[r] = "found" /\ pc'[r] = "returned" /\ res'[r] = first[r]
    BY <1>1, <1>4 DEF Found, Goto, TypeOK
  <2>2. first[r] < r[2] /\ first[r] \in Int /\ r[2] \in Int
    BY <1>1, <2>1, RangeType DEF IInv, LeafInv, TypeOK
  <2>3. QED  BY <2>1, <2>2 DEF Carries
<1>5. QED
  BY <1>2, <1>3, <1>4 DEF DoneInv, Next, Step, Return, Scan, Test, Compare, Split, LeftEnded,
                          RunDeferred, Get, Drop

LEMMA OutcomeStep ==
  ASSUME IInv, Next
  PROVE  OutcomeInv'
<1>1. TypeOK /\ TreeInv /\ HalfInv /\ OutcomeInv
  BY DEF IInv
<1>2. Root \in Range
  BY <1>1, RootType DEF TypeOK
<1>3. length' = length /\ (outcome' = outcome \/ Ended(Root))
  BY <1>1, OwnWrites, RunWrites, StepKinds DEF Return, Split, input
<1>4. QED  BY <1>1, <1>2, <1>3, EndedStays DEF OutcomeInv, Root, Ended

LEMMA InterruptedStep ==
  ASSUME IInv, Next
  PROVE  InterruptedHalf'
<1> DEFINE Nothing(q) == \A e \in q[1]..q[2] - 1 : e \notin match \cup bad
           K(q) == pc[q] = "returned" /\ res[q] = q[2] => done \/ Nothing(q)
<1>1. TypeOK /\ TreeInv /\ LeafInv /\ HalfInv
  BY DEF IInv
<1>2. \A q \in Range : K(q)
  BY DEF IInv, InterruptedHalf
<1> SUFFICES \A q \in Range : K(q)'
  BY DEF InterruptedHalf
<1>3. CASE Return
  BY <1>2, <1>3 DEF Return, input
<1>4. ASSUME NEW r \in Range, Own(r)  PROVE \A q \in Range : K(q)'
  <2>1. (done => done') /\ match' = match /\ bad' = bad
    BY <1>1, <1>4, OwnWrites
  <2>2. \A q \in Range \ {r} : K(q)'
    BY <1>1, <1>2, <1>4, <2>1, OwnWrites
  <2> SUFFICES K(r)'
    BY <2>2
  <2>3. DOMAIN pc = Range /\ DOMAIN res = Range
    BY <1>1 DEF TypeOK
  <2> USE <2>1, <2>3 DEF Goto
  <2>4. CASE Scan(r) \/ Compare(r) \/ Catch(r) \/ Found(r)
    BY <2>4 DEF Scan, Compare, Catch, Found
  <2>5. CASE Test(r)
    BY <1>1, <2>5 DEF Test, LeafInv
  <2>6. CASE LeftEnded(r)
    BY <2>6 DEF LeftEnded
  <2>7. CASE Get(r)
    <3> SUFFICES ASSUME pc'[r] = "returned", res'[r] = r[2], ~done'  PROVE Nothing(r)
      BY <2>1
    <3>1. /\ ~Leaf(r) /\ pc[Left(r)] = "returned" /\ res[Left(r)] = Mid(r)
          /\ pc[Right(r)] = "returned" /\ res[Right(r)] = r[2]
      BY <1>1, <2>7 DEF Get, HalfInv, Ended
    <3>2. /\ Left(r) \in Range /\ Left(r)[1] = r[1] /\ Left(r)[2] = Mid(r)
          /\ Right(r) \in Range /\ Right(r)[1] = Mid(r) /\ Right(r)[2] = r[2]
          /\ Mid(r) \in Int /\ r[1] \in Int /\ r[2] \in Int
      BY <3>1, Halves, RangeType
    <3>3. Nothing(Left(r)) /\ Nothing(Right(r))
      BY <1>2, <2>1, <3>1, <3>2
    <3>4. \A e \in r[1]..r[2] - 1 : e \in r[1]..Mid(r) - 1 \/ e \in Mid(r)..r[2] - 1
      BY <3>2
    <3>5. QED  BY <3>2, <3>3, <3>4
  <2>8. CASE Drop(r)
    BY <1>1, <2>8 DEF Drop, HalfInv
  <2>9. QED  BY <1>4, <2>4, <2>5, <2>6, <2>7, <2>8 DEF Own
<1>5. ASSUME NEW r \in Range, Split(r)  PROVE \A q \in Range : K(q)'
  BY <1>1, <1>2, <1>5, SplitWrites DEF Split, input
<1>6. ASSUME NEW r \in Range, RunDeferred(r)  PROVE \A q \in Range : K(q)'
  BY <1>1, <1>2, <1>6, RunWrites
<1>7. QED  BY <1>3, <1>4, <1>5, <1>6, StepKinds

\* Nothing is lost on the way up to the whole range.
LEMMA FindStep ==
  ASSUME IInv, Next
  PROVE  FindRight'
<1>1. /\ TypeOK /\ TreeInv /\ HalfInv /\ ResultInv /\ EndInv /\ DoneInv
      /\ InterruptedHalf /\ FindRight
  BY DEF IInv
<1>2. CASE outcome' = outcome
  <2>1. length' = length /\ match' = match /\ bad' = bad
    BY <1>1, OwnWrites, RunWrites, StepKinds DEF Return, Split, input
  <2>2. QED  BY <1>1, <1>2, <2>1 DEF FindRight, Elem
<1>3. CASE Return
  <2>1. /\ Root \in Range /\ Root[1] = 0 /\ Root[2] = length /\ length \in Nat
        /\ match \subseteq Elem /\ bad \subseteq Elem
    BY <1>1, RootType DEF TypeOK
  <2>2. /\ length' = length /\ match' = match /\ bad' = bad /\ Ended(Root)
        /\ outcome' = IF pc[Root] = "threw" THEN <<"exception">> ELSE <<"value", res[Root]>>
    BY <1>3 DEF Return, input
  <2>3. CASE pc[Root] = "threw"
    <3>1. bad # {}
      BY <1>1, <2>1, <2>3 DEF ResultInv
    <3>2. QED  BY <2>2, <2>3, <3>1 DEF FindRight
  <2>4. CASE pc[Root] # "threw"
    <3>1. pc[Root] = "returned" /\ outcome' = <<"value", res[Root]>>
      BY <2>2, <2>4 DEF Ended
    <3>2. ASSUME res[Root] = length  PROVE match = {} /\ bad = {}
      <4>1. ~Carries(Root)
        BY <2>1, <3>1, <3>2 DEF Carries
      <4>2. \A s \in Range : ~Carries(s)
        <5> SUFFICES ASSUME NEW s \in Range, Carries(s)  PROVE FALSE
          OBVIOUS
        <5>1. Active(s) /\ In(s, Root)
          BY <1>1 DEF Carries, Active, TreeInv
        <5>2. QED  BY <1>1, <2>1, <2>2, <4>1, <5>1 DEF EndInv
      <4>3. ~done
        BY <1>1, <4>2 DEF DoneInv
      <4>4. \A e \in 0..length - 1 : e \notin match \cup bad
        BY <1>1, <2>1, <3>1, <3>2, <4>3 DEF InterruptedHalf
      <4>5. QED  BY <2>1, <4>4 DEF Elem
    <3>3. res[Root] = length \/ res[Root] \in match
      BY <1>1, <2>1, <3>1 DEF ResultInv
    <3>4. \A e : outcome' = <<"value", e>> => e = res[Root]
      BY <3>1
    <3>5. outcome' # <<"exception">>
      BY <3>1
    <3>6. length \notin Elem
      BY <2>1 DEF Elem
    <3>7. QED  BY <2>2, <3>2, <3>3, <3>4, <3>5, <3>6 DEF FindRight, Elem
  <2>5. QED  BY <2>3, <2>4
<1>4. QED
  BY <1>1, <1>2, <1>3, OwnWrites, RunWrites, StepKinds DEF Split

-----------------------------------------------------------------------------
(* The theorems *)

LEMMA InitIInv == Init => IInv
<1> SUFFICES ASSUME Init  PROVE IInv
  OBVIOUS
<1> USE DEF Init
<1>1. /\ Root \in Range /\ Root[1] = 0 /\ Root[2] = length /\ length \in Nat
      /\ match \subseteq Elem /\ bad \subseteq Elem
  BY RootType
<1>2. \A r \in Range : /\ pc[r] = IF r = Root THEN "enter" ELSE "none"
                       /\ first[r] = r[1] /\ res[r] = r[2]
  OBVIOUS
<1>3. TypeOK
  <2>1. \A r \in Range : r[1] \in r[1]..r[2] /\ r[2] \in r[1]..r[2]
                         /\ r[1] \in 0..MaxLength /\ r[2] \in 0..MaxLength
    BY RangeType
  <2>2. first \in [Range -> 0..MaxLength] /\ res \in [Range -> 0..MaxLength]
    BY <2>1
  <2>3. \A r \in Range : /\ first[r] \in r[1]..r[2] /\ res[r] \in r[1]..r[2]
                         /\ pc[r] = "compare" => first[r] < r[2]
    BY <1>2, <2>1
  <2>4. pc \in [Range -> {"none", "enter"}]
    OBVIOUS
  <2>5. /\ length \in 0..MaxLength /\ bad \in SUBSET Elem /\ match \in SUBSET Elem
        /\ done \in BOOLEAN /\ outcome = <<>>
    OBVIOUS
  <2>6. QED
    <3> HIDE DEF Init
    <3>1. pc \in [Range -> {"none", "deferred", "enter", "test", "compare", "catch", "found",
                            "left", "unwind", "get", "drop", "returned", "threw"}]
      BY <2>4
    <3>2. QED  BY <2>2, <2>3, <2>5, <3>1 DEF TypeOK
<1>4. TreeInv
  <2>1. \A r \in Range : Active(r) <=> r = Root
    BY <1>2 DEF Active
  <2>2. \A r \in Range : ~Parent(r)
    BY <1>2 DEF Parent
  <2>3. QED  BY <1>1, <2>1, <2>2, InOrder DEF TreeInv
<1>5. LeafInv /\ HalfInv /\ ResultInv /\ EndInv /\ DoneInv
  BY <1>2 DEF LeafInv, HalfInv, ResultInv, EndInv, DoneInv, Ended
<1>6. OutcomeInv /\ InterruptedHalf /\ FindRight
  BY <1>2 DEF OutcomeInv, InterruptedHalf, FindRight
<1>7. QED  BY <1>3, <1>4, <1>5, <1>6 DEF IInv

LEMMA StutterIInv == IInv /\ UNCHANGED vars => IInv'
BY DEF IInv, vars, TypeOK, TreeInv, LeafInv, HalfInv, ResultInv, EndInv, DoneInv, OutcomeInv,
       InterruptedHalf, FindRight, Elem, Root, Active, Parent, In, Apart, Ended, Carries, Leaf,
       Left, Right, Mid

\* The calls of one search form a tree in which no news is lost: the invariant holds.
THEOREM Inductive == Spec => []IInv
<1>1. IInv /\ [Next]_vars => IInv'
  BY TypeStep, TreeStep, LeafStep, HalfStep, ResultStep, EndStep, DoneStep, OutcomeStep,
     InterruptedStep, FindStep, StutterIInv DEF IInv
<1>2. QED  BY InitIInv, <1>1, PTL DEF Spec

\* parallel_find_async(), each call of it: no call looks behind its range.
THEOREM TypeCorrect == Spec => []TypeOK
BY Inductive, PTL DEF IInv

\* A half that was interrupted, and returns the end of its range, was interrupted by one
\* that raised the flag; its caller never takes it for a search that found nothing alone.
THEOREM AlwaysInterruptedHalf == Spec => []InterruptedHalf
BY Inductive, PTL DEF IInv

\* What parallel_find_async() returns is right: an element that matches, the end only if
\* there is none and nothing threw, an exception only if a comparison threw.
THEOREM AlwaysFindRight == Spec => []FindRight
BY Inductive, PTL DEF IInv

\* When parallel_find_async() returns, no call is left that could use the range or the flag,
\* which are gone.
THEOREM NeverStragglers == Spec => []NoStragglers
<1>1. IInv => NoStragglers
  <2> SUFFICES ASSUME IInv, outcome # <<>>, NEW r \in Range
               PROVE  pc[r] \in {"none", "deferred", "returned", "threw"}
    BY DEF NoStragglers
  <2>1. Root \in Range /\ Ended(Root)
    BY RootType DEF IInv, TypeOK, OutcomeInv
  <2>2. Active(r) => In(r, Root)
    BY DEF IInv, TreeInv
  <2>3. QED  BY <2>1, <2>2 DEF IInv, EndInv, Active, Ended
<1>2. QED  BY Inductive, <1>1, PTL

=============================================================================
