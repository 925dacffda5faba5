------------------------- MODULE ParallelSortProofs -------------------------
(* Proofs about ParallelSort, for any elements, keys and numbers of threads. *)
EXTENDS ParallelSort, SequenceTheorems, FiniteSetTheorems, WellFoundedInduction, TLAPS

-----------------------------------------------------------------------------
(* The inductive invariant.  It speaks of three values, so that a step can be *)
(* taken apart into smaller ones: the stacks s of the threads, the parts q    *)
(* nobody has taken, and the futures v.                                       *)

\* The calls under way: <<t, k>> is the k-th on the stack of thread t.
Live(s) == UNION {{<<t, k>> : k \in DOMAIN s[t]} : t \in Thread}
Fm(s, p) == s[p[1]][p[2]]
Above(p) == <<p[1], p[2] + 1>>
Under(p) == <<p[1], p[2] - 1>>

\* The elements a call sorts.
All(f) == {f.pivot} \cup f.lower \cup f.higher
Inside(s, p, C) == All(Fm(s, p)) \subseteq C

Before == {"submit", "size", "spawn", "append", "higher"}
After == {"wait", "help", "get"}

\* The sequence s holds the elements of C, each once, in order.
IsSort(s, C) ==
  /\ s \in Seq(Elem)
  /\ \A x \in Elem : x \in C <=> \E i \in 1..Len(s) : s[i] = x
  /\ \A i, j \in 1..Len(s) : i < j => s[i] # s[j] /\ Key[s[i]] <= Key[s[j]]

\* A call has partitioned its elements.
ShapeInv(s, C) == \A p \in Live(s) :
  /\ Fm(s, p).pivot \notin Fm(s, p).lower \cup Fm(s, p).higher
  /\ \A x \in Fm(s, p).lower : Key[x] < Key[Fm(s, p).pivot]
  /\ \A x \in Fm(s, p).higher : Key[Fm(s, p).pivot] <= Key[x]
  /\ Inside(s, p, C)

\* Two calls have no element in common, or one of them works on a part of the other.
Within(s, p, q) == Inside(s, p, Fm(s, q).lower) \/ Inside(s, p, Fm(s, q).higher)

TreeInv(s) == \A p, q \in Live(s) : p # q =>
  \/ All(Fm(s, p)) \cap All(Fm(s, q)) = {}
  \/ Within(s, p, q) \/ Within(s, q, p)

\* Whom a call works for: the call whose lower part it took, the one below it on the
\* stack, whose higher part it is, or nobody but the caller of the sort.
LinkInv(s, C) == \A p \in Live(s) :
  IF Fm(s, p).job # Null
  THEN \E q \in Live(s) : Fm(s, q).pivot = Fm(s, p).job /\ All(Fm(s, p)) = Fm(s, q).lower
  ELSE IF p[2] = 1
  THEN p[1] = Main /\ All(Fm(s, p)) = C
  ELSE Fm(s, Under(p)).pc = "higher" /\ All(Fm(s, p)) = Fm(s, Under(p)).higher

\* While somebody sorts the lower part of a call its future is not ready, and nobody
\* else can take it.
LowerInv(s, q, v) == \A p, r \in Live(s) : Inside(s, r, Fm(s, p).lower) =>
  /\ v[Fm(s, p).pivot] = Pending
  /\ Fm(s, p).pc # "submit"
  /\ \A i \in DOMAIN q : q[i].of # Fm(s, p).pivot

\* While somebody sorts the higher part of a call, the call waits below another for it.
HigherInv(s) == \A p, r \in Live(s) : Inside(s, r, Fm(s, p).higher) =>
  Fm(s, p).pc = "higher" /\ Above(p) \in Live(s) /\ Fm(s, Above(p)).job = Null

\* A part that nobody has taken is that of a call, which waits for it.
QueueInv(s, q, v) ==
  /\ \A i \in DOMAIN q : \E p \in Live(s) :
       /\ q[i].of = Fm(s, p).pivot /\ q[i].data = Fm(s, p).lower
       /\ v[Fm(s, p).pivot] = Pending /\ Fm(s, p).pc # "submit"
  /\ \A i, j \in DOMAIN q : q[i].of = q[j].of => i = j

\* Nobody has been the pivot of a call yet in the parts that were not begun.
Fresh(C, v) == \A x \in C : v[x] = Pending

FreshInv(s, q, v) ==
  /\ \A p \in Live(s) : Fm(s, p).pc = "submit" => Fresh(Fm(s, p).lower \cup {Fm(s, p).pivot}, v)
  /\ \A i \in DOMAIN q : Fresh(q[i].data, v)
  /\ \A p \in Live(s) :
       Fm(s, p).pc \in Before /\ (\A r \in Live(s) : ~Inside(s, r, Fm(s, p).higher)) =>
         Fresh(Fm(s, p).higher, v)

\* What is ready is sorted.
ResultInv(s, v) == \A p \in Live(s) :
  /\ Fm(s, p).pc \in Before => Fm(s, p).res = <<>>
  /\ Fm(s, p).pc \in After => IsSort(Fm(s, p).res, Fm(s, p).higher)
  /\ Fm(s, p).pc = "get" => v[Fm(s, p).pivot] # Pending
  /\ v[Fm(s, p).pivot] # Pending => IsSort(v[Fm(s, p).pivot], Fm(s, p).lower)

Types(s, q, v) == /\ s \in [Thread -> Seq(Frame)]
                  /\ q \in Seq([of : Elem, data : SUBSET Elem])
                  /\ v \in [Elem -> Seq(Elem) \cup {Pending}]

StackInv(s, q, v, C) ==
  /\ Types(s, q, v) /\ ShapeInv(s, C) /\ TreeInv(s) /\ LinkInv(s, C) /\ LowerInv(s, q, v)
  /\ HigherInv(s) /\ QueueInv(s, q, v) /\ FreshInv(s, q, v) /\ ResultInv(s, v)

\* What the calling thread knows.
MainInv ==
  /\ main = "call" => Fresh(input, fut) /\ output = <<>>
  /\ main = "call" \/ Ended => queue = <<>> /\ Live(frames) = {}
  /\ main = "sort" => <<Main, 1>> \in Live(frames) /\ frames[Main][1].job = Null
  /\ Ended => IsSort(output, input)

\* A call below another on a stack waits for it.
WaitsBelow(z) == \A k \in 1..Len(z) - 1 : z[k].pc \in {"higher", "wait"}

\* The threads of the sorter, and its mutex.
Starting(s) == {t \in Thread : s[t] # <<>> /\ s[t][Len(s[t])].pc \in {"spawn", "append"}}

ThreadInv ==
  /\ \A w \in Worker : /\ state[w] = "try" => frames[w] = <<>>
                       /\ state[w] # "none" => kind \in {"pool", "chunk"}
  /\ \A t \in Thread : /\ WaitsBelow(frames[t])
                       /\ At(t, "size") \/ At(t, "spawn") \/ At(t, "append") => kind = "chunk"
  /\ mtx # Null => At(mtx, "append")
  /\ threads + Cardinality(Starting(frames)) <= Cardinality(Worker)

IInv == TypeOK /\ StackInv(frames, queue, fut, input) /\ MainInv /\ ThreadInv

-----------------------------------------------------------------------------
(* Sorted sequences *)

\* Nothing is sorted.
LEMMA SortedEmpty == IsSort(<<>>, {})
BY DEF IsSort

\* What quicksort relies on: the sorted lower part, the pivot, the sorted higher part.
LEMMA SortedJoin ==
  ASSUME NEW L \in SUBSET Elem, NEW H \in SUBSET Elem, NEW e \in Elem,
         e \notin L \cup H,
         \A x \in L : Key[x] < Key[e], \A x \in H : Key[e] <= Key[x],
         NEW a, NEW b, IsSort(a, L), IsSort(b, H)
  PROVE  IsSort(a \o <<e>> \o b, {e} \cup L \cup H)
<1> DEFINE m == a \o <<e>>
           s == m \o b
           C == {e} \cup L \cup H
<1>1. a \in Seq(Elem) /\ b \in Seq(Elem) /\ <<e>> \in Seq(Elem)
  BY DEF IsSort
<1>2. m \in Seq(Elem) /\ Len(m) = Len(a) + 1 /\ \A i \in 1..Len(m) : m[i] = IF i <= Len(a) THEN a[i] ELSE e
  BY <1>1, ConcatProperties
<1>3. s \in Seq(Elem) /\ Len(s) = Len(m) + Len(b)
      /\ \A i \in 1..Len(s) : s[i] = IF i <= Len(m) THEN m[i] ELSE b[i - Len(m)]
  <2> HIDE DEF m
  <2>1. QED  BY <1>1, <1>2, ConcatProperties
<1>4. Len(a) \in Nat /\ Len(b) \in Nat
  BY <1>1
<1>5. /\ Len(s) = Len(a) + 1 + Len(b)
      /\ \A i \in 1..Len(a) : s[i] = a[i]
      /\ s[Len(a) + 1] = e
      /\ \A i \in 1..Len(b) : s[Len(a) + 1 + i] = b[i]
  <2> HIDE DEF m, s
  <2>1. QED  BY <1>2, <1>3, <1>4
<1> HIDE DEF m, s
<1>6. \A i \in 1..Len(s) : \/ i \in 1..Len(a)
                         \/ i = Len(a) + 1
                         \/ \E j \in 1..Len(b) : i = Len(a) + 1 + j
  <2> SUFFICES ASSUME NEW i \in 1..Len(s), i > Len(a) + 1
               PROVE  \E j \in 1..Len(b) : i = Len(a) + 1 + j
    BY <1>4, <1>5
  <2>1. i - Len(a) - 1 \in 1..Len(b) /\ i = Len(a) + 1 + (i - Len(a) - 1)
    BY <1>4, <1>5
  <2>2. QED  BY <2>1
<1>7. /\ \A x \in Elem : x \in L <=> \E i \in 1..Len(a) : a[i] = x
      /\ \A x \in Elem : x \in H <=> \E i \in 1..Len(b) : b[i] = x
      /\ \A i \in 1..Len(a) : a[i] \in L
      /\ \A i \in 1..Len(b) : b[i] \in H
  BY <1>1, ElementOfSeq DEF IsSort
<1>8. \A x \in Elem : x \in C <=> \E i \in 1..Len(s) : s[i] = x
  <2> TAKE x \in Elem
  <2>1. ASSUME x \in C  PROVE \E i \in 1..Len(s) : s[i] = x
    <3>1. CASE x \in L
      <4>1. PICK i \in 1..Len(a) : a[i] = x
        BY <1>7, <3>1
      <4>2. i \in 1..Len(s) /\ s[i] = x
        BY <1>4, <1>5, <4>1
      <4>3. QED  BY <4>2
    <3>2. CASE x = e
      BY <1>4, <1>5, <3>2
    <3>3. CASE x \in H
      <4>1. PICK i \in 1..Len(b) : b[i] = x
        BY <1>7, <3>3
      <4>2. Len(a) + 1 + i \in 1..Len(s) /\ s[Len(a) + 1 + i] = x
        BY <1>4, <1>5, <4>1
      <4>3. QED  BY <4>2
    <3>4. QED  BY <2>1, <3>1, <3>2, <3>3
  <2>2. ASSUME NEW i \in 1..Len(s), s[i] = x  PROVE x \in C
    <3>1. CASE i \in 1..Len(a)
      BY <1>5, <1>7, <2>2, <3>1
    <3>2. CASE i = Len(a) + 1
      BY <1>5, <2>2, <3>2
    <3>3. CASE \E j \in 1..Len(b) : i = Len(a) + 1 + j
      BY <1>5, <1>7, <2>2, <3>3
    <3>4. QED  BY <1>6, <3>1, <3>2, <3>3
  <2>3. QED  BY <2>1, <2>2
<1>9. \A i, j \in 1..Len(s) : i < j => s[i] # s[j] /\ Key[s[i]] <= Key[s[j]]
  <2> SUFFICES ASSUME NEW i \in 1..Len(s), NEW j \in 1..Len(s), i < j
               PROVE  s[i] # s[j] /\ Key[s[i]] <= Key[s[j]]
    OBVIOUS
  <2>1. \A x \in Elem : Key[x] \in Nat
    BY KeyAssumption
  <2>2. \A x \in L, y \in H : x # y /\ Key[x] <= Key[y] /\ x # e /\ y # e
    <3> TAKE x \in L, y \in H
    <3>1. Key[x] < Key[e] /\ Key[e] <= Key[y] /\ Key[x] \in Nat /\ Key[y] \in Nat /\ Key[e] \in Nat
      BY <2>1
    <3>2. QED  BY <3>1
  <2>3. \A x \in L : x # e /\ Key[x] <= Key[e]
    BY <2>1
  <2>4. CASE i \in 1..Len(a)
    <3>1. CASE j \in 1..Len(a)
      <4>1. s[i] = a[i] /\ s[j] = a[j]
        BY <1>5, <2>4, <3>1
      <4>2. QED  BY <2>4, <3>1, <4>1 DEF IsSort
    <3>2. CASE j = Len(a) + 1
      BY <1>5, <1>7, <2>3, <2>4, <3>2
    <3>3. CASE \E k \in 1..Len(b) : j = Len(a) + 1 + k
      <4>1. PICK k \in 1..Len(b) : j = Len(a) + 1 + k
        BY <3>3
      <4>2. s[i] = a[i] /\ s[j] = b[k] /\ a[i] \in L /\ b[k] \in H
        BY <1>5, <1>7, <2>4, <4>1
      <4>3. QED  BY <2>2, <4>2
    <3>4. QED  BY <1>6, <3>1, <3>2, <3>3
  <2>5. CASE i = Len(a) + 1
    <3>1. PICK k \in 1..Len(b) : j = Len(a) + 1 + k
      BY <1>4, <1>6, <2>5
    <3>2. b[k] \in H /\ s[j] = b[k] /\ s[i] = e
      BY <1>5, <1>7, <2>5, <3>1
    <3>3. QED  BY <3>2
  <2>6. CASE \E k \in 1..Len(b) : i = Len(a) + 1 + k
    <3>1. PICK k \in 1..Len(b) : i = Len(a) + 1 + k
      BY <2>6
    <3>2. PICK l \in 1..Len(b) : j = Len(a) + 1 + l
      BY <1>4, <1>6, <3>1
    <3>3. k < l
      BY <1>4, <3>1, <3>2
    <3>4. s[i] = b[k] /\ s[j] = b[l]
      BY <1>5, <3>1, <3>2
    <3>5. QED  BY <3>3, <3>4 DEF IsSort
  <2>7. QED  BY <1>6, <2>4, <2>5, <2>6
<1>10. QED  BY <1>3, <1>8, <1>9 DEF IsSort, s, m

\* The length of such a sequence is the number of elements.
LEMMA SortedLength ==
  ASSUME NEW C \in SUBSET Elem, NEW s, IsSort(s, C)
  PROVE  Len(s) = Cardinality(C) /\ {s[k] : k \in DOMAIN s} = C
<1>1. s \in Seq(Elem) /\ Len(s) \in Nat /\ DOMAIN s = 1..Len(s)
  BY DEF IsSort
<1>2. \A k \in 1..Len(s) : s[k] \in C
  BY <1>1, ElementOfSeq DEF IsSort
<1>3. \A x \in C : \E k \in 1..Len(s) : s[k] = x
  BY DEF IsSort
<1>4. \A i, j \in 1..Len(s) : s[i] = s[j] => i = j
  BY <1>1 DEF IsSort
<1> DEFINE b == [k \in 1..Len(s) |-> s[k]]
<1>5. b \in Bijection(1..Len(s), C)
  <2>1. b \in [1..Len(s) -> C]
    BY <1>2
  <2>2. QED  BY <1>3, <1>4, <2>1 DEF Bijection, Injection, Surjection, IsInjective
<1>6. ExistsBijection(1..Len(s), C)
  BY <1>5 DEF ExistsBijection
<1>7. QED  BY <1>1, <1>2, <1>3, <1>6, FS_CountingElements

-----------------------------------------------------------------------------
(* Stacks and the positions on them *)

Stacks == [Thread -> Seq(Frame)]
TopPos(s, t) == <<t, Len(s[t])>>
NewPos(s, t) == <<t, Len(s[t]) + 1>>

\* The fields of a frame, and of one that went on.
LEMMA Fields ==
  ASSUME NEW f \in Frame
  PROVE  /\ f.pivot \in Elem /\ f.job \in Elem \cup {Null} /\ f.res \in Seq(Elem)
         /\ f.lower \subseteq Elem /\ f.higher \subseteq Elem /\ All(f) \subseteq Elem
         /\ f.pivot \in All(f)
         /\ f.pc \in {"submit", "size", "spawn", "append", "higher", "wait", "help", "get"}
BY DEF Frame, All

LEMMA GoesOn ==
  ASSUME NEW f \in Frame,
         NEW c \in {"submit", "size", "spawn", "append", "higher", "wait", "help", "get"}
  PROVE  /\ [f EXCEPT !.pc = c] \in Frame
         /\ [f EXCEPT !.pc = c].pc = c /\ [f EXCEPT !.pc = c].res = f.res
         /\ [f EXCEPT !.pc = c].pivot = f.pivot /\ [f EXCEPT !.pc = c].job = f.job
         /\ [f EXCEPT !.pc = c].lower = f.lower /\ [f EXCEPT !.pc = c].higher = f.higher
BY DEF Frame

\* A position is live if it is on the stack of a thread.
LEMMA LivePos ==
  ASSUME NEW s \in Stacks, NEW p \in Live(s)
  PROVE  /\ p[1] \in Thread /\ Len(s[p[1]]) \in Nat /\ p[2] \in 1..Len(s[p[1]])
         /\ p = <<p[1], p[2]>> /\ Fm(s, p) \in Frame
<1>1. PICK t \in Thread : p \in {<<t, k>> : k \in DOMAIN s[t]}
  BY DEF Live
<1>2. PICK k \in DOMAIN s[t] : p = <<t, k>>
  BY <1>1
<1>3. s[t] \in Seq(Frame) /\ DOMAIN s[t] = 1..Len(s[t]) /\ Len(s[t]) \in Nat
  BY DEF Stacks
<1>4. s[t][k] \in Frame
  BY <1>2, <1>3, ElementOfSeq
<1>5. QED  BY <1>2, <1>3, <1>4 DEF Fm

LEMMA PosLive ==
  ASSUME NEW s \in Stacks, NEW t \in Thread, NEW k \in 1..Len(s[t])
  PROVE  <<t, k>> \in Live(s) /\ Fm(s, <<t, k>>) = s[t][k] /\ <<t, k>>[1] = t /\ <<t, k>>[2] = k
BY DEF Live, Stacks, Fm

\* What is below a live position is live; the top of a stack has nothing above it.
LEMMA Neighbours ==
  ASSUME NEW s \in Stacks, NEW p \in Live(s)
  PROVE  /\ Above(p) # p /\ Under(Above(p)) = p
         /\ p[2] # 1 => Under(p) \in Live(s) /\ Above(Under(p)) = p
         /\ \A r \in Live(s) : Above(p) = Above(r) => p = r
         /\ s[p[1]] # <<>>
         /\ Above(p) \notin Live(s) => p = TopPos(s, p[1])
<1>1. /\ p[1] \in Thread /\ Len(s[p[1]]) \in Nat /\ p[2] \in 1..Len(s[p[1]])
      /\ p = <<p[1], p[2]>>
  BY LivePos
<1>2. Above(p) # p /\ Under(Above(p)) = p
  BY <1>1 DEF Above, Under
<1>3. p[2] # 1 => Under(p) \in Live(s) /\ Above(Under(p)) = p
  <2> SUFFICES ASSUME p[2] # 1  PROVE Under(p) \in Live(s) /\ Above(Under(p)) = p
    OBVIOUS
  <2>1. p[2] - 1 \in 1..Len(s[p[1]])
    BY <1>1
  <2>2. QED  BY <1>1, <2>1, PosLive DEF Under, Above
<1>4. \A r \in Live(s) : Above(p) = Above(r) => p = r
  <2> SUFFICES ASSUME NEW r \in Live(s), Above(p) = Above(r)  PROVE p = r
    OBVIOUS
  <2>1. r[2] \in Int /\ r = <<r[1], r[2]>> /\ p[2] \in Int
    BY <1>1, LivePos
  <2>2. QED  BY <1>1, <2>1 DEF Above
<1>5. s[p[1]] # <<>>
  BY <1>1
<1>6. Above(p) \notin Live(s) => p = TopPos(s, p[1])
  <2> SUFFICES ASSUME Above(p) \notin Live(s)  PROVE p = TopPos(s, p[1])
    OBVIOUS
  <2>1. p[2] + 1 \notin 1..Len(s[p[1]])
    BY <1>1, PosLive DEF Above
  <2>2. p[2] = Len(s[p[1]])
    BY <1>1, <2>1
  <2>3. QED  BY <1>1, <2>2 DEF TopPos
<1>7. QED  BY <1>2, <1>3, <1>4, <1>5, <1>6

LEMMA TopLive ==
  ASSUME NEW s \in Stacks, NEW t \in Thread
  PROVE  /\ NewPos(s, t) \notin Live(s)
         /\ s[t] # <<>> =>
              /\ TopPos(s, t) \in Live(s) /\ Above(TopPos(s, t)) = NewPos(s, t)
              /\ Fm(s, TopPos(s, t)) = s[t][Len(s[t])]
<1>1. s[t] \in Seq(Frame) /\ Len(s[t]) \in Nat
  BY DEF Stacks
<1>2. NewPos(s, t) \notin Live(s)
  <2> SUFFICES ASSUME NewPos(s, t) \in Live(s)  PROVE FALSE
    OBVIOUS
  <2>1. NewPos(s, t)[1] = t /\ NewPos(s, t)[2] = Len(s[t]) + 1
    BY DEF NewPos
  <2>2. Len(s[t]) + 1 \in 1..Len(s[t])
    BY <2>1, LivePos
  <2>3. QED  BY <1>1, <2>2
<1>3. s[t] # <<>> => Len(s[t]) \in 1..Len(s[t])
  BY <1>1
<1>4. QED  BY <1>1, <1>2, <1>3, PosLive DEF TopPos, NewPos, Above

\* s2 is s with the frame f at the position p.
Changed(s, s2, p, f) ==
  /\ s2 \in Stacks /\ Live(s2) = Live(s) /\ Fm(s2, p) = f
  /\ \A r \in Live(s) \ {p} : Fm(s2, r) = Fm(s, r)
  /\ \A t \in Thread : Len(s2[t]) = Len(s[t])

\* s2 is s with one more frame f on the stack of t.
Pushed(s, s2, t, f) ==
  /\ s2 \in Stacks /\ Live(s2) = Live(s) \cup {NewPos(s, t)} /\ Fm(s2, NewPos(s, t)) = f
  /\ \A r \in Live(s) : Fm(s2, r) = Fm(s, r)

\* s2 is s without the last frame on the stack of t.
Popped(s, s2, t) ==
  /\ s2 \in Stacks /\ Live(s2) = Live(s) \ {TopPos(s, t)}
  /\ \A r \in Live(s) \ {TopPos(s, t)} : Fm(s2, r) = Fm(s, r)

LEMMA ChangeTop ==
  ASSUME NEW s \in Stacks, NEW t \in Thread, s[t] # <<>>, NEW f \in Frame
  PROVE  Changed(s, [s EXCEPT ![t] = Append(SubSeq(@, 1, Len(@) - 1), f)], TopPos(s, t), f)
<1> DEFINE n == Len(s[t])
           b == SubSeq(s[t], 1, n - 1)
           z == Append(b, f)
           s2 == [s EXCEPT ![t] = z]
<1>1. s[t] \in Seq(Frame) /\ n \in Nat \ {0}
  BY DEF Stacks
<1>2. b \in Seq(Frame) /\ Len(b) = n - 1 /\ \A i \in 1..n - 1 : b[i] = s[t][i]
  <2>1. \A i \in 1..n - 1 : s[t][i] \in Frame
    BY <1>1, ElementOfSeq
  <2>2. QED  BY <1>1, <2>1, SubSeqProperties
<1>3. z \in Seq(Frame) /\ Len(z) = n /\ z[n] = f /\ \A i \in 1..n - 1 : z[i] = s[t][i]
  <2> HIDE DEF b
  <2>1. QED  BY <1>1, <1>2, AppendProperties
<1> HIDE DEF z
<1>4. s2 \in Stacks /\ s2[t] = z /\ \A u \in Thread \ {t} : s2[u] = s[u]
  BY <1>3 DEF Stacks
<1> HIDE DEF s2
<1>5. \A u \in Thread : Len(s2[u]) = Len(s[u])
  BY <1>3, <1>4
<1>6. Live(s2) = Live(s)
  <2>1. \A u \in Thread : DOMAIN s2[u] = DOMAIN s[u]
    BY <1>4, <1>5 DEF Stacks
  <2>2. QED  BY <2>1 DEF Live
<1>7. Fm(s2, TopPos(s, t)) = f
  BY <1>3, <1>4 DEF Fm, TopPos
<1>8. ASSUME NEW r \in Live(s) \ {TopPos(s, t)}  PROVE Fm(s2, r) = Fm(s, r)
  <2>1. r[1] \in Thread /\ r[2] \in 1..Len(s[r[1]]) /\ r = <<r[1], r[2]>>
    BY LivePos
  <2>2. CASE r[1] = t
    <3>1. r[2] # n
      BY <1>8, <2>1, <2>2 DEF TopPos
    <3>2. r[2] \in 1..n - 1
      BY <1>1, <2>1, <2>2, <3>1
    <3>3. QED  BY <1>3, <1>4, <2>2, <3>2 DEF Fm
  <2>3. CASE r[1] # t
    BY <1>4, <2>1, <2>3 DEF Fm
  <2>4. QED  BY <2>2, <2>3
<1>9. QED  BY <1>4, <1>5, <1>6, <1>7, <1>8 DEF Changed, s2, z, b, n

LEMMA PushTop ==
  ASSUME NEW s \in Stacks, NEW t \in Thread, NEW f \in Frame
  PROVE  Pushed(s, [s EXCEPT ![t] = Append(@, f)], t, f)
<1> DEFINE n == Len(s[t])
           z == Append(s[t], f)
           s2 == [s EXCEPT ![t] = z]
<1>1. s[t] \in Seq(Frame) /\ n \in Nat
  BY DEF Stacks
<1>2. z \in Seq(Frame) /\ Len(z) = n + 1 /\ z[n + 1] = f /\ \A i \in 1..n : z[i] = s[t][i]
  BY <1>1, AppendProperties
<1> HIDE DEF z
<1>3. s2 \in Stacks /\ s2[t] = z /\ \A u \in Thread \ {t} : s2[u] = s[u]
  BY <1>2 DEF Stacks
<1> HIDE DEF s2
<1>4. ASSUME NEW r \in Live(s)  PROVE r \in Live(s2) /\ Fm(s2, r) = Fm(s, r)
  <2>1. r[1] \in Thread /\ r[2] \in 1..Len(s[r[1]]) /\ r = <<r[1], r[2]>>
    BY LivePos
  <2>2. CASE r[1] = t
    <3>1. r[2] \in 1..Len(s2[t]) /\ s2[t][r[2]] = s[t][r[2]]
      BY <1>1, <1>2, <1>3, <2>1, <2>2
    <3>2. QED  BY <1>3, <2>1, <2>2, <3>1, PosLive DEF Fm
  <2>3. CASE r[1] # t
    BY <1>3, <2>1, <2>3, PosLive DEF Fm
  <2>4. QED  BY <2>2, <2>3
<1>5. NewPos(s, t) \in Live(s2) /\ Fm(s2, NewPos(s, t)) = f
  <2>1. n + 1 \in 1..Len(s2[t])
    BY <1>1, <1>2, <1>3
  <2>2. QED  BY <1>2, <1>3, <2>1, PosLive DEF NewPos
<1>6. ASSUME NEW r \in Live(s2)  PROVE r \in Live(s) \cup {NewPos(s, t)}
  <2>1. r[1] \in Thread /\ r[2] \in 1..Len(s2[r[1]]) /\ r = <<r[1], r[2]>>
    BY <1>3, LivePos
  <2>2. CASE r[1] = t
    <3>1. r[2] \in 1..n \/ r[2] = n + 1
      BY <1>1, <1>2, <1>3, <2>1, <2>2
    <3>2. QED  BY <2>1, <2>2, <3>1, PosLive DEF NewPos
  <2>3. CASE r[1] # t
    BY <1>3, <2>1, <2>3, PosLive
  <2>4. QED  BY <2>2, <2>3
<1>7. Live(s2) = Live(s) \cup {NewPos(s, t)}
  BY <1>4, <1>5, <1>6
<1>8. QED  BY <1>3, <1>4, <1>5, <1>7 DEF Pushed, s2, z

LEMMA PopTop ==
  ASSUME NEW s \in Stacks, NEW t \in Thread, s[t] # <<>>
  PROVE  Popped(s, [s EXCEPT ![t] = SubSeq(@, 1, Len(@) - 1)], t)
<1> DEFINE n == Len(s[t])
           z == SubSeq(s[t], 1, n - 1)
           s2 == [s EXCEPT ![t] = z]
<1>1. s[t] \in Seq(Frame) /\ n \in Nat \ {0}
  BY DEF Stacks
<1>2. z \in Seq(Frame) /\ Len(z) = n - 1 /\ \A i \in 1..n - 1 : z[i] = s[t][i]
  <2>1. \A i \in 1..n - 1 : s[t][i] \in Frame
    BY <1>1, ElementOfSeq
  <2>2. QED  BY <1>1, <2>1, SubSeqProperties
<1> HIDE DEF z
<1>3. s2 \in Stacks /\ s2[t] = z /\ \A u \in Thread \ {t} : s2[u] = s[u]
  BY <1>2 DEF Stacks
<1> HIDE DEF s2
<1>4. ASSUME NEW r \in Live(s) \ {TopPos(s, t)}  PROVE r \in Live(s2) /\ Fm(s2, r) = Fm(s, r)
  <2>1. r[1] \in Thread /\ r[2] \in 1..Len(s[r[1]]) /\ r = <<r[1], r[2]>>
    BY LivePos
  <2>2. CASE r[1] = t
    <3>1. r[2] # n
      BY <1>4, <2>1, <2>2 DEF TopPos
    <3>2. r[2] \in 1..Len(s2[t]) /\ s2[t][r[2]] = s[t][r[2]]
      BY <1>1, <1>2, <1>3, <2>1, <2>2, <3>1
    <3>3. QED  BY <1>3, <2>1, <2>2, <3>2, PosLive DEF Fm
  <2>3. CASE r[1] # t
    BY <1>3, <2>1, <2>3, PosLive DEF Fm
  <2>4. QED  BY <2>2, <2>3
<1>5. ASSUME NEW r \in Live(s2)  PROVE r \in Live(s) \ {TopPos(s, t)}
  <2>1. r[1] \in Thread /\ r[2] \in 1..Len(s2[r[1]]) /\ r = <<r[1], r[2]>>
    BY <1>3, LivePos
  <2>2. CASE r[1] = t
    <3>1. r[2] \in 1..n /\ r[2] # n
      BY <1>1, <1>2, <1>3, <2>1, <2>2
    <3>2. r # TopPos(s, t)
      BY <2>1, <3>1 DEF TopPos
    <3>3. QED  BY <2>1, <2>2, <3>1, <3>2, PosLive
  <2>3. CASE r[1] # t
    <3>1. r # TopPos(s, t)
      BY <2>1, <2>3 DEF TopPos
    <3>2. QED  BY <1>3, <2>1, <2>3, <3>1, PosLive
  <2>4. QED  BY <2>2, <2>3
<1>6. Live(s2) = Live(s) \ {TopPos(s, t)}
  BY <1>4, <1>5
<1>7. QED  BY <1>3, <1>4, <1>6 DEF Popped, s2, z

-----------------------------------------------------------------------------
(* The elements of the calls under way *)

\* A call's elements, pulled apart.
LEMMA Parts ==
  ASSUME NEW s \in Stacks, NEW C, ShapeInv(s, C), NEW p \in Live(s)
  PROVE  /\ Fm(s, p).pivot \in Elem /\ Fm(s, p).pivot \in All(Fm(s, p))
         /\ Fm(s, p).lower \subseteq Elem /\ Fm(s, p).higher \subseteq Elem
         /\ Fm(s, p).lower \cap Fm(s, p).higher = {}
         /\ Fm(s, p).pivot \notin Fm(s, p).lower \cup Fm(s, p).higher
         /\ Fm(s, p).lower \subseteq All(Fm(s, p)) /\ Fm(s, p).higher \subseteq All(Fm(s, p))
<1>1. /\ Fm(s, p) \in Frame
      /\ Fm(s, p).pivot \notin Fm(s, p).lower \cup Fm(s, p).higher
      /\ \A x \in Fm(s, p).lower : Key[x] < Key[Fm(s, p).pivot]
      /\ \A x \in Fm(s, p).higher : Key[Fm(s, p).pivot] <= Key[x]
  BY LivePos DEF ShapeInv
<1>2. Fm(s, p).pivot \in Elem /\ Fm(s, p).lower \subseteq Elem /\ Fm(s, p).higher \subseteq Elem
  BY <1>1, Fields
<1>3. ASSUME NEW x \in Fm(s, p).lower, x \in Fm(s, p).higher  PROVE FALSE
  <2>1. Key[x] \in Nat /\ Key[Fm(s, p).pivot] \in Nat
    BY <1>2, KeyAssumption
  <2>2. Key[x] < Key[Fm(s, p).pivot] /\ Key[Fm(s, p).pivot] <= Key[x]
    BY <1>1, <1>3
  <2>3. QED  BY <2>1, <2>2
<1>4. QED  BY <1>1, <1>2, <1>3 DEF All

\* A call whose pivot is in a part of another call works on that part.
LEMMA PivotIn ==
  ASSUME NEW s \in Stacks, NEW C, ShapeInv(s, C), TreeInv(s),
         NEW p \in Live(s), NEW r \in Live(s)
  PROVE  /\ Fm(s, p).pivot \in Fm(s, r).lower => Inside(s, p, Fm(s, r).lower)
         /\ Fm(s, p).pivot \in Fm(s, r).higher => Inside(s, p, Fm(s, r).higher)
         /\ Fm(s, p).pivot = Fm(s, r).pivot => p = r
<1> DEFINE f == Fm(s, p)
           g == Fm(s, r)
<1>1. /\ f.pivot \in All(f) /\ f.lower \cap f.higher = {} /\ f.pivot \notin f.lower \cup f.higher
      /\ f.lower \subseteq All(f) /\ f.higher \subseteq All(f)
  BY Parts
<1>2. /\ g.pivot \in All(g) /\ g.lower \cap g.higher = {} /\ g.pivot \notin g.lower \cup g.higher
      /\ g.lower \subseteq All(g) /\ g.higher \subseteq All(g)
  BY Parts
<1>3. p = r \/ All(f) \cap All(g) = {} \/ All(f) \subseteq g.lower \/ All(f) \subseteq g.higher
      \/ All(g) \subseteq f.lower \/ All(g) \subseteq f.higher
  BY DEF TreeInv, Within, Inside
<1> HIDE DEF f, g
<1>4. /\ f.pivot \in g.lower => All(f) \subseteq g.lower
      /\ f.pivot \in g.higher => All(f) \subseteq g.higher
      /\ f.pivot = g.pivot => p = r
  <2>1. p = r => f = g
    BY DEF f, g
  <2>2. QED  BY <1>1, <1>2, <1>3, <2>1
<1>5. QED  BY <1>4 DEF f, g, Inside

\* A part of a call in which nobody is at work: the other calls have nothing of it,
\* or it lies in a part of theirs in which the call is at work.
LEMMA Apart ==
  ASSUME NEW s \in Stacks, NEW C, ShapeInv(s, C), TreeInv(s),
         NEW p \in Live(s), NEW D, D # {}, D = Fm(s, p).lower \/ D = Fm(s, p).higher,
         \A r \in Live(s) : ~Inside(s, r, D),
         NEW r \in Live(s)
  PROVE  /\ All(Fm(s, r)) \cap D = {} \/ D \subseteq Fm(s, r).lower \/ D \subseteq Fm(s, r).higher
         /\ D \subseteq Fm(s, r).lower =>
              Inside(s, p, Fm(s, r).lower) \/ (r = p /\ D = Fm(s, p).lower)
         /\ D \subseteq Fm(s, r).higher =>
              Inside(s, p, Fm(s, r).higher) \/ (r = p /\ D = Fm(s, p).higher)
<1> DEFINE f == Fm(s, p)
           g == Fm(s, r)
<1>1. /\ f.lower \cap f.higher = {} /\ f.lower \subseteq All(f) /\ f.higher \subseteq All(f)
      /\ g.lower \cap g.higher = {} /\ g.lower \subseteq All(g) /\ g.higher \subseteq All(g)
  BY Parts
<1>2. p = r \/ All(f) \cap All(g) = {} \/ All(f) \subseteq g.lower \/ All(f) \subseteq g.higher
      \/ All(g) \subseteq f.lower \/ All(g) \subseteq f.higher
  BY DEF TreeInv, Within, Inside
<1>3. ~(All(g) \subseteq D)
  BY DEF Inside
<1>4. D = f.lower \/ D = f.higher
  OBVIOUS
<1>a. p = r => f = g
  OBVIOUS
<1> SUFFICES /\ All(g) \cap D = {} \/ D \subseteq g.lower \/ D \subseteq g.higher
             /\ D \subseteq g.lower => All(f) \subseteq g.lower \/ (r = p /\ D = f.lower)
             /\ D \subseteq g.higher => All(f) \subseteq g.higher \/ (r = p /\ D = f.higher)
  BY DEF Inside
<1> HIDE DEF f, g
<1>5. CASE p = r
  BY <1>1, <1>4, <1>5, <1>a
<1>6. CASE All(f) \cap All(g) = {}
  <2>1. All(g) \cap D = {} /\ D \subseteq All(f)
    BY <1>1, <1>4, <1>6
  <2>2. ~(D \subseteq g.lower) /\ ~(D \subseteq g.higher)
    BY <1>1, <2>1
  <2>3. QED  BY <2>1, <2>2
<1>b. D \subseteq All(f)
  BY <1>1, <1>4
<1>7. CASE All(f) \subseteq g.lower
  <2>1. D \subseteq g.lower /\ ~(D \subseteq g.higher)
    BY <1>1, <1>7, <1>b
  <2>2. QED  BY <1>7, <2>1
<1>8. CASE All(f) \subseteq g.higher
  <2>1. D \subseteq g.higher /\ ~(D \subseteq g.lower)
    BY <1>1, <1>8, <1>b
  <2>2. QED  BY <1>8, <2>1
<1>9. CASE All(g) \subseteq f.lower \/ All(g) \subseteq f.higher
  <2>1. All(g) \cap D = {}
    BY <1>1, <1>3, <1>4, <1>9
  <2>2. ~(D \subseteq g.lower) /\ ~(D \subseteq g.higher)
    BY <1>1, <2>1
  <2>3. QED  BY <2>1, <2>2
<1>10. QED  BY <1>2, <1>5, <1>6, <1>7, <1>8, <1>9

\* Nobody works for a call that has got the result of its lower part.
LEMMA GetAlone ==
  ASSUME NEW s, NEW q, NEW v, NEW C, StackInv(s, q, v, C),
         NEW p \in Live(s), Fm(s, p).pc = "get", NEW r \in Live(s), r # p
  PROVE  /\ All(Fm(s, r)) \cap All(Fm(s, p)) = {} \/ Within(s, p, r)
         /\ ~Inside(s, r, All(Fm(s, p)))
<1>1. s \in Stacks /\ ShapeInv(s, C)
  BY DEF StackInv, Types, Stacks
<1>2. v[Fm(s, p).pivot] # Pending
  BY DEF StackInv, ResultInv
<1>3. ~Within(s, r, p)
  BY <1>2 DEF StackInv, LowerInv, HigherInv, Within
<1>4. All(Fm(s, r)) \cap All(Fm(s, p)) = {} \/ Within(s, p, r)
  BY <1>3 DEF StackInv, TreeInv
<1>5. /\ Fm(s, r).pivot \in All(Fm(s, r)) /\ Fm(s, r).pivot \notin Fm(s, r).lower \cup Fm(s, r).higher
  BY <1>1, Parts
<1>6. ~(All(Fm(s, r)) \subseteq All(Fm(s, p)))
  BY <1>4, <1>5 DEF Within, Inside
<1>7. QED  BY <1>4, <1>6 DEF Inside

-----------------------------------------------------------------------------
(* The small steps, and how each preserves the invariant of the stacks *)

Pc == {"submit", "size", "spawn", "append", "higher", "wait", "help", "get"}

\* What becomes of a frame, but for where it is and the result it has.
Alike(f, g) == f.pivot = g.pivot /\ f.job = g.job /\ f.lower = g.lower /\ f.higher = g.higher

LEMMA SameElements ==
  ASSUME NEW s, NEW s2, NEW r, Alike(Fm(s2, r), Fm(s, r))
  PROVE  /\ All(Fm(s2, r)) = All(Fm(s, r))
         /\ \A D : Inside(s2, r, D) <=> Inside(s, r, D)
BY DEF Alike, All, Inside

\* The top call of a thread goes on from one place to the next.
LEMMA Mark ==
  ASSUME NEW s, NEW q, NEW v, NEW C, StackInv(s, q, v, C),
         NEW t \in Thread, s[t] # <<>>, NEW c \in Pc, NEW s2,
         Changed(s, s2, TopPos(s, t), [Fm(s, TopPos(s, t)) EXCEPT !.pc = c]),
         c # "submit",
         c \in Before => Fm(s, TopPos(s, t)).pc \in Before,
         c \in After => \/ Fm(s, TopPos(s, t)).pc \in After
                        \/ Fm(s, TopPos(s, t)).pc \in Before /\ Fm(s, TopPos(s, t)).higher = {},
         c = "get" => v[Fm(s, TopPos(s, t)).pivot] # Pending
  PROVE  StackInv(s2, q, v, C)
<1> DEFINE o == TopPos(s, t)
           g == Fm(s, o)
           f == [g EXCEPT !.pc = c]
<1>1. s \in Stacks /\ s2 \in Stacks /\ Live(s2) = Live(s) /\ Fm(s2, o) = f
      /\ \A r \in Live(s) \ {o} : Fm(s2, r) = Fm(s, r)
      /\ \A u \in Thread : Len(s2[u]) = Len(s[u])
  BY DEF Changed, StackInv, Types, Stacks
<1>2. o \in Live(s) /\ g \in Frame /\ Above(o) \notin Live(s)
  BY <1>1, TopLive, LivePos
<1>3. f \in Frame /\ f.pc = c /\ f.res = g.res /\ Alike(f, g)
  BY <1>2, GoesOn DEF Pc, Alike
<1> HIDE DEF f, g, o
<1>4. \A r \in Live(s) : /\ Alike(Fm(s2, r), Fm(s, r)) /\ Fm(s2, r).res = Fm(s, r).res
                         /\ r # o => Fm(s2, r).pc = Fm(s, r).pc
  BY <1>1, <1>3 DEF Alike, g
<1>5. \A r \in Live(s) : /\ All(Fm(s2, r)) = All(Fm(s, r))
                         /\ \A D : Inside(s2, r, D) <=> Inside(s, r, D)
  BY <1>4, SameElements
<1>6. \A p, r \in Live(s) : Within(s2, p, r) <=> Within(s, p, r)
  BY <1>4, <1>5 DEF Within, Alike
<1>7. Fm(s2, o).pc = c /\ Fm(s, o) = g
  BY <1>1, <1>3 DEF g
<1>8. /\ c \in Before => g.pc \in Before
      /\ c \in After => g.pc \in After \/ (g.pc \in Before /\ g.higher = {})
      /\ c = "get" => v[g.pivot] # Pending
  BY DEF g, o
<1>9. Types(s2, q, v)
  BY <1>1 DEF StackInv, Types, Stacks
<1>10. ShapeInv(s2, C)
  BY <1>1, <1>4, <1>5 DEF StackInv, ShapeInv, Alike
<1>11. TreeInv(s2)
  BY <1>1, <1>5, <1>6 DEF StackInv, TreeInv
<1>12. LinkInv(s2, C)
  <2> SUFFICES ASSUME NEW p \in Live(s)
               PROVE  IF Fm(s2, p).job # Null
                      THEN \E r \in Live(s) : Fm(s2, r).pivot = Fm(s2, p).job
                                              /\ All(Fm(s2, p)) = Fm(s2, r).lower
                      ELSE IF p[2] = 1
                      THEN p[1] = Main /\ All(Fm(s2, p)) = C
                      ELSE Fm(s2, Under(p)).pc = "higher"
                           /\ All(Fm(s2, p)) = Fm(s2, Under(p)).higher
    BY <1>1 DEF LinkInv
  <2>1. IF Fm(s, p).job # Null
        THEN \E r \in Live(s) : Fm(s, r).pivot = Fm(s, p).job /\ All(Fm(s, p)) = Fm(s, r).lower
        ELSE IF p[2] = 1
        THEN p[1] = Main /\ All(Fm(s, p)) = C
        ELSE Fm(s, Under(p)).pc = "higher" /\ All(Fm(s, p)) = Fm(s, Under(p)).higher
    BY DEF StackInv, LinkInv
  <2>2. p[2] # 1 => Under(p) \in Live(s) /\ Under(p) # o
    BY <1>1, <1>2, Neighbours
  <2>3. Fm(s2, p).job = Fm(s, p).job /\ All(Fm(s2, p)) = All(Fm(s, p))
    BY <1>4, <1>5 DEF Alike
  <2>4. \A r \in Live(s) : Fm(s2, r).pivot = Fm(s, r).pivot /\ Fm(s2, r).lower = Fm(s, r).lower
    BY <1>4 DEF Alike
  <2>5. p[2] # 1 => Fm(s2, Under(p)) = Fm(s, Under(p))
    BY <1>1, <2>2
  <2>6. QED  BY <2>1, <2>3, <2>4, <2>5
<1>13. LowerInv(s2, q, v)
  BY <1>1, <1>4, <1>5, <1>7 DEF StackInv, LowerInv, Alike
<1>14. HigherInv(s2)
  <2> SUFFICES ASSUME NEW p \in Live(s), NEW r \in Live(s), Inside(s2, r, Fm(s2, p).higher)
               PROVE  /\ Fm(s2, p).pc = "higher" /\ Above(p) \in Live(s)
                      /\ Fm(s2, Above(p)).job = Null
    BY <1>1 DEF HigherInv
  <2>1. Inside(s, r, Fm(s, p).higher)
    BY <1>4, <1>5 DEF Alike
  <2>2. Fm(s, p).pc = "higher" /\ Above(p) \in Live(s) /\ Fm(s, Above(p)).job = Null
    BY <2>1 DEF StackInv, HigherInv
  <2>3. p # o
    BY <1>2, <2>2
  <2>4. QED  BY <1>4, <2>2, <2>3 DEF Alike
<1>15. QueueInv(s2, q, v)
  BY <1>1, <1>4, <1>7 DEF StackInv, QueueInv, Alike
<1>16. FreshInv(s2, q, v)
  <2>1. ASSUME NEW p \in Live(s), Fm(s2, p).pc = "submit"
        PROVE  Fresh(Fm(s2, p).lower \cup {Fm(s2, p).pivot}, v)
    <3>1. Fm(s, p).pc = "submit"
      BY <1>4, <1>7, <2>1
    <3>2. Fm(s2, p).lower = Fm(s, p).lower /\ Fm(s2, p).pivot = Fm(s, p).pivot
      BY <1>4 DEF Alike
    <3>3. QED  BY <3>1, <3>2 DEF StackInv, FreshInv
  <2>2. ASSUME NEW p \in Live(s), Fm(s2, p).pc \in Before,
               \A r \in Live(s) : ~Inside(s2, r, Fm(s2, p).higher)
        PROVE  Fresh(Fm(s2, p).higher, v)
    <3>1. Fm(s, p).pc \in Before
      BY <1>4, <1>7, <1>8, <2>2
    <3>2. Fm(s2, p).higher = Fm(s, p).higher
      BY <1>4 DEF Alike
    <3>3. \A r \in Live(s) : ~Inside(s, r, Fm(s, p).higher)
      BY <1>5, <2>2, <3>2
    <3>4. QED  BY <3>1, <3>2, <3>3 DEF StackInv, FreshInv
  <2>3. \A i \in DOMAIN q : Fresh(q[i].data, v)
    BY DEF StackInv, FreshInv
  <2>4. QED  BY <1>1, <2>1, <2>2, <2>3 DEF FreshInv
<1>17. ResultInv(s2, v)
  <2> SUFFICES ASSUME NEW p \in Live(s)
               PROVE  /\ Fm(s2, p).pc \in Before => Fm(s2, p).res = <<>>
                      /\ Fm(s2, p).pc \in After => IsSort(Fm(s2, p).res, Fm(s2, p).higher)
                      /\ Fm(s2, p).pc = "get" => v[Fm(s2, p).pivot] # Pending
                      /\ v[Fm(s2, p).pivot] # Pending => IsSort(v[Fm(s2, p).pivot], Fm(s2, p).lower)
    BY <1>1 DEF ResultInv
  <2>1. /\ Fm(s, p).pc \in Before => Fm(s, p).res = <<>>
        /\ Fm(s, p).pc \in After => IsSort(Fm(s, p).res, Fm(s, p).higher)
        /\ Fm(s, p).pc = "get" => v[Fm(s, p).pivot] # Pending
        /\ v[Fm(s, p).pivot] # Pending => IsSort(v[Fm(s, p).pivot], Fm(s, p).lower)
    BY DEF StackInv, ResultInv
  <2>2. /\ Fm(s2, p).res = Fm(s, p).res /\ Fm(s2, p).pivot = Fm(s, p).pivot
        /\ Fm(s2, p).lower = Fm(s, p).lower /\ Fm(s2, p).higher = Fm(s, p).higher
    BY <1>4 DEF Alike
  <2>3. CASE p = o
    BY <1>7, <1>8, <2>1, <2>2, <2>3, SortedEmpty
  <2>4. CASE p # o
    BY <1>4, <2>1, <2>2, <2>4
  <2>5. QED  BY <2>3, <2>4
<1>18. QED  BY <1>9, <1>10, <1>11, <1>12, <1>13, <1>14, <1>15, <1>16, <1>17 DEF StackInv

\* The lower part of a call is left for anybody to take.
LEMMA Enqueue ==
  ASSUME NEW s, NEW q, NEW v, NEW C, StackInv(s, q, v, C),
         NEW p \in Live(s), NEW j,
         j = [of |-> Fm(s, p).pivot, data |-> Fm(s, p).lower],
         Fm(s, p).pc # "submit", v[Fm(s, p).pivot] = Pending, Fresh(Fm(s, p).lower, v),
         \A i \in DOMAIN q : q[i].of # Fm(s, p).pivot,
         \A r \in Live(s) : ~Inside(s, r, Fm(s, p).lower)
  PROVE  StackInv(s, Append(q, j), v, C)
<1> DEFINE q2 == Append(q, j)
<1>1. s \in Stacks /\ q \in Seq([of : Elem, data : SUBSET Elem]) /\ ShapeInv(s, C) /\ TreeInv(s)
  BY DEF StackInv, Types, Stacks
<1>2. j \in [of : Elem, data : SUBSET Elem] /\ j.of = Fm(s, p).pivot /\ j.data = Fm(s, p).lower
  BY <1>1, Parts
<1>3. /\ q2 \in Seq([of : Elem, data : SUBSET Elem])
      /\ Len(q) \in Nat /\ DOMAIN q = 1..Len(q) /\ DOMAIN q2 = 1..Len(q) + 1
      /\ \A i \in 1..Len(q) : q2[i] = q[i]
      /\ q2[Len(q) + 1] = j
  BY <1>1, <1>2, AppendProperties
<1> HIDE DEF q2
<1>4. \A i \in DOMAIN q2 : (i \in DOMAIN q /\ q2[i] = q[i]) \/ (i = Len(q) + 1 /\ q2[i] = j)
  BY <1>3
<1>5. Types(s, q2, v)
  BY <1>3 DEF StackInv, Types
<1>6. LowerInv(s, q2, v)
  <2> SUFFICES ASSUME NEW p1 \in Live(s), NEW r \in Live(s), Inside(s, r, Fm(s, p1).lower)
               PROVE  /\ v[Fm(s, p1).pivot] = Pending /\ Fm(s, p1).pc # "submit"
                      /\ \A i \in DOMAIN q2 : q2[i].of # Fm(s, p1).pivot
    BY DEF LowerInv
  <2>1. /\ v[Fm(s, p1).pivot] = Pending /\ Fm(s, p1).pc # "submit"
        /\ \A i \in DOMAIN q : q[i].of # Fm(s, p1).pivot
    BY DEF StackInv, LowerInv
  <2>2. p1 # p
    OBVIOUS
  <2>3. Fm(s, p).pivot # Fm(s, p1).pivot
    BY <1>1, <2>2, PivotIn
  <2>4. QED  BY <1>2, <1>4, <2>1, <2>3
<1>7. QueueInv(s, q2, v)
  <2>1. ASSUME NEW i \in DOMAIN q2
        PROVE  \E r \in Live(s) : /\ q2[i].of = Fm(s, r).pivot /\ q2[i].data = Fm(s, r).lower
                                  /\ v[Fm(s, r).pivot] = Pending /\ Fm(s, r).pc # "submit"
    <3>1. CASE i \in DOMAIN q /\ q2[i] = q[i]
      BY <3>1 DEF StackInv, QueueInv
    <3>2. CASE q2[i] = j
      BY <1>2, <3>2
    <3>3. QED  BY <1>4, <3>1, <3>2
  <2>2. ASSUME NEW i \in DOMAIN q2, NEW k \in DOMAIN q2, q2[i].of = q2[k].of  PROVE i = k
    <3>1. CASE i \in DOMAIN q /\ q2[i] = q[i] /\ k \in DOMAIN q /\ q2[k] = q[k]
      BY <2>2, <3>1 DEF StackInv, QueueInv
    <3>2. QED  BY <1>2, <1>4, <2>2, <3>1
  <2>3. QED  BY <2>1, <2>2 DEF QueueInv
<1>8. FreshInv(s, q2, v)
  <2>1. \A i \in DOMAIN q2 : Fresh(q2[i].data, v)
    BY <1>2, <1>4 DEF StackInv, FreshInv
  <2>2. QED  BY <2>1 DEF StackInv, FreshInv
<1>9. QED  BY <1>5, <1>6, <1>7, <1>8 DEF StackInv, q2

\* The parts that are left when one is taken.
LEMMA WithoutEntry ==
  ASSUME NEW S, NEW q \in Seq(S), NEW k \in DOMAIN q
  PROVE  /\ Without(q, k) \in Seq(S)
         /\ \A i \in DOMAIN Without(q, k) : \E l \in DOMAIN q : l # k /\ Without(q, k)[i] = q[l]
         /\ \A i, m \in DOMAIN Without(q, k) : i # m =>
              \E l, n \in DOMAIN q : l # n /\ Without(q, k)[i] = q[l] /\ Without(q, k)[m] = q[n]
<1> DEFINE a == SubSeq(q, 1, k - 1)
           b == SubSeq(q, k + 1, Len(q))
<1>1. Len(q) \in Nat /\ k \in 1..Len(q) /\ DOMAIN q = 1..Len(q) /\ \A i \in 1..Len(q) : q[i] \in S
  BY ElementOfSeq
<1>2. a \in Seq(S) /\ Len(a) = k - 1 /\ \A i \in 1..k - 1 : a[i] = q[i]
  BY <1>1, SubSeqProperties
<1>3. b \in Seq(S) /\ Len(b) = Len(q) - k /\ \A i \in 1..Len(q) - k : b[i] = q[k + i]
  <2>1. \A i \in k + 1..Len(q) : q[i] \in S
    BY <1>1
  <2>2. b \in Seq(S) /\ Len(b) = (IF k + 1 <= Len(q) THEN Len(q) - (k + 1) + 1 ELSE 0)
        /\ \A i \in 1..Len(b) : b[i] = q[k + 1 + i - 1]
    BY <1>1, <2>1, SubSeqProperties
  <2> HIDE DEF b
  <2>3. Len(b) = Len(q) - k
    BY <1>1, <2>2
  <2>4. \A i \in 1..Len(b) : k + 1 + i - 1 = k + i
    BY <1>1, <2>3
  <2>5. QED  BY <2>2, <2>3, <2>4
<1>4. Without(q, k) = a \o b
  BY DEF Without
<1> HIDE DEF a, b
<1> DEFINE z == a \o b
           At0(i) == IF i < k THEN i ELSE i + 1
<1>a. /\ z \in Seq(S) /\ Len(z) = Len(a) + Len(b)
      /\ \A i \in 1..Len(a) + Len(b) : z[i] = IF i <= Len(a) THEN a[i] ELSE b[i - Len(a)]
  BY <1>2, <1>3, ConcatProperties
<1>b. Without(q, k) = z
  BY <1>4
<1> HIDE DEF z
<1>5. /\ z \in Seq(S) /\ Len(z) = Len(q) - 1 /\ DOMAIN z = 1..Len(q) - 1
      /\ \A i \in 1..Len(z) : z[i] = IF i <= Len(a) THEN a[i] ELSE b[i - Len(a)]
  BY <1>1, <1>2, <1>3, <1>a
<1>6. \A i \in DOMAIN z : At0(i) \in DOMAIN q /\ At0(i) # k /\ z[i] = q[At0(i)]
  <2> TAKE i \in DOMAIN z
  <2>1. CASE i < k
    BY <1>1, <1>2, <1>5, <2>1
  <2>2. CASE ~(i < k)
    <3>1. i - (k - 1) \in 1..Len(q) - k /\ k + (i - (k - 1)) = i + 1
      BY <1>1, <1>5, <2>2
    <3>2. z[i] = b[i - (k - 1)]
      BY <1>1, <1>2, <1>5, <2>2
    <3>3. i + 1 \in 1..Len(q) /\ i + 1 # k
      BY <1>1, <1>5, <2>2
    <3>4. QED  BY <1>1, <1>3, <2>2, <3>1, <3>2, <3>3
  <2>3. QED  BY <2>1, <2>2
<1>7. \A i, m \in DOMAIN z : i # m => At0(i) # At0(m)
  BY <1>1, <1>5
<1> HIDE DEF At0
<1>8. QED  BY <1>b, <1>5, <1>6, <1>7

\* The other parts stay when one is taken.
LEMMA WithoutKeeps ==
  ASSUME NEW S, NEW q \in Seq(S), NEW k \in DOMAIN q, NEW i \in DOMAIN q, i # k
  PROVE  \E l \in DOMAIN Without(q, k) : Without(q, k)[l] = q[i]
<1> DEFINE a == SubSeq(q, 1, k - 1)
           b == SubSeq(q, k + 1, Len(q))
           z == a \o b
<1>1. /\ Len(q) \in Nat /\ k \in 1..Len(q) /\ i \in 1..Len(q)
      /\ \A m \in 1..Len(q) : q[m] \in S
  BY ElementOfSeq
<1>2. a \in Seq(S) /\ Len(a) = k - 1 /\ \A m \in 1..k - 1 : a[m] = q[m]
  BY <1>1, SubSeqProperties
<1>3. b \in Seq(S) /\ Len(b) = Len(q) - k /\ \A m \in 1..Len(q) - k : b[m] = q[k + m]
  <2>1. \A m \in k + 1..Len(q) : q[m] \in S
    BY <1>1
  <2>2. b \in Seq(S) /\ Len(b) = (IF k + 1 <= Len(q) THEN Len(q) - (k + 1) + 1 ELSE 0)
        /\ \A m \in 1..Len(b) : b[m] = q[k + 1 + m - 1]
    BY <1>1, <2>1, SubSeqProperties
  <2> HIDE DEF b
  <2>3. Len(b) = Len(q) - k
    BY <1>1, <2>2
  <2>4. \A m \in 1..Len(b) : k + 1 + m - 1 = k + m
    BY <1>1, <2>3
  <2>5. QED  BY <2>2, <2>3, <2>4
<1>4. Without(q, k) = z
  BY DEF Without
<1> HIDE DEF a, b
<1>5. /\ z \in Seq(S) /\ Len(z) = Len(a) + Len(b)
      /\ \A m \in 1..Len(a) + Len(b) : z[m] = IF m <= Len(a) THEN a[m] ELSE b[m - Len(a)]
  BY <1>2, <1>3, ConcatProperties
<1> HIDE DEF z
<1>6. /\ DOMAIN z = 1..Len(q) - 1
      /\ \A m \in 1..Len(q) - 1 : z[m] = IF m <= k - 1 THEN a[m] ELSE b[m - (k - 1)]
  BY <1>1, <1>2, <1>3, <1>5
<1>7. CASE i < k
  <2>1. i \in DOMAIN z /\ z[i] = q[i]
    BY <1>1, <1>2, <1>6, <1>7
  <2>2. QED  BY <1>4, <2>1
<1>8. CASE i > k
  <2> DEFINE n == Len(q)
  <2>a. n \in Nat /\ k \in 1..n /\ i \in 1..n /\ i > k
    BY <1>1, <1>8
  <2> HIDE DEF n
  <2>1. i - k \in 1..n - k /\ k + (i - k) = i /\ i - 1 - (k - 1) = i - k /\ ~(i - 1 <= k - 1)
        /\ i - 1 \in 1..n - 1
    BY <2>a
  <2>2. i - 1 \in DOMAIN z /\ z[i - 1] = b[i - k]
    BY <1>6, <2>1 DEF n
  <2>3. z[i - 1] = q[i]
    BY <1>3, <2>1, <2>2 DEF n
  <2>4. QED  BY <1>4, <2>2, <2>3
<1>9. QED  BY <1>1, <1>7, <1>8

\* The last part on the stack, taken at once.
LEMMA WithoutLast ==
  ASSUME NEW S, NEW q \in Seq(S), NEW j \in S
  PROVE  Without(Append(q, j), Len(q) + 1) = q
<1> DEFINE w == Append(q, j)
<1>1. /\ w \in Seq(S) /\ Len(q) \in Nat /\ Len(w) = Len(q) + 1
      /\ \A i \in 1..Len(q) : w[i] = q[i]
      /\ \A i \in 1..Len(w) : w[i] \in S
  BY AppendProperties, ElementOfSeq
<1> HIDE DEF w
<1> DEFINE a == SubSeq(w, 1, Len(q) + 1 - 1)
           b == SubSeq(w, Len(q) + 1 + 1, Len(w))
<1>2. a \in Seq(S) /\ Len(a) = Len(q) /\ \A i \in 1..Len(q) : a[i] = w[i]
  <2>1. a = SubSeq(w, 1, Len(q))
    BY <1>1
  <2>2. \A i \in 1..Len(q) : w[i] \in S
    BY <1>1
  <2>3. QED  BY <1>1, <2>1, <2>2, SubSeqProperties
<1>3. b \in Seq(S) /\ Len(b) = 0
  BY <1>1, SubSeqProperties
<1>4. b = <<>>
  BY <1>3, EmptySeq
<1>5. a = q
  BY <1>1, <1>2, SeqEqual
<1>6. QED  BY <1>4, <1>5, ConcatEmptySeq DEF Without, w

\* Nobody sorts the lower part of p yet, and nobody else can take it.
Waits(s, q, v, p) ==
  /\ v[Fm(s, p).pivot] = Pending /\ Fm(s, p).pc # "submit" /\ Fresh(Fm(s, p).lower, v)
  /\ \A i \in DOMAIN q : q[i].of # Fm(s, p).pivot
  /\ \A r \in Live(s) : ~Inside(s, r, Fm(s, p).lower)

\* A part is taken.
LEMMA Dequeue ==
  ASSUME NEW s, NEW q, NEW v, NEW C, StackInv(s, q, v, C), NEW k \in DOMAIN q
  PROVE  /\ StackInv(s, Without(q, k), v, C)
         /\ \E p \in Live(s) : /\ q[k].of = Fm(s, p).pivot /\ q[k].data = Fm(s, p).lower
                               /\ Waits(s, Without(q, k), v, p)
<1> DEFINE q2 == Without(q, k)
<1>1. q \in Seq([of : Elem, data : SUBSET Elem])
  BY DEF StackInv, Types
<1>2. /\ q2 \in Seq([of : Elem, data : SUBSET Elem])
      /\ \A i \in DOMAIN q2 : \E l \in DOMAIN q : l # k /\ q2[i] = q[l]
      /\ \A i, m \in DOMAIN q2 : i # m =>
           \E l, n \in DOMAIN q : l # n /\ q2[i] = q[l] /\ q2[m] = q[n]
  BY <1>1, WithoutEntry
<1> HIDE DEF q2
<1>3. Types(s, q2, v)
  BY <1>2 DEF StackInv, Types
<1>4. LowerInv(s, q2, v)
  BY <1>2 DEF StackInv, LowerInv
<1>5. QueueInv(s, q2, v)
  BY <1>2 DEF StackInv, QueueInv
<1>6. FreshInv(s, q2, v)
  <2>1. \A i \in DOMAIN q2 : Fresh(q2[i].data, v)
    BY <1>2 DEF StackInv, FreshInv
  <2>2. QED  BY <2>1 DEF StackInv, FreshInv
<1>7. StackInv(s, q2, v, C)
  BY <1>3, <1>4, <1>5, <1>6 DEF StackInv
<1>8. PICK p \in Live(s) : /\ q[k].of = Fm(s, p).pivot /\ q[k].data = Fm(s, p).lower
                           /\ v[Fm(s, p).pivot] = Pending /\ Fm(s, p).pc # "submit"
  BY DEF StackInv, QueueInv
<1>9. \A i \in DOMAIN q2 : q2[i].of # Fm(s, p).pivot
  BY <1>2, <1>8 DEF StackInv, QueueInv
<1>10. \A r \in Live(s) : ~Inside(s, r, Fm(s, p).lower)
  BY <1>8 DEF StackInv, LowerInv
<1>11. Fresh(Fm(s, p).lower, v)
  BY <1>8 DEF StackInv, FreshInv
<1>12. QED  BY <1>7, <1>8, <1>9, <1>10, <1>11 DEF Waits, q2

\* A future becomes ready: who is the pivot of a call is in no part that was not begun.
LEMMA StillFresh ==
  ASSUME NEW s, NEW q, NEW v, NEW C, StackInv(s, q, v, C),
         NEW p \in Live(s), Fm(s, p).pc # "submit",
         NEW v2, \A x \in Elem : x # Fm(s, p).pivot => v2[x] = v[x]
  PROVE  /\ \A r \in Live(s) :
              Fm(s, r).pc = "submit" => Fresh(Fm(s, r).lower \cup {Fm(s, r).pivot}, v2)
         /\ \A i \in DOMAIN q : Fresh(q[i].data, v2)
         /\ \A r \in Live(s) : ~Inside(s, p, Fm(s, r).higher) /\ Fresh(Fm(s, r).higher, v) =>
              Fresh(Fm(s, r).higher, v2)
<1>1. s \in Stacks /\ ShapeInv(s, C) /\ TreeInv(s)
  BY DEF StackInv, Types, Stacks
<1>2. \A r \in Live(s) : /\ Fm(s, p).pivot \in Fm(s, r).lower => Inside(s, p, Fm(s, r).lower)
                         /\ Fm(s, p).pivot \in Fm(s, r).higher => Inside(s, p, Fm(s, r).higher)
                         /\ Fm(s, p).pivot = Fm(s, r).pivot => p = r
                         /\ Fm(s, r).lower \subseteq Elem /\ Fm(s, r).higher \subseteq Elem
                         /\ Fm(s, r).pivot \in Elem
  BY <1>1, PivotIn, Parts
<1>3. ASSUME NEW r \in Live(s), Fm(s, r).pc = "submit"
      PROVE  Fresh(Fm(s, r).lower \cup {Fm(s, r).pivot}, v2)
  <2>1. Fm(s, p).pivot \notin Fm(s, r).lower \cup {Fm(s, r).pivot}
    BY <1>2, <1>3 DEF StackInv, LowerInv
  <2>2. Fresh(Fm(s, r).lower \cup {Fm(s, r).pivot}, v)
    BY <1>3 DEF StackInv, FreshInv
  <2>3. QED  BY <1>2, <2>1, <2>2 DEF Fresh
<1>4. ASSUME NEW i \in DOMAIN q  PROVE Fresh(q[i].data, v2)
  <2>1. PICK r \in Live(s) : q[i].of = Fm(s, r).pivot /\ q[i].data = Fm(s, r).lower
    BY DEF StackInv, QueueInv
  <2>2. ~Inside(s, p, Fm(s, r).lower)
    BY <2>1 DEF StackInv, LowerInv
  <2>3. Fresh(Fm(s, r).lower, v)
    BY <2>1 DEF StackInv, FreshInv
  <2>4. QED  BY <1>2, <2>1, <2>2, <2>3 DEF Fresh
<1>5. ASSUME NEW r \in Live(s), ~Inside(s, p, Fm(s, r).higher), Fresh(Fm(s, r).higher, v)
      PROVE  Fresh(Fm(s, r).higher, v2)
  BY <1>2, <1>5 DEF Fresh
<1>6. QED  BY <1>3, <1>4, <1>5

\* An empty part is sorted.
LEMMA EmptyPart ==
  ASSUME NEW s, NEW q, NEW v, NEW C, StackInv(s, q, v, C),
         NEW p \in Live(s), Waits(s, q, v, p), Fm(s, p).lower = {}
  PROVE  StackInv(s, q, [v EXCEPT ![Fm(s, p).pivot] = <<>>], C)
<1> DEFINE e == Fm(s, p).pivot
           v2 == [v EXCEPT ![e] = <<>>]
<1>1. s \in Stacks /\ ShapeInv(s, C) /\ TreeInv(s) /\ v \in [Elem -> Seq(Elem) \cup {Pending}]
  BY DEF StackInv, Types, Stacks
<1>2. e \in Elem
  BY <1>1, Parts
<1>3. v2 \in [Elem -> Seq(Elem) \cup {Pending}] /\ v2[e] = <<>>
      /\ \A x \in Elem : x # e => v2[x] = v[x]
  BY <1>1, <1>2
<1>a. <<>> # Pending
  BY NameAssumption, EmptySeq
<1> HIDE DEF v2
<1>4. \A r \in Live(s) : /\ r # p => v2[Fm(s, r).pivot] = v[Fm(s, r).pivot]
                         /\ Fm(s, r).pivot \in All(Fm(s, r))
  BY <1>1, <1>3, PivotIn, Parts
<1>5. Types(s, q, v2)
  BY <1>3 DEF StackInv, Types
<1>6. LowerInv(s, q, v2)
  <2> SUFFICES ASSUME NEW p1 \in Live(s), NEW r \in Live(s), Inside(s, r, Fm(s, p1).lower)
               PROVE  v2[Fm(s, p1).pivot] = Pending
    BY DEF LowerInv, StackInv
  <2>1. p1 # p
    BY DEF Waits
  <2>2. QED  BY <1>4, <2>1 DEF StackInv, LowerInv
<1>7. QueueInv(s, q, v2)
  <2> SUFFICES ASSUME NEW i \in DOMAIN q
               PROVE  \E r \in Live(s) : /\ q[i].of = Fm(s, r).pivot /\ q[i].data = Fm(s, r).lower
                                         /\ v2[Fm(s, r).pivot] = Pending /\ Fm(s, r).pc # "submit"
    BY DEF QueueInv, StackInv
  <2>1. PICK r \in Live(s) : /\ q[i].of = Fm(s, r).pivot /\ q[i].data = Fm(s, r).lower
                             /\ v[Fm(s, r).pivot] = Pending /\ Fm(s, r).pc # "submit"
    BY DEF QueueInv, StackInv
  <2>2. r # p
    BY <2>1 DEF Waits
  <2>3. QED  BY <1>4, <2>1, <2>2
<1>8. FreshInv(s, q, v2)
  <2>1. Fm(s, p).pc # "submit"
    BY DEF Waits
  <2>2. /\ \A r \in Live(s) :
             Fm(s, r).pc = "submit" => Fresh(Fm(s, r).lower \cup {Fm(s, r).pivot}, v2)
        /\ \A i \in DOMAIN q : Fresh(q[i].data, v2)
        /\ \A r \in Live(s) : ~Inside(s, p, Fm(s, r).higher) /\ Fresh(Fm(s, r).higher, v) =>
             Fresh(Fm(s, r).higher, v2)
    BY <1>3, <2>1, StillFresh
  <2>3. QED  BY <2>2 DEF StackInv, FreshInv
<1>9. ResultInv(s, v2)
  <2> SUFFICES ASSUME NEW r \in Live(s)
               PROVE  /\ Fm(s, r).pc = "get" => v2[Fm(s, r).pivot] # Pending
                      /\ v2[Fm(s, r).pivot] # Pending => IsSort(v2[Fm(s, r).pivot], Fm(s, r).lower)
    BY DEF StackInv, ResultInv
  <2>1. CASE r = p
    BY <1>3, <1>a, <2>1, SortedEmpty
  <2>2. CASE r # p
    BY <1>4, <2>2 DEF StackInv, ResultInv
  <2>3. QED  BY <2>1, <2>2
<1>10. QED  BY <1>5, <1>6, <1>7, <1>8, <1>9 DEF StackInv, v2

\* f is a call for the elements D that has just begun, with the pivot e.
Begins(f, D, e, j) ==
  /\ f \in Frame /\ All(f) = D
  /\ f.pivot = e /\ f.job = j /\ f.pc = "submit" /\ f.res = <<>>
  /\ f.lower \subseteq D \ {e} /\ f.higher \subseteq D \ {e}
  /\ \A x \in f.lower : Key[x] < Key[e]
  /\ \A x \in f.higher : Key[e] <= Key[x]

\* The call that begins has partitioned its elements.
LEMMA Partition ==
  ASSUME NEW D \in SUBSET Elem, NEW e \in D, NEW j \in Elem \cup {Null}
  PROVE  Begins(NewFrame(e, D, j), D, e, j)
<1> DEFINE lo == {x \in D \ {e} : Key[x] < Key[e]}
           hi == {x \in D \ {e} : Key[x] >= Key[e]}
           N == [pivot |-> e, job |-> j, pc |-> "submit", res |-> <<>>, lower |-> lo, higher |-> hi]
<1>1. \A x \in Elem : Key[x] \in Nat
  BY KeyAssumption
<1>2. {e} \cup lo \cup hi = D
  BY <1>1
<1>3. NewFrame(e, D, j) = N
  BY DEF NewFrame
<1>4. lo \subseteq D \ {e} /\ hi \subseteq D \ {e} /\ (\A x \in lo : Key[x] < Key[e])
      /\ (\A x \in hi : Key[e] <= Key[x])
  BY <1>1
<1> HIDE DEF lo, hi
<1>5. /\ N.pivot = e /\ N.job = j /\ N.pc = "submit" /\ N.res = <<>> /\ N.lower = lo
      /\ N.higher = hi /\ N \in Frame
  BY <1>4, EmptySeq DEF Frame
<1> HIDE DEF N
<1>6. QED  BY <1>2, <1>3, <1>4, <1>5 DEF All, Begins

\* A call begins on the elements of D, for the call j whose lower part they are, or
\* for the one below on the stack, or as the first call of all.
LEMMA Push ==
  ASSUME NEW s, NEW q, NEW v, NEW C, StackInv(s, q, v, C),
         NEW t \in Thread, NEW D \in SUBSET Elem, D \subseteq C, NEW e \in D,
         NEW j \in Elem \cup {Null}, NEW s2, Pushed(s, s2, t, NewFrame(e, D, j)),
         Fresh(D, v),
         \A r \in Live(s) : \/ All(Fm(s, r)) \cap D = {}
                            \/ D \subseteq Fm(s, r).lower \/ D \subseteq Fm(s, r).higher,
         \A r \in Live(s) : D \subseteq Fm(s, r).lower =>
           /\ v[Fm(s, r).pivot] = Pending /\ Fm(s, r).pc # "submit"
           /\ \A i \in DOMAIN q : q[i].of # Fm(s, r).pivot,
         \A r \in Live(s) : D \subseteq Fm(s, r).higher =>
           /\ Fm(s, r).pc = "higher"
           /\ \/ Above(r) \in Live(s) /\ Fm(s, Above(r)).job = Null
              \/ s[t] # <<>> /\ r = TopPos(s, t) /\ j = Null,
         IF j # Null THEN \E r \in Live(s) : Fm(s, r).pivot = j /\ D = Fm(s, r).lower
         ELSE IF s[t] = <<>> THEN t = Main /\ D = C
         ELSE Fm(s, TopPos(s, t)).pc = "higher" /\ D = Fm(s, TopPos(s, t)).higher
  PROVE  StackInv(s2, q, v, C)
<1> DEFINE n == NewPos(s, t)
           N == NewFrame(e, D, j)
<1>1. /\ s \in Stacks /\ s2 \in Stacks /\ Live(s2) = Live(s) \cup {n} /\ Fm(s2, n) = N
      /\ \A r \in Live(s) : Fm(s2, r) = Fm(s, r)
  BY DEF Pushed, StackInv, Types, Stacks
<1>a. Begins(N, D, e, j)
  BY Partition
<1> HIDE DEF n, N
<1>2. /\ All(N) = D /\ N.pivot = e /\ N.job = j /\ N.pc = "submit" /\ N.res = <<>>
      /\ N.lower \subseteq D \ {e} /\ N.higher \subseteq D \ {e}
      /\ \A x \in N.lower : Key[x] < Key[e]
      /\ \A x \in N.higher : Key[e] <= Key[x]
  BY <1>a DEF Begins
<1>3. n \notin Live(s) /\ (s[t] # <<>> => TopPos(s, t) \in Live(s) /\ Above(TopPos(s, t)) = n)
  BY <1>1, TopLive DEF n
<1>4. n[1] = t /\ n[2] = Len(s[t]) + 1
  BY DEF NewPos, n
<1>5. \A r \in Live(s) : /\ All(Fm(s2, r)) = All(Fm(s, r))
                         /\ \A B : Inside(s2, r, B) <=> Inside(s, r, B)
  BY <1>1 DEF Inside
<1>6. \A B : Inside(s2, n, B) <=> D \subseteq B
  BY <1>1, <1>2 DEF Inside
<1>7. \A r \in Live(s) : Inside(s2, r, D) => FALSE
  <2> SUFFICES ASSUME NEW r \in Live(s), Inside(s, r, D)  PROVE FALSE
    BY <1>5
  <2>1. /\ Fm(s, r).pivot \in All(Fm(s, r)) /\ Fm(s, r).pivot \notin Fm(s, r).lower \cup Fm(s, r).higher
    BY <1>1, Parts DEF StackInv
  <2>2. Fm(s, r).pivot \in D
    BY <2>1 DEF Inside
  <2>3. QED  BY <2>1, <2>2
<1>8. ~Inside(s2, n, N.lower) /\ ~Inside(s2, n, N.higher)
  BY <1>2, <1>6
<1>9. \A r \in Live(s) : ~Inside(s2, r, N.lower) /\ ~Inside(s2, r, N.higher)
  BY <1>2, <1>7 DEF Inside
<1>10. Types(s2, q, v)
  BY <1>1 DEF StackInv, Types, Stacks
<1>11. ShapeInv(s2, C)
  <2>1. ASSUME NEW p \in Live(s)
        PROVE  /\ Fm(s2, p).pivot \notin Fm(s2, p).lower \cup Fm(s2, p).higher
               /\ \A x \in Fm(s2, p).lower : Key[x] < Key[Fm(s2, p).pivot]
               /\ \A x \in Fm(s2, p).higher : Key[Fm(s2, p).pivot] <= Key[x]
               /\ Inside(s2, p, C)
    BY <1>1, <1>5 DEF StackInv, ShapeInv
  <2>2. /\ Fm(s2, n).pivot \notin Fm(s2, n).lower \cup Fm(s2, n).higher
        /\ \A x \in Fm(s2, n).lower : Key[x] < Key[Fm(s2, n).pivot]
        /\ \A x \in Fm(s2, n).higher : Key[Fm(s2, n).pivot] <= Key[x]
        /\ Inside(s2, n, C)
    BY <1>1, <1>2, <1>6
  <2>3. QED  BY <1>1, <2>1, <2>2 DEF ShapeInv
<1>12. TreeInv(s2)
  <2>1. ASSUME NEW p \in Live(s), NEW r \in Live(s), p # r
        PROVE  \/ All(Fm(s2, p)) \cap All(Fm(s2, r)) = {}
               \/ Within(s2, p, r) \/ Within(s2, r, p)
    BY <1>1, <1>5, <2>1 DEF StackInv, TreeInv, Within
  <2>2. ASSUME NEW r \in Live(s)
        PROVE  All(Fm(s2, n)) \cap All(Fm(s2, r)) = {} \/ Within(s2, n, r)
    BY <1>1, <1>2, <1>5, <1>6 DEF Within
  <2>3. QED  BY <1>1, <2>1, <2>2 DEF TreeInv
<1>13. LinkInv(s2, C)
  <2>1. ASSUME NEW p \in Live(s)
        PROVE  IF Fm(s2, p).job # Null
               THEN \E r \in Live(s2) : Fm(s2, r).pivot = Fm(s2, p).job
                                        /\ All(Fm(s2, p)) = Fm(s2, r).lower
               ELSE IF p[2] = 1
               THEN p[1] = Main /\ All(Fm(s2, p)) = C
               ELSE Fm(s2, Under(p)).pc = "higher"
                    /\ All(Fm(s2, p)) = Fm(s2, Under(p)).higher
    <3>1. IF Fm(s, p).job # Null
          THEN \E r \in Live(s) : Fm(s, r).pivot = Fm(s, p).job /\ All(Fm(s, p)) = Fm(s, r).lower
          ELSE IF p[2] = 1
          THEN p[1] = Main /\ All(Fm(s, p)) = C
          ELSE Fm(s, Under(p)).pc = "higher" /\ All(Fm(s, p)) = Fm(s, Under(p)).higher
      BY DEF StackInv, LinkInv
    <3>2. p[2] # 1 => Under(p) \in Live(s)
      BY <1>1, Neighbours
    <3>3. Fm(s2, p) = Fm(s, p) /\ (p[2] # 1 => Fm(s2, Under(p)) = Fm(s, Under(p)))
      BY <1>1, <3>2
    <3>4. \A r \in Live(s) : r \in Live(s2) /\ Fm(s2, r) = Fm(s, r)
      BY <1>1
    <3>5. QED  BY <3>1, <3>3, <3>4
  <2>2. IF Fm(s2, n).job # Null
        THEN \E r \in Live(s2) : Fm(s2, r).pivot = Fm(s2, n).job
                                 /\ All(Fm(s2, n)) = Fm(s2, r).lower
        ELSE IF n[2] = 1
        THEN n[1] = Main /\ All(Fm(s2, n)) = C
        ELSE Fm(s2, Under(n)).pc = "higher"
             /\ All(Fm(s2, n)) = Fm(s2, Under(n)).higher
    <3>1. CASE j # Null
      BY <1>1, <1>2, <3>1
    <3>2. CASE j = Null /\ s[t] = <<>>
      BY <1>1, <1>2, <1>4, <3>2
    <3>3. CASE j = Null /\ s[t] # <<>>
      <4>1. TopPos(s, t) \in Live(s) /\ Above(TopPos(s, t)) = n
        BY <1>3, <3>3
      <4>2. Under(n) = TopPos(s, t)
        BY <1>1, <4>1, Neighbours
      <4>3. n[2] # 1
        BY <1>1, <1>4, <3>3 DEF Stacks
      <4>4. QED  BY <1>1, <1>2, <3>3, <4>1, <4>2, <4>3
    <3>4. QED  BY <3>1, <3>2, <3>3
  <2>3. QED  BY <1>1, <2>1, <2>2 DEF LinkInv
<1>14. LowerInv(s2, q, v)
  <2> SUFFICES ASSUME NEW p \in Live(s2), NEW r \in Live(s2), Inside(s2, r, Fm(s2, p).lower)
               PROVE  /\ v[Fm(s2, p).pivot] = Pending /\ Fm(s2, p).pc # "submit"
                      /\ \A i \in DOMAIN q : q[i].of # Fm(s2, p).pivot
    BY DEF LowerInv
  <2>1. p # n
    BY <1>1, <1>8, <1>9
  <2>2. p \in Live(s) /\ Fm(s2, p) = Fm(s, p)
    BY <1>1, <2>1
  <2>3. CASE r = n
    BY <1>6, <2>2, <2>3
  <2>4. CASE r # n
    BY <1>1, <1>5, <2>2, <2>4 DEF StackInv, LowerInv
  <2>5. QED  BY <2>3, <2>4
<1>15. HigherInv(s2)
  <2> SUFFICES ASSUME NEW p \in Live(s2), NEW r \in Live(s2), Inside(s2, r, Fm(s2, p).higher)
               PROVE  /\ Fm(s2, p).pc = "higher" /\ Above(p) \in Live(s2)
                      /\ Fm(s2, Above(p)).job = Null
    BY DEF HigherInv
  <2>1. p # n
    BY <1>1, <1>8, <1>9
  <2>2. p \in Live(s) /\ Fm(s2, p) = Fm(s, p)
    BY <1>1, <2>1
  <2>3. CASE r = n
    BY <1>1, <1>2, <1>3, <1>6, <2>2, <2>3
  <2>4. CASE r # n
    BY <1>1, <1>5, <2>2, <2>4 DEF StackInv, HigherInv
  <2>5. QED  BY <2>3, <2>4
<1>16. QueueInv(s2, q, v)
  BY <1>1 DEF StackInv, QueueInv
<1>17. FreshInv(s2, q, v)
  <2>1. ASSUME NEW p \in Live(s2), Fm(s2, p).pc = "submit"
        PROVE  Fresh(Fm(s2, p).lower \cup {Fm(s2, p).pivot}, v)
    BY <1>1, <1>2, <2>1 DEF StackInv, FreshInv, Fresh
  <2>2. ASSUME NEW p \in Live(s2), Fm(s2, p).pc \in Before,
               \A r \in Live(s2) : ~Inside(s2, r, Fm(s2, p).higher)
        PROVE  Fresh(Fm(s2, p).higher, v)
    <3>1. CASE p = n
      BY <1>1, <1>2, <3>1 DEF Fresh
    <3>2. CASE p # n
      <4>1. p \in Live(s) /\ Fm(s2, p) = Fm(s, p)
        BY <1>1, <3>2
      <4>2. \A r \in Live(s) : ~Inside(s, r, Fm(s, p).higher)
        BY <1>1, <1>5, <2>2, <4>1
      <4>3. QED  BY <2>2, <4>1, <4>2 DEF StackInv, FreshInv
    <3>3. QED  BY <3>1, <3>2
  <2>3. \A i \in DOMAIN q : Fresh(q[i].data, v)
    BY DEF StackInv, FreshInv
  <2>4. QED  BY <2>1, <2>2, <2>3 DEF FreshInv
<1>18. ResultInv(s2, v)
  <2>1. ASSUME NEW p \in Live(s)
        PROVE  /\ Fm(s2, p).pc \in Before => Fm(s2, p).res = <<>>
               /\ Fm(s2, p).pc \in After => IsSort(Fm(s2, p).res, Fm(s2, p).higher)
               /\ Fm(s2, p).pc = "get" => v[Fm(s2, p).pivot] # Pending
               /\ v[Fm(s2, p).pivot] # Pending => IsSort(v[Fm(s2, p).pivot], Fm(s2, p).lower)
    BY <1>1 DEF StackInv, ResultInv
  <2>2. N.pc \notin After /\ N.pc # "get" /\ v[N.pivot] = Pending
    BY <1>2 DEF After, Fresh
  <2>3. QED  BY <1>1, <1>2, <2>1, <2>2 DEF ResultInv
<1>19. QED  BY <1>10, <1>11, <1>12, <1>13, <1>14, <1>15, <1>16, <1>17, <1>18 DEF StackInv

-----------------------------------------------------------------------------
(* The steps of a thread *)

\* sort_chunk(), as a step of the stack s of thread t and of the futures v.
Sorts(t, s, j, v, s2, v2) ==
  IF j.data = {} THEN v2 = [v EXCEPT ![j.of] = <<>>] /\ s2 = s
  ELSE v2 = v /\ \E e \in j.data : s2 = [s EXCEPT ![t] = Append(@, NewFrame(e, j.data, j.of))]

\* Somebody takes a lower part and begins to sort it.
LEMMA TakePart ==
  ASSUME NEW s, NEW q, NEW v, NEW C, StackInv(s, q, v, C),
         NEW t \in Thread, NEW k \in DOMAIN q, NEW s2, NEW v2, Sorts(t, s, q[k], v, s2, v2)
  PROVE  StackInv(s2, Without(q, k), v2, C)
<1> DEFINE q2 == Without(q, k)
<1>1. StackInv(s, q2, v, C)
  BY Dequeue
<1>2. PICK p \in Live(s) : /\ q[k].of = Fm(s, p).pivot /\ q[k].data = Fm(s, p).lower
                           /\ Waits(s, q2, v, p)
  BY Dequeue
<1> HIDE DEF q2
<1>3. s \in Stacks /\ ShapeInv(s, C) /\ TreeInv(s)
  BY DEF StackInv, Types, Stacks
<1>4. CASE q[k].data = {}
  <2>1. StackInv(s, q2, [v EXCEPT ![Fm(s, p).pivot] = <<>>], C)
    BY <1>1, <1>2, <1>4, EmptyPart
  <2>2. s2 = s /\ v2 = [v EXCEPT ![Fm(s, p).pivot] = <<>>]
    BY <1>2, <1>4 DEF Sorts
  <2>3. QED  BY <2>1, <2>2 DEF q2
<1>5. CASE q[k].data # {}
  <2> DEFINE D == Fm(s, p).lower
             j == Fm(s, p).pivot
  <2>1. v2 = v
    BY <1>5 DEF Sorts
  <2>2. PICK e \in D : s2 = [s EXCEPT ![t] = Append(@, NewFrame(e, D, j))]
    BY <1>2, <1>5 DEF Sorts
  <2>3. /\ j \in Elem /\ D \in SUBSET Elem /\ D # {} /\ D \subseteq All(Fm(s, p))
        /\ D \cap Fm(s, p).higher = {}
    BY <1>2, <1>3, <1>5, Parts
  <2>4. D \subseteq C
    BY <1>3, <2>3 DEF ShapeInv, Inside
  <2>5. /\ v[j] = Pending /\ Fm(s, p).pc # "submit" /\ Fresh(D, v)
        /\ \A i \in DOMAIN q2 : q2[i].of # j
        /\ \A r \in Live(s) : ~Inside(s, r, D)
    BY <1>2 DEF Waits
  <2>6. j \in Elem \cup {Null} /\ j # Null
    BY <2>3, NameAssumption
  <2>7. NewFrame(e, D, j) \in Frame
    BY <2>3, <2>6, Partition DEF Begins
  <2> DEFINE f == NewFrame(e, D, j)
  <2>8. Pushed(s, s2, t, f)
    <3> HIDE DEF f
    <3>1. Pushed(s, [s EXCEPT ![t] = Append(@, f)], t, f)
      BY <1>3, <2>7, PushTop DEF f
    <3>2. QED  BY <2>2, <3>1 DEF f
  <2>a. D = Fm(s, p).lower
    OBVIOUS
  <2> HIDE DEF D, j
  <2>9. ASSUME NEW r \in Live(s)
        PROVE  /\ All(Fm(s, r)) \cap D = {} \/ D \subseteq Fm(s, r).lower \/ D \subseteq Fm(s, r).higher
               /\ D \subseteq Fm(s, r).lower => Inside(s, p, Fm(s, r).lower) \/ r = p
               /\ D \subseteq Fm(s, r).higher => Inside(s, p, Fm(s, r).higher)
    <3>1. D = Fm(s, p).lower \/ D = Fm(s, p).higher
      BY <2>a
    <3>2. /\ All(Fm(s, r)) \cap D = {} \/ D \subseteq Fm(s, r).lower \/ D \subseteq Fm(s, r).higher
          /\ D \subseteq Fm(s, r).lower =>
               Inside(s, p, Fm(s, r).lower) \/ (r = p /\ D = Fm(s, p).lower)
          /\ D \subseteq Fm(s, r).higher =>
               Inside(s, p, Fm(s, r).higher) \/ (r = p /\ D = Fm(s, p).higher)
      BY <1>3, <2>3, <2>5, <3>1, Apart
    <3>3. D # Fm(s, p).higher
      BY <2>3
    <3>4. QED  BY <3>2, <3>3
  <2>10. \A r \in Live(s) : D \subseteq Fm(s, r).lower =>
           /\ v[Fm(s, r).pivot] = Pending /\ Fm(s, r).pc # "submit"
           /\ \A i \in DOMAIN q2 : q2[i].of # Fm(s, r).pivot
    BY <1>1, <2>5, <2>9 DEF StackInv, LowerInv, j
  <2>11. \A r \in Live(s) : D \subseteq Fm(s, r).higher =>
           /\ Fm(s, r).pc = "higher"
           /\ Above(r) \in Live(s) /\ Fm(s, Above(r)).job = Null
    BY <1>1, <2>9 DEF StackInv, HigherInv
  <2>12. \E r \in Live(s) : Fm(s, r).pivot = j /\ D = Fm(s, r).lower
    BY DEF j, D
  <2>13. StackInv(s2, q2, v, C)
    BY <1>1, <2>3, <2>4, <2>5, <2>6, <2>8, <2>9, <2>10, <2>11, <2>12, Push
  <2>14. QED  BY <2>1, <2>13 DEF q2
<1>6. QED  BY <1>4, <1>5

\* The top call begins to sort its higher part.
LEMMA HigherPart ==
  ASSUME NEW s, NEW q, NEW v, NEW C, StackInv(s, q, v, C),
         NEW t \in Thread, s[t] # <<>>, Fm(s, TopPos(s, t)).pc = "higher",
         NEW e \in Fm(s, TopPos(s, t)).higher, NEW s2,
         s2 = [s EXCEPT ![t] = Append(@, NewFrame(e, Fm(s, TopPos(s, t)).higher, Null))]
  PROVE  StackInv(s2, q, v, C)
<1> DEFINE p == TopPos(s, t)
           D == Fm(s, p).higher
           f == NewFrame(e, D, Null)
<1>1. s \in Stacks /\ ShapeInv(s, C) /\ TreeInv(s)
  BY DEF StackInv, Types, Stacks
<1>2. p \in Live(s) /\ Above(p) \notin Live(s)
  BY <1>1, TopLive
<1>3. /\ D \in SUBSET Elem /\ D # {} /\ D \subseteq All(Fm(s, p)) /\ D \cap Fm(s, p).lower = {}
  BY <1>1, <1>2, Parts
<1>4. D \subseteq C
  BY <1>1, <1>2, <1>3 DEF ShapeInv, Inside
<1>5. \A r \in Live(s) : ~Inside(s, r, D)
  BY <1>2 DEF StackInv, HigherInv
<1>6. Fresh(D, v)
  BY <1>2, <1>5 DEF StackInv, FreshInv, Before
<1>7. f \in Frame
  BY <1>3, Partition DEF Begins
<1>8. Pushed(s, s2, t, f)
  <2>1. Pushed(s, [s EXCEPT ![t] = Append(@, f)], t, f)
    <3> HIDE DEF f
    <3>1. QED  BY <1>1, <1>7, PushTop
  <2>2. QED  BY <2>1
<1>a. Fm(s, p).pc = "higher" /\ e \in D
  OBVIOUS
<1> HIDE DEF p
<1>12. D = Fm(s, p).higher
  OBVIOUS
<1> HIDE DEF D
<1>9. ASSUME NEW r \in Live(s)
      PROVE  /\ All(Fm(s, r)) \cap D = {} \/ D \subseteq Fm(s, r).lower \/ D \subseteq Fm(s, r).higher
             /\ D \subseteq Fm(s, r).lower => Inside(s, p, Fm(s, r).lower)
             /\ D \subseteq Fm(s, r).higher => Inside(s, p, Fm(s, r).higher) \/ r = p
  <2>1. D = Fm(s, p).lower \/ D = Fm(s, p).higher
    BY <1>12
  <2>2. /\ All(Fm(s, r)) \cap D = {} \/ D \subseteq Fm(s, r).lower \/ D \subseteq Fm(s, r).higher
        /\ D \subseteq Fm(s, r).lower =>
             Inside(s, p, Fm(s, r).lower) \/ (r = p /\ D = Fm(s, p).lower)
        /\ D \subseteq Fm(s, r).higher =>
             Inside(s, p, Fm(s, r).higher) \/ (r = p /\ D = Fm(s, p).higher)
    BY <1>1, <1>2, <1>3, <1>5, <2>1, Apart, ZenonT(60)
  <2>3. D # Fm(s, p).lower
    BY <1>3
  <2>4. QED  BY <2>2, <2>3
<1>10. \A r \in Live(s) : D \subseteq Fm(s, r).lower =>
         /\ v[Fm(s, r).pivot] = Pending /\ Fm(s, r).pc # "submit"
         /\ \A i \in DOMAIN q : q[i].of # Fm(s, r).pivot
  BY <1>2, <1>9 DEF StackInv, LowerInv
<1>11. \A r \in Live(s) : D \subseteq Fm(s, r).higher =>
         /\ Fm(s, r).pc = "higher"
         /\ (Above(r) \in Live(s) /\ Fm(s, Above(r)).job = Null) \/ r = p
  BY <1>2, <1>9, <1>a DEF StackInv, HigherInv
<1>13. QED  BY <1>3, <1>4, <1>6, <1>8, <1>9, <1>10, <1>11, <1>12, <1>a, Push DEF p

\* The top call leaves its lower part for anybody to take.
LEMMA LeavePart ==
  ASSUME NEW s, NEW q, NEW v, NEW C, StackInv(s, q, v, C),
         NEW t \in Thread, s[t] # <<>>, Fm(s, TopPos(s, t)).pc = "submit",
         NEW c \in {"size", "higher"}, NEW s2,
         Changed(s, s2, TopPos(s, t), [Fm(s, TopPos(s, t)) EXCEPT !.pc = c]),
         NEW j, j = [of |-> Fm(s, TopPos(s, t)).pivot, data |-> Fm(s, TopPos(s, t)).lower]
  PROVE  StackInv(s2, Append(q, j), v, C)
<1> DEFINE p == TopPos(s, t)
<1>1. s \in Stacks /\ ShapeInv(s, C) /\ TreeInv(s) /\ p \in Live(s)
  BY TopLive DEF StackInv, Types, Stacks
<1>2. StackInv(s2, q, v, C)
  BY Mark DEF Pc, Before, After
<1>3. Live(s2) = Live(s) /\ Fm(s2, p) = [Fm(s, p) EXCEPT !.pc = c]
      /\ \A r \in Live(s) \ {p} : Fm(s2, r) = Fm(s, r)
  BY DEF Changed
<1>4. Fm(s, p) \in Frame
  BY <1>1, LivePos
<1>a. Fm(s, p).pc = "submit" /\ j = [of |-> Fm(s, p).pivot, data |-> Fm(s, p).lower]
  OBVIOUS
<1> HIDE DEF p
<1>5. Fm(s2, p).pc = c /\ Alike(Fm(s2, p), Fm(s, p))
  BY <1>3, <1>4, GoesOn DEF Alike
<1>6. \A r \in Live(s) : \A D : Inside(s2, r, D) <=> Inside(s, r, D)
  <2> SUFFICES ASSUME NEW r \in Live(s)  PROVE \A D : Inside(s2, r, D) <=> Inside(s, r, D)
    OBVIOUS
  <2>1. Alike(Fm(s2, r), Fm(s, r))
    BY <1>3, <1>5 DEF Alike
  <2>2. QED  BY <2>1, SameElements
<1>7. Fresh(Fm(s, p).lower \cup {Fm(s, p).pivot}, v)
  BY <1>1, <1>a DEF StackInv, FreshInv
<1>8. Fresh(Fm(s, p).lower, v) /\ v[Fm(s, p).pivot] = Pending
  BY <1>7 DEF Fresh
<1>9. \A i \in DOMAIN q : q[i].of # Fm(s, p).pivot
  <2> SUFFICES ASSUME NEW i \in DOMAIN q, q[i].of = Fm(s, p).pivot  PROVE FALSE
    OBVIOUS
  <2>1. PICK r \in Live(s) : q[i].of = Fm(s, r).pivot /\ Fm(s, r).pc # "submit"
    BY DEF StackInv, QueueInv
  <2>2. r = p
    BY <1>1, <2>1, PivotIn
  <2>3. QED  BY <1>a, <2>1, <2>2
<1>10. \A r \in Live(s) : ~Inside(s, r, Fm(s, p).lower)
  BY <1>1, <1>a DEF StackInv, LowerInv
<1>11. /\ Fm(s2, p).pivot = Fm(s, p).pivot /\ Fm(s2, p).lower = Fm(s, p).lower
       /\ Fm(s2, p).pc # "submit"
  BY <1>5 DEF Alike
<1>12. \A r \in Live(s2) : ~Inside(s2, r, Fm(s2, p).lower)
  BY <1>3, <1>6, <1>10, <1>11
<1>13. j = [of |-> Fm(s2, p).pivot, data |-> Fm(s2, p).lower] /\ p \in Live(s2)
  BY <1>1, <1>3, <1>11, <1>a
<1>14. QED  BY <1>2, <1>8, <1>9, <1>11, <1>12, <1>13, Enqueue

\* What a call returns: the elements it was called for, sorted.
LEMMA ReturnsSorted ==
  ASSUME NEW s, NEW q, NEW v, NEW C, StackInv(s, q, v, C),
         NEW p \in Live(s), Fm(s, p).pc = "get"
  PROVE  IsSort(v[Fm(s, p).pivot] \o <<Fm(s, p).pivot>> \o Fm(s, p).res, All(Fm(s, p)))
<1>1. s \in Stacks /\ ShapeInv(s, C) /\ TreeInv(s)
  BY DEF StackInv, Types, Stacks
<1>2. /\ Fm(s, p).lower \in SUBSET Elem /\ Fm(s, p).higher \in SUBSET Elem /\ Fm(s, p).pivot \in Elem
      /\ Fm(s, p).pivot \notin Fm(s, p).lower \cup Fm(s, p).higher
      /\ \A x \in Fm(s, p).lower : Key[x] < Key[Fm(s, p).pivot]
      /\ \A x \in Fm(s, p).higher : Key[Fm(s, p).pivot] <= Key[x]
  BY <1>1, Parts DEF ShapeInv
<1>3. IsSort(v[Fm(s, p).pivot], Fm(s, p).lower) /\ IsSort(Fm(s, p).res, Fm(s, p).higher)
  BY DEF StackInv, ResultInv, After
<1>4. All(Fm(s, p)) = {Fm(s, p).pivot} \cup Fm(s, p).lower \cup Fm(s, p).higher
  BY DEF All
<1> DEFINE L == Fm(s, p).lower
           H == Fm(s, p).higher
           e == Fm(s, p).pivot
           a == v[e]
           b == Fm(s, p).res
<1> HIDE DEF L, H, e, a, b
<1>5. /\ L \in SUBSET Elem /\ H \in SUBSET Elem /\ e \in Elem /\ e \notin L \cup H
      /\ \A x \in L : Key[x] < Key[e]
      /\ \A x \in H : Key[e] <= Key[x]
  BY <1>2 DEF L, H, e
<1>6. IsSort(a, L) /\ IsSort(b, H)
  BY <1>3 DEF L, H, e, a, b
<1>7. IsSort(a \o <<e>> \o b, {e} \cup L \cup H)
  BY <1>5, <1>6, SortedJoin
<1>8. QED  BY <1>4, <1>7 DEF L, H, e, a, b

\* A call at work in a part of another call, from which the part came that it sorts itself.
LEMMA Whose ==
  ASSUME NEW s, NEW q, NEW v, NEW C, StackInv(s, q, v, C),
         NEW p \in Live(s), Fm(s, p).pc = "get",
         NEW g \in Live(s), g # p,
         All(Fm(s, p)) = Fm(s, g).lower \/ All(Fm(s, p)) = Fm(s, g).higher,
         NEW r \in Live(s), r # p, Inside(s, p, Fm(s, r).higher)
  PROVE  Inside(s, g, Fm(s, r).higher) \/ (r = g /\ All(Fm(s, p)) = Fm(s, g).higher)
<1>1. s \in Stacks /\ ShapeInv(s, C) /\ TreeInv(s)
  BY DEF StackInv, Types, Stacks
<1>2. ~Inside(s, r, All(Fm(s, p)))
  BY GetAlone
<1> DEFINE A == All(Fm(s, p))
           a == Fm(s, g)
           b == Fm(s, r)
<1>3. /\ a.lower \cap a.higher = {} /\ a.lower \subseteq All(a) /\ a.higher \subseteq All(a)
      /\ b.lower \cap b.higher = {} /\ b.lower \subseteq All(b) /\ b.higher \subseteq All(b)
      /\ Fm(s, p).pivot \in A
  BY <1>1, Parts
<1>4. A \subseteq b.higher /\ ~(All(b) \subseteq A) /\ (A = a.lower \/ A = a.higher)
  BY <1>2 DEF Inside
<1>5. g = r \/ All(a) \cap All(b) = {} \/ All(a) \subseteq b.lower \/ All(a) \subseteq b.higher
      \/ All(b) \subseteq a.lower \/ All(b) \subseteq a.higher
  BY <1>1 DEF TreeInv, Within, Inside
<1>6. g = r => a = b
  OBVIOUS
<1> SUFFICES All(a) \subseteq b.higher \/ (r = g /\ A = a.higher)
  BY DEF Inside
<1>7. A # {}
  BY <1>3
<1> HIDE DEF A, a, b
<1>8. QED  BY <1>3, <1>4, <1>5, <1>6, <1>7

\* The top call has sorted the lower part of another call, and keeps its promise.
LEMMA KeepPromise ==
  ASSUME NEW s, NEW q, NEW v, NEW C, StackInv(s, q, v, C),
         NEW t \in Thread, s[t] # <<>>,
         Fm(s, TopPos(s, t)).pc = "get", Fm(s, TopPos(s, t)).job # Null,
         NEW s2, Popped(s, s2, t), NEW R, IsSort(R, All(Fm(s, TopPos(s, t))))
  PROVE  StackInv(s2, q, [v EXCEPT ![Fm(s, TopPos(s, t)).job] = R], C)
<1> DEFINE p == TopPos(s, t)
           j == Fm(s, p).job
           v2 == [v EXCEPT ![j] = R]
<1>1. /\ s \in Stacks /\ ShapeInv(s, C) /\ TreeInv(s) /\ v \in [Elem -> Seq(Elem) \cup {Pending}]
      /\ p \in Live(s) /\ Above(p) \notin Live(s)
  BY TopLive DEF StackInv, Types, Stacks
<1>2. /\ s2 \in Stacks /\ Live(s2) = Live(s) \ {p}
      /\ \A r \in Live(s) \ {p} : Fm(s2, r) = Fm(s, r)
  BY DEF Popped
<1>a. Fm(s, p).pc = "get" /\ j # Null /\ IsSort(R, All(Fm(s, p)))
  OBVIOUS
<1> HIDE DEF p
<1>3. PICK g \in Live(s) : Fm(s, g).pivot = j /\ All(Fm(s, p)) = Fm(s, g).lower
  BY <1>1, <1>a DEF StackInv, LinkInv
<1>4. j \in Elem /\ \A r \in Live(s) : /\ Fm(s, r).pivot \in All(Fm(s, r))
                                       /\ Fm(s, r).pivot \notin Fm(s, r).lower \cup Fm(s, r).higher
                                       /\ Fm(s, r).lower \cap Fm(s, r).higher = {}
                                       /\ Fm(s, r).pivot \in Elem
  <2>1. \A r \in Live(s) : /\ Fm(s, r).pivot \in All(Fm(s, r))
                           /\ Fm(s, r).pivot \notin Fm(s, r).lower \cup Fm(s, r).higher
                           /\ Fm(s, r).lower \cap Fm(s, r).higher = {}
                           /\ Fm(s, r).pivot \in Elem
    BY <1>1, Parts
  <2>2. QED  BY <1>3, <2>1
<1>5. g # p
  BY <1>1, <1>3, <1>4
<1>6. \A r \in Live(s) \ {p} : ~Inside(s, r, All(Fm(s, p)))
  BY <1>1, <1>a, GetAlone
<1>b. R \in Seq(Elem) /\ R # Pending
  BY <1>a, NameAssumption DEF IsSort
<1>7. v2 \in [Elem -> Seq(Elem) \cup {Pending}] /\ v2[j] = R
      /\ \A x \in Elem : x # j => v2[x] = v[x]
  BY <1>1, <1>4, <1>b
<1> HIDE DEF j, v2
<1>8. \A r \in Live(s) : r # g => v2[Fm(s, r).pivot] = v[Fm(s, r).pivot]
  BY <1>1, <1>3, <1>4, <1>7, PivotIn
<1>9. Inside(s, p, Fm(s, g).lower)
  BY <1>3 DEF Inside
<1>c. \A r \in Live(s) \ {p} : \A D : Inside(s2, r, D) <=> Inside(s, r, D)
  BY <1>2 DEF Inside
<1>10. Types(s2, q, v2)
  BY <1>2, <1>7 DEF StackInv, Types, Stacks
<1>11. ShapeInv(s2, C)
  BY <1>2, <1>c DEF StackInv, ShapeInv
<1>12. TreeInv(s2)
  <2>1. \A r1, r2 \in Live(s) \ {p} : Within(s2, r1, r2) <=> Within(s, r1, r2)
    BY <1>2, <1>c DEF Within
  <2>2. QED  BY <1>2, <2>1 DEF StackInv, TreeInv
<1>13. LinkInv(s2, C)
  <2> SUFFICES ASSUME NEW r \in Live(s) \ {p}
               PROVE  IF Fm(s2, r).job # Null
                      THEN \E r1 \in Live(s) \ {p} : Fm(s2, r1).pivot = Fm(s2, r).job
                                                     /\ All(Fm(s2, r)) = Fm(s2, r1).lower
                      ELSE IF r[2] = 1
                      THEN r[1] = Main /\ All(Fm(s2, r)) = C
                      ELSE Fm(s2, Under(r)).pc = "higher"
                           /\ All(Fm(s2, r)) = Fm(s2, Under(r)).higher
    BY <1>2 DEF LinkInv
  <2>1. IF Fm(s, r).job # Null
        THEN \E r1 \in Live(s) : Fm(s, r1).pivot = Fm(s, r).job /\ All(Fm(s, r)) = Fm(s, r1).lower
        ELSE IF r[2] = 1
        THEN r[1] = Main /\ All(Fm(s, r)) = C
        ELSE Fm(s, Under(r)).pc = "higher" /\ All(Fm(s, r)) = Fm(s, Under(r)).higher
    BY DEF StackInv, LinkInv
  <2>2. r[2] # 1 => Under(r) \in Live(s) \ {p}
    BY <1>1, Neighbours
  <2>3. Fm(s2, r) = Fm(s, r) /\ (r[2] # 1 => Fm(s2, Under(r)) = Fm(s, Under(r)))
    BY <1>2, <2>2
  <2>4. All(Fm(s, r)) # Fm(s, p).lower
    BY <1>6 DEF Inside, All
  <2>5. CASE Fm(s, r).job # Null
    <3>1. PICK r1 \in Live(s) : Fm(s, r1).pivot = Fm(s, r).job /\ All(Fm(s, r)) = Fm(s, r1).lower
      BY <2>1, <2>5
    <3>2. r1 # p
      BY <2>4, <3>1
    <3>3. QED  BY <1>2, <2>3, <2>5, <3>1, <3>2
  <2>6. CASE Fm(s, r).job = Null
    BY <2>1, <2>3, <2>6
  <2>7. QED  BY <2>5, <2>6
<1>14. LowerInv(s2, q, v2)
  <2> SUFFICES ASSUME NEW p1 \in Live(s) \ {p}, NEW r \in Live(s) \ {p},
                      Inside(s, r, Fm(s, p1).lower)
               PROVE  /\ v2[Fm(s, p1).pivot] = Pending /\ Fm(s, p1).pc # "submit"
                      /\ \A i \in DOMAIN q : q[i].of # Fm(s, p1).pivot
    BY <1>2, <1>c DEF LowerInv
  <2>1. p1 # g
    BY <1>3, <1>6
  <2>2. QED  BY <1>8, <2>1 DEF StackInv, LowerInv
<1>15. HigherInv(s2)
  <2> SUFFICES ASSUME NEW p1 \in Live(s) \ {p}, NEW r \in Live(s) \ {p},
                      Inside(s, r, Fm(s, p1).higher)
               PROVE  /\ Fm(s, p1).pc = "higher" /\ Above(p1) \in Live(s2)
                      /\ Fm(s2, Above(p1)).job = Null
    BY <1>2, <1>c DEF HigherInv
  <2>1. Fm(s, p1).pc = "higher" /\ Above(p1) \in Live(s) /\ Fm(s, Above(p1)).job = Null
    BY DEF StackInv, HigherInv
  <2>2. Above(p1) # p
    BY <1>a, <2>1 DEF j
  <2>3. QED  BY <1>2, <2>1, <2>2
<1>16. QueueInv(s2, q, v2)
  <2>1. ASSUME NEW i \in DOMAIN q
        PROVE  \E r \in Live(s2) : /\ q[i].of = Fm(s2, r).pivot /\ q[i].data = Fm(s2, r).lower
                                   /\ v2[Fm(s2, r).pivot] = Pending /\ Fm(s2, r).pc # "submit"
    <3>1. PICK r \in Live(s) : /\ q[i].of = Fm(s, r).pivot /\ q[i].data = Fm(s, r).lower
                               /\ v[Fm(s, r).pivot] = Pending /\ Fm(s, r).pc # "submit"
      BY DEF StackInv, QueueInv
    <3>2. r # p
      BY <1>a, <3>1 DEF StackInv, ResultInv
    <3>3. r # g
      BY <1>1, <1>9, <3>1 DEF StackInv, LowerInv
    <3>4. QED  BY <1>2, <1>8, <3>1, <3>2, <3>3
  <2>2. QED  BY <2>1 DEF StackInv, QueueInv
<1>17. FreshInv(s2, q, v2)
  <2>1. Fm(s, g).pc # "submit"
    BY <1>1, <1>9 DEF StackInv, LowerInv
  <2>2. \A x \in Elem : x # Fm(s, g).pivot => v2[x] = v[x]
    BY <1>3, <1>7
  <2>3. /\ \A r \in Live(s) :
             Fm(s, r).pc = "submit" => Fresh(Fm(s, r).lower \cup {Fm(s, r).pivot}, v2)
        /\ \A i \in DOMAIN q : Fresh(q[i].data, v2)
        /\ \A r \in Live(s) : ~Inside(s, g, Fm(s, r).higher) /\ Fresh(Fm(s, r).higher, v) =>
             Fresh(Fm(s, r).higher, v2)
    BY <2>1, <2>2, StillFresh
  <2>4. ASSUME NEW p1 \in Live(s) \ {p}, Fm(s, p1).pc \in Before,
               \A r \in Live(s) \ {p} : ~Inside(s, r, Fm(s, p1).higher)
        PROVE  Fresh(Fm(s, p1).higher, v2)
    <3>1. ~Inside(s, g, Fm(s, p1).higher)
      BY <1>5, <2>4
    <3>2. All(Fm(s, p)) # Fm(s, g).higher
      BY <1>1, <1>3, <1>4
    <3>3. ~Inside(s, p, Fm(s, p1).higher)
      BY <1>1, <1>3, <1>5, <1>a, <3>1, <3>2, Whose
    <3>4. \A r \in Live(s) : ~Inside(s, r, Fm(s, p1).higher)
      BY <2>4, <3>3
    <3>5. Fresh(Fm(s, p1).higher, v)
      BY <2>4, <3>4 DEF StackInv, FreshInv
    <3>6. QED  BY <2>3, <3>1, <3>5
  <2>5. QED  BY <1>2, <1>c, <2>3, <2>4 DEF FreshInv
<1>18. ResultInv(s2, v2)
  <2> SUFFICES ASSUME NEW r \in Live(s) \ {p}
               PROVE  /\ Fm(s, r).pc \in Before => Fm(s, r).res = <<>>
                      /\ Fm(s, r).pc \in After => IsSort(Fm(s, r).res, Fm(s, r).higher)
                      /\ Fm(s, r).pc = "get" => v2[Fm(s, r).pivot] # Pending
                      /\ v2[Fm(s, r).pivot] # Pending =>
                           IsSort(v2[Fm(s, r).pivot], Fm(s, r).lower)
    BY <1>2 DEF ResultInv
  <2>1. /\ Fm(s, r).pc \in Before => Fm(s, r).res = <<>>
        /\ Fm(s, r).pc \in After => IsSort(Fm(s, r).res, Fm(s, r).higher)
        /\ Fm(s, r).pc = "get" => v[Fm(s, r).pivot] # Pending
        /\ v[Fm(s, r).pivot] # Pending => IsSort(v[Fm(s, r).pivot], Fm(s, r).lower)
    BY DEF StackInv, ResultInv
  <2>2. CASE r = g
    BY <1>3, <1>7, <1>a, <1>b, <2>1, <2>2
  <2>3. CASE r # g
    BY <1>8, <2>1, <2>3
  <2>4. QED  BY <2>2, <2>3
<1>19. StackInv(s2, q, v2, C)
  BY <1>10, <1>11, <1>12, <1>13, <1>14, <1>15, <1>16, <1>17, <1>18 DEF StackInv
<1>20. QED  BY <1>19 DEF v2, j, p

\* s2 is s without the last frame on the stack of t, and with the frame f below it.
Returned(s, s2, t, f) ==
  /\ s2 \in Stacks /\ Live(s2) = Live(s) \ {TopPos(s, t)} /\ Fm(s2, Under(TopPos(s, t))) = f
  /\ \A r \in Live(s) \ {TopPos(s, t), Under(TopPos(s, t))} : Fm(s2, r) = Fm(s, r)

\* The top call has sorted the higher part of the call below it, which goes on.
LEMMA PassHigher ==
  ASSUME NEW s, NEW q, NEW v, NEW C, StackInv(s, q, v, C),
         NEW t \in Thread, s[t] # <<>>, TopPos(s, t)[2] # 1,
         Fm(s, TopPos(s, t)).pc = "get", Fm(s, TopPos(s, t)).job = Null,
         NEW s2, NEW R, IsSort(R, All(Fm(s, TopPos(s, t)))),
         NEW f, Alike(f, Fm(s, Under(TopPos(s, t)))), f.res = R, f.pc = "wait",
         Returned(s, s2, t, f)
  PROVE  StackInv(s2, q, v, C)
<1> DEFINE p == TopPos(s, t)
           u == Under(p)
<1>1. /\ s \in Stacks /\ ShapeInv(s, C) /\ TreeInv(s) /\ v \in [Elem -> Seq(Elem) \cup {Pending}]
      /\ p \in Live(s) /\ Above(p) \notin Live(s)
  BY TopLive DEF StackInv, Types, Stacks
<1>2. /\ s2 \in Stacks /\ Live(s2) = Live(s) \ {p} /\ Fm(s2, u) = f
      /\ \A r \in Live(s) \ {p, u} : Fm(s2, r) = Fm(s, r)
  BY DEF Returned
<1>a. /\ Fm(s, p).pc = "get" /\ Fm(s, p).job = Null /\ IsSort(R, All(Fm(s, p)))
      /\ p[2] # 1 /\ Alike(f, Fm(s, u))
  OBVIOUS
<1>b. u \in Live(s) /\ Above(u) = p /\ u # p
  <2>1. u \in Live(s) /\ Above(u) = p
    BY <1>1, <1>a, Neighbours
  <2>2. QED  BY <1>1, <2>1
<1> HIDE DEF p, u
<1>3. Fm(s, u).pc = "higher" /\ All(Fm(s, p)) = Fm(s, u).higher
  <2>1. Fm(s, Under(p)).pc = "higher" /\ All(Fm(s, p)) = Fm(s, Under(p)).higher
    BY <1>1, <1>a DEF StackInv, LinkInv
  <2>2. QED  BY <2>1 DEF u
<1>4. \A r \in Live(s) : /\ Fm(s, r).pivot \in All(Fm(s, r))
                         /\ Fm(s, r).pivot \notin Fm(s, r).lower \cup Fm(s, r).higher
                         /\ Fm(s, r).lower \cap Fm(s, r).higher = {}
  BY <1>1, Parts
<1>6. \A r \in Live(s) \ {p} : ~Inside(s, r, All(Fm(s, p)))
  BY <1>1, <1>a, GetAlone
<1>7. \A r \in Live(s) \ {p} : Alike(Fm(s2, r), Fm(s, r))
  BY <1>2, <1>a DEF Alike
<1>c. \A r \in Live(s) \ {p} : /\ All(Fm(s2, r)) = All(Fm(s, r))
                               /\ \A D : Inside(s2, r, D) <=> Inside(s, r, D)
  BY <1>7, SameElements
<1>8. \A r \in Live(s) \ {p} :
        /\ Fm(s2, r).pivot = Fm(s, r).pivot /\ Fm(s2, r).job = Fm(s, r).job
        /\ Fm(s2, r).lower = Fm(s, r).lower /\ Fm(s2, r).higher = Fm(s, r).higher
        /\ r # u => Fm(s2, r).pc = Fm(s, r).pc /\ Fm(s2, r).res = Fm(s, r).res
  BY <1>2, <1>7 DEF Alike
<1>9. Fm(s2, u).pc = "wait" /\ Fm(s2, u).res = R
  BY <1>2
<1>10. Types(s2, q, v)
  BY <1>2 DEF StackInv, Types, Stacks
<1>11. ShapeInv(s2, C)
  BY <1>2, <1>8, <1>c DEF StackInv, ShapeInv
<1>12. TreeInv(s2)
  <2>1. \A r1, r2 \in Live(s) \ {p} : Within(s2, r1, r2) <=> Within(s, r1, r2)
    BY <1>8, <1>c DEF Within
  <2>2. QED  BY <1>2, <1>c, <2>1 DEF StackInv, TreeInv
<1>13. LinkInv(s2, C)
  <2> SUFFICES ASSUME NEW r \in Live(s) \ {p}
               PROVE  IF Fm(s2, r).job # Null
                      THEN \E r1 \in Live(s) \ {p} : Fm(s2, r1).pivot = Fm(s2, r).job
                                                     /\ All(Fm(s2, r)) = Fm(s2, r1).lower
                      ELSE IF r[2] = 1
                      THEN r[1] = Main /\ All(Fm(s2, r)) = C
                      ELSE Fm(s2, Under(r)).pc = "higher"
                           /\ All(Fm(s2, r)) = Fm(s2, Under(r)).higher
    BY <1>2 DEF LinkInv
  <2>1. IF Fm(s, r).job # Null
        THEN \E r1 \in Live(s) : Fm(s, r1).pivot = Fm(s, r).job /\ All(Fm(s, r)) = Fm(s, r1).lower
        ELSE IF r[2] = 1
        THEN r[1] = Main /\ All(Fm(s, r)) = C
        ELSE Fm(s, Under(r)).pc = "higher" /\ All(Fm(s, r)) = Fm(s, Under(r)).higher
    BY DEF StackInv, LinkInv
  <2>2. r[2] # 1 => Under(r) \in Live(s) \ {p, u}
    <3>1. r[2] # 1 => Under(r) \in Live(s) /\ Above(Under(r)) = r
      BY <1>1, Neighbours
    <3>2. QED  BY <1>1, <1>b, <3>1
  <2>3. r[2] # 1 => Fm(s2, Under(r)) = Fm(s, Under(r))
    BY <1>2, <2>2
  <2>4. All(Fm(s, r)) # Fm(s, p).lower
    BY <1>6 DEF Inside, All
  <2>5. CASE Fm(s, r).job # Null
    <3>1. PICK r1 \in Live(s) : Fm(s, r1).pivot = Fm(s, r).job /\ All(Fm(s, r)) = Fm(s, r1).lower
      BY <2>1, <2>5
    <3>2. r1 # p
      BY <2>4, <3>1
    <3>3. QED  BY <1>8, <1>c, <2>5, <3>1, <3>2
  <2>6. CASE Fm(s, r).job = Null
    BY <1>8, <1>c, <2>1, <2>3, <2>6
  <2>7. QED  BY <2>5, <2>6
<1>14. LowerInv(s2, q, v)
  <2> SUFFICES ASSUME NEW p1 \in Live(s) \ {p}, NEW r \in Live(s) \ {p},
                      Inside(s, r, Fm(s, p1).lower)
               PROVE  /\ v[Fm(s, p1).pivot] = Pending /\ Fm(s2, p1).pc # "submit"
                      /\ \A i \in DOMAIN q : q[i].of # Fm(s, p1).pivot
    BY <1>2, <1>8, <1>c DEF LowerInv
  <2>1. /\ v[Fm(s, p1).pivot] = Pending /\ Fm(s, p1).pc # "submit"
        /\ \A i \in DOMAIN q : q[i].of # Fm(s, p1).pivot
    BY DEF StackInv, LowerInv
  <2>2. Fm(s2, p1).pc # "submit"
    BY <1>8, <1>9, <2>1
  <2>3. QED  BY <2>1, <2>2
<1>15. HigherInv(s2)
  <2> SUFFICES ASSUME NEW p1 \in Live(s) \ {p}, NEW r \in Live(s) \ {p},
                      Inside(s, r, Fm(s, p1).higher)
               PROVE  /\ Fm(s2, p1).pc = "higher" /\ Above(p1) \in Live(s) \ {p}
                      /\ Fm(s2, Above(p1)).job = Null
    BY <1>2, <1>8, <1>c DEF HigherInv
  <2>1. Fm(s, p1).pc = "higher" /\ Above(p1) \in Live(s) /\ Fm(s, Above(p1)).job = Null
    BY DEF StackInv, HigherInv
  <2>2. p1 # u
    BY <1>3, <1>6
  <2>3. Above(p1) # p
    <3>1. \A r1 \in Live(s) : Above(p1) = Above(r1) => p1 = r1
      BY <1>1, Neighbours
    <3>2. QED  BY <1>b, <2>2, <3>1
  <2>4. QED  BY <1>8, <2>1, <2>2, <2>3
<1>16. QueueInv(s2, q, v)
  <2>1. ASSUME NEW i \in DOMAIN q
        PROVE  \E r \in Live(s2) : /\ q[i].of = Fm(s2, r).pivot /\ q[i].data = Fm(s2, r).lower
                                   /\ v[Fm(s2, r).pivot] = Pending /\ Fm(s2, r).pc # "submit"
    <3>1. PICK r \in Live(s) : /\ q[i].of = Fm(s, r).pivot /\ q[i].data = Fm(s, r).lower
                               /\ v[Fm(s, r).pivot] = Pending /\ Fm(s, r).pc # "submit"
      BY DEF StackInv, QueueInv
    <3>2. r # p
      BY <1>a, <3>1 DEF StackInv, ResultInv
    <3>3. Fm(s2, r).pc # "submit"
      BY <1>8, <1>9, <3>1, <3>2
    <3>4. QED  BY <1>2, <1>8, <3>1, <3>2, <3>3
  <2>2. QED  BY <2>1 DEF StackInv, QueueInv
<1>17. FreshInv(s2, q, v)
  <2>1. ASSUME NEW r \in Live(s) \ {p}, Fm(s2, r).pc = "submit"
        PROVE  Fresh(Fm(s, r).lower \cup {Fm(s, r).pivot}, v)
    <3>1. Fm(s, r).pc = "submit"
      BY <1>8, <1>9, <2>1
    <3>2. QED  BY <3>1 DEF StackInv, FreshInv
  <2>2. \A i \in DOMAIN q : Fresh(q[i].data, v)
    BY DEF StackInv, FreshInv
  <2>4. ASSUME NEW p1 \in Live(s) \ {p}, Fm(s2, p1).pc \in Before,
               \A r \in Live(s) \ {p} : ~Inside(s, r, Fm(s, p1).higher)
        PROVE  Fresh(Fm(s, p1).higher, v)
    <3>1. p1 # u /\ Fm(s, p1).pc \in Before
      BY <1>8, <1>9, <2>4 DEF Before
    <3>2. ~Inside(s, u, Fm(s, p1).higher)
      BY <1>b, <2>4
    <3>3. ~Inside(s, p, Fm(s, p1).higher)
      BY <1>1, <1>3, <1>a, <1>b, <3>1, <3>2, Whose
    <3>4. \A r \in Live(s) : ~Inside(s, r, Fm(s, p1).higher)
      BY <2>4, <3>3
    <3>5. QED  BY <3>1, <3>4 DEF StackInv, FreshInv
  <2>5. QED  BY <1>2, <1>8, <1>c, <2>1, <2>2, <2>4 DEF FreshInv
<1>18. ResultInv(s2, v)
  <2> SUFFICES ASSUME NEW r \in Live(s) \ {p}
               PROVE  /\ Fm(s2, r).pc \in Before => Fm(s2, r).res = <<>>
                      /\ Fm(s2, r).pc \in After => IsSort(Fm(s2, r).res, Fm(s, r).higher)
                      /\ Fm(s2, r).pc = "get" => v[Fm(s, r).pivot] # Pending
                      /\ v[Fm(s, r).pivot] # Pending =>
                           IsSort(v[Fm(s, r).pivot], Fm(s, r).lower)
    BY <1>2, <1>8 DEF ResultInv
  <2>1. /\ Fm(s, r).pc \in Before => Fm(s, r).res = <<>>
        /\ Fm(s, r).pc \in After => IsSort(Fm(s, r).res, Fm(s, r).higher)
        /\ Fm(s, r).pc = "get" => v[Fm(s, r).pivot] # Pending
        /\ v[Fm(s, r).pivot] # Pending => IsSort(v[Fm(s, r).pivot], Fm(s, r).lower)
    BY DEF StackInv, ResultInv
  <2>2. CASE r = u
    <3>1. IsSort(R, Fm(s, u).higher)
      BY <1>3, <1>a
    <3>2. QED  BY <1>9, <2>1, <2>2, <3>1 DEF Before
  <2>3. CASE r # u
    BY <1>8, <2>1, <2>3
  <2>4. QED  BY <2>2, <2>3
<1>19. QED
  BY <1>10, <1>11, <1>12, <1>13, <1>14, <1>15, <1>16, <1>17, <1>18 DEF StackInv

\* When the first call of all returns, nobody works any more.
LEMMA LastOne ==
  ASSUME NEW s, NEW q, NEW v, NEW C, StackInv(s, q, v, C),
         NEW p \in Live(s), Fm(s, p).pc = "get", Fm(s, p).job = Null, p[2] = 1
  PROVE  p[1] = Main /\ Live(s) = {p} /\ q = <<>> /\ All(Fm(s, p)) = C
<1>1. p[1] = Main /\ All(Fm(s, p)) = C
  BY DEF StackInv, LinkInv
<1>2. Live(s) = {p}
  <2> SUFFICES ASSUME NEW r \in Live(s), r # p  PROVE FALSE
    OBVIOUS
  <2>1. Inside(s, r, C)
    BY DEF StackInv, ShapeInv
  <2>2. QED  BY <1>1, <2>1, GetAlone
<1>3. \A i \in DOMAIN q : FALSE
  BY <1>2 DEF StackInv, QueueInv, ResultInv
<1>4. q \in Seq([of : Elem, data : SUBSET Elem])
  BY DEF StackInv, Types
<1>5. q = <<>>
  <2> SUFFICES ASSUME q # <<>>  PROVE FALSE
    OBVIOUS
  <2>1. Len(q) \in Nat \ {0} /\ DOMAIN q = 1..Len(q)
    BY <1>4, EmptySeq
  <2>2. 1 \in DOMAIN q
    BY <2>1
  <2>3. QED  BY <1>3, <2>2
<1>6. QED  BY <1>1, <1>2, <1>5

\* Without calls there is nothing to say.
LEMMA NoCalls ==
  ASSUME NEW s, NEW q, NEW v, NEW C, Types(s, q, v), Live(s) = {}, q = <<>>
  PROVE  StackInv(s, q, v, C)
BY DEF StackInv, ShapeInv, TreeInv, LinkInv, LowerInv, HigherInv, QueueInv, FreshInv, ResultInv

-----------------------------------------------------------------------------
(* The actions, on the stacks *)

SI == StackInv(frames, queue, fut, input)

LEMMA ReplaceLast ==
  ASSUME NEW z \in Seq(Frame), z # <<>>, NEW f \in Frame
  PROVE  [z EXCEPT ![Len(z)] = f] = Append(SubSeq(z, 1, Len(z) - 1), f)
<1> DEFINE n == Len(z)
           b == SubSeq(z, 1, n - 1)
           w == Append(b, f)
<1>1. n \in Nat \ {0} /\ \A i \in 1..n : z[i] \in Frame
  BY EmptySeq, ElementOfSeq
<1>2. b \in Seq(Frame) /\ Len(b) = n - 1 /\ \A i \in 1..n - 1 : b[i] = z[i]
  <2>1. \A i \in 1..n - 1 : z[i] \in Frame
    BY <1>1
  <2>2. n - 1 \in Int /\ 1 \in Int
    BY <1>1
  <2>3. /\ b \in Seq(Frame) /\ Len(b) = (IF 1 <= n - 1 THEN n - 1 - 1 + 1 ELSE 0)
        /\ \A i \in 1..n - 1 - 1 + 1 : b[i] = z[1 + i - 1]
    BY <2>1, <2>2, SubSeqProperties
  <2> HIDE DEF b, n
  <2>4. \A i \in 1..n - 1 : i \in 1..n - 1 - 1 + 1 /\ 1 + i - 1 = i
    BY <1>1
  <2>5. Len(b) = n - 1
    BY <1>1, <2>3
  <2>6. QED  BY <2>3, <2>4, <2>5
<1> HIDE DEF b
<1>3. w \in Seq(Frame) /\ Len(w) = n /\ w[n] = f /\ \A i \in 1..n - 1 : w[i] = z[i]
  BY <1>1, <1>2, AppendProperties
<1> DEFINE y == [z EXCEPT ![n] = f]
<1>4. y \in Seq(Frame) /\ Len(y) = n /\ \A i \in 1..n : y[i] = IF i = n THEN f ELSE z[i]
  BY <1>1, ExceptSeq
<1> HIDE DEF w, y
<1>5. \A i \in 1..n : y[i] = w[i]
  BY <1>1, <1>3, <1>4
<1>6. y = w
  BY <1>3, <1>4, <1>5, SeqEqual
<1>7. QED  BY <1>6 DEF y, w, b

\* The top frame of a thread.
LEMMA TopIs ==
  ASSUME Types(frames, queue, fut), NEW t \in Thread, frames[t] # <<>>
  PROVE  /\ frames \in Stacks /\ frames[t] \in Seq(Frame)
         /\ Top(t) = Fm(frames, TopPos(frames, t)) /\ Top(t) \in Frame
         /\ TopPos(frames, t) \in Live(frames)
<1>1. frames \in Stacks /\ frames[t] \in Seq(Frame)
  BY DEF Types, Stacks
<1>2. Top(t) = Fm(frames, TopPos(frames, t))
  BY DEF Top, Fm, TopPos
<1>3. TopPos(frames, t) \in Live(frames)
  BY <1>1, TopLive
<1>4. QED  BY <1>1, <1>2, <1>3, LivePos

LEMMA GoneOnChanges ==
  ASSUME Types(frames, queue, fut), NEW t \in Thread, frames[t] # <<>>, NEW c \in Pc
  PROVE  Changed(frames, [frames EXCEPT ![t] = GoneOn(t, c)], TopPos(frames, t),
                 [Fm(frames, TopPos(frames, t)) EXCEPT !.pc = c])
<1>1. frames \in Stacks /\ Top(t) \in Frame /\ Top(t) = Fm(frames, TopPos(frames, t))
  BY TopIs
<1>2. [Top(t) EXCEPT !.pc = c] \in Frame
  BY <1>1, GoesOn DEF Pc
<1> DEFINE f == [Top(t) EXCEPT !.pc = c]
<1> HIDE DEF f
<1>3. Changed(frames, [frames EXCEPT ![t] = Append(SubSeq(@, 1, Len(@) - 1), f)],
              TopPos(frames, t), f)
  BY <1>1, <1>2, ChangeTop DEF f
<1>4. [frames EXCEPT ![t] = Append(SubSeq(@, 1, Len(@) - 1), f)] = [frames EXCEPT ![t] = GoneOn(t, c)]
  BY DEF GoneOn, Below, f
<1>5. f = [Fm(frames, TopPos(frames, t)) EXCEPT !.pc = c]
  BY <1>1 DEF f
<1>6. QED  BY <1>3, <1>4, <1>5

LEMMA GotoIsGoneOn ==
  ASSUME Types(frames, queue, fut), NEW t \in Thread, frames[t] # <<>>, NEW c \in Pc, Goto(t, c)
  PROVE  frames' = [frames EXCEPT ![t] = GoneOn(t, c)]
<1>1. frames \in Stacks /\ frames[t] \in Seq(Frame) /\ Top(t) \in Frame
  BY TopIs
<1> DEFINE f == [Top(t) EXCEPT !.pc = c]
<1>2. f \in Frame
  BY <1>1, GoesOn DEF Pc
<1>3. frames' = [frames EXCEPT ![t] = [frames[t] EXCEPT ![Len(frames[t])] = f]]
  BY DEF Goto, Top
<1> HIDE DEF f
<1>4. [frames[t] EXCEPT ![Len(frames[t])] = f] = Append(SubSeq(frames[t], 1, Len(frames[t]) - 1), f)
  BY <1>1, <1>2, ReplaceLast
<1>5. QED  BY <1>3, <1>4 DEF GoneOn, Below, f

\* Going on from c0 to c.
LEMMA GoOnStep ==
  ASSUME SI, NEW t \in Thread, frames[t] # <<>>, NEW c \in Pc, c # "submit",
         c \in Before => Top(t).pc \in Before,
         c \in After => \/ Top(t).pc \in After
                        \/ Top(t).pc \in Before /\ Top(t).higher = {},
         c = "get" => fut[Top(t).pivot] # Pending
  PROVE  StackInv([frames EXCEPT ![t] = GoneOn(t, c)], queue, fut, input)
<1>1. Types(frames, queue, fut)
  BY DEF SI, StackInv
<1>2. Top(t) = Fm(frames, TopPos(frames, t))
  BY <1>1, TopIs
<1>3. Changed(frames, [frames EXCEPT ![t] = GoneOn(t, c)], TopPos(frames, t),
              [Fm(frames, TopPos(frames, t)) EXCEPT !.pc = c])
  BY <1>1, GoneOnChanges
<1> DEFINE s2 == [frames EXCEPT ![t] = GoneOn(t, c)]
<1> HIDE DEF s2
<1>4. QED  BY <1>2, <1>3, Mark DEF SI, s2

LEMMA GotoStep ==
  ASSUME SI, NEW t \in Thread, frames[t] # <<>>, NEW c \in Pc, c # "submit",
         c \in Before => Top(t).pc \in Before,
         c \in After => \/ Top(t).pc \in After
                        \/ Top(t).pc \in Before /\ Top(t).higher = {},
         c = "get" => fut[Top(t).pivot] # Pending,
         Goto(t, c), UNCHANGED <<queue, fut, input>>
  PROVE  SI'
<1>1. frames' = [frames EXCEPT ![t] = GoneOn(t, c)]
  BY GotoIsGoneOn DEF SI, StackInv
<1>2. StackInv([frames EXCEPT ![t] = GoneOn(t, c)], queue, fut, input)
  BY GoOnStep
<1>3. QED  BY <1>1, <1>2 DEF SI

\* The action Sort is the step Sorts, from the stacks with fs on that of t.
LEMMA SortSorts ==
  ASSUME NEW t \in Thread, NEW fs \in Seq(Frame), Types(frames, queue, fut),
         NEW j, Sort(t, fs, j)
  PROVE  Sorts(t, [frames EXCEPT ![t] = fs], j, fut, frames', fut')
<1> DEFINE s1 == [frames EXCEPT ![t] = fs]
<1>1. frames \in Stacks /\ s1[t] = fs
  BY DEF Types, Stacks
<1>2. \A z : [s1 EXCEPT ![t] = z] = [frames EXCEPT ![t] = z]
  BY <1>1 DEF Stacks
<1>3. CASE j.data = {}
  BY <1>3 DEF Sort, Sorts
<1>4. CASE j.data # {}
  <2>1. PICK e \in j.data : frames' = [frames EXCEPT ![t] = Append(fs, NewFrame(e, j.data, j.of))]
    BY <1>4 DEF Sort
  <2> HIDE DEF s1
  <2>2. frames' = [s1 EXCEPT ![t] = Append(s1[t], NewFrame(e, j.data, j.of))]
    BY <1>1, <1>2, <2>1
  <2>3. fut' = fut
    BY <1>4 DEF Sort
  <2>4. Sorts(t, s1, j, fut, frames', fut')
    BY <1>4, <2>2, <2>3 DEF Sorts
  <2>5. QED  BY <2>4 DEF s1
<1>5. QED  BY <1>3, <1>4

\* A step that takes a part, above the frames fs.
LEMMA TakeStep ==
  ASSUME NEW t \in Thread, NEW fs \in Seq(Frame), Types(frames, queue, fut),
         StackInv([frames EXCEPT ![t] = fs], queue, fut, input),
         Take(t, fs), input' = input
  PROVE  SI'
<1>1. MayTake(t) \subseteq DOMAIN queue
  BY DEF MayTake, StackTop
<1>2. PICK k \in DOMAIN queue : Sort(t, fs, queue[k]) /\ queue' = Without(queue, k)
  BY <1>1 DEF Take
<1> DEFINE s1 == [frames EXCEPT ![t] = fs]
<1>3. Sorts(t, s1, queue[k], fut, frames', fut')
  BY <1>2, SortSorts
<1>4. StackInv(s1, queue, fut, input)
  OBVIOUS
<1> HIDE DEF s1
<1>5. StackInv(frames', Without(queue, k), fut', input)
  BY <1>3, <1>4, TakePart
<1>6. QED  BY <1>2, <1>5 DEF SI

\* The action SortLower: the part is left and taken at once.
LEMMA SortLowerStep == ASSUME SI, NEW t \in Thread, SortLower(t)  PROVE SI'
<1>1. Types(frames, queue, fut) /\ frames[t] # <<>> /\ Top(t).pc = "submit"
  BY DEF SI, StackInv, SortLower, At
<1>2. Top(t) = Fm(frames, TopPos(frames, t)) /\ Top(t) \in Frame
  BY <1>1, TopIs
<1> DEFINE s1 == [frames EXCEPT ![t] = GoneOn(t, "higher")]
           q1 == Append(queue, Lower(t))
<1>3. Changed(frames, s1, TopPos(frames, t), [Fm(frames, TopPos(frames, t)) EXCEPT !.pc = "higher"])
  BY <1>1, GoneOnChanges DEF Pc
<1>4. GoneOn(t, "higher") \in Seq(Frame)
  <2>1. s1 \in Stacks /\ frames \in Stacks
    BY <1>1, <1>3, TopIs DEF Changed
  <2>2. s1[t] \in Seq(Frame)
    BY <2>1 DEF Stacks
  <2>3. s1[t] = GoneOn(t, "higher")
    BY <2>1 DEF Stacks
  <2>4. QED  BY <2>2, <2>3
<1>5. Sorts(t, s1, Lower(t), fut, frames', fut')
  BY <1>1, <1>4, SortSorts DEF SortLower
<1> HIDE DEF s1
<1>6. StackInv(s1, q1, fut, input)
  BY <1>1, <1>2, <1>3, LeavePart DEF SI, Lower
<1> DEFINE S == [of : Elem, data : SUBSET Elem]
<1>7. queue \in Seq(S) /\ Lower(t) \in S
  BY <1>1, <1>2, Fields DEF Types, Lower
<1> HIDE DEF S
<1>8. Without(q1, Len(queue) + 1) = queue
  BY <1>7, WithoutLast
<1>9. Len(queue) + 1 \in DOMAIN q1 /\ q1[Len(queue) + 1] = Lower(t)
  BY <1>7, AppendProperties
<1> HIDE DEF q1
<1>10. StackInv(frames', Without(q1, Len(queue) + 1), fut', input)
  BY <1>5, <1>6, <1>9, TakePart
<1>11. QED  BY <1>8, <1>10 DEF SI, SortLower

\* The actions that leave the lower part.
LEMMA LeaveStep ==
  ASSUME SI, NEW t \in Thread, At(t, "submit"), NEW c \in {"size", "higher"}, Goto(t, c),
         queue' = Append(queue, Lower(t)), UNCHANGED <<fut, input>>
  PROVE  SI'
<1>1. Types(frames, queue, fut) /\ frames[t] # <<>> /\ Top(t).pc = "submit"
  BY DEF SI, StackInv, At
<1>2. Top(t) = Fm(frames, TopPos(frames, t)) /\ Top(t) \in Frame
  BY <1>1, TopIs
<1>3. frames' = [frames EXCEPT ![t] = GoneOn(t, c)]
  BY <1>1, GotoIsGoneOn DEF Pc
<1>4. Changed(frames, frames', TopPos(frames, t), [Fm(frames, TopPos(frames, t)) EXCEPT !.pc = c])
  BY <1>1, <1>3, GoneOnChanges DEF Pc
<1>5. StackInv(frames', queue', fut, input)
  BY <1>1, <1>2, <1>4, LeavePart DEF SI, Lower
<1>6. QED  BY <1>5 DEF SI

LEMMA CallHigherStep == ASSUME SI, NEW t \in Thread, CallHigher(t)  PROVE SI'
<1>1. Types(frames, queue, fut) /\ frames[t] # <<>> /\ Top(t).pc = "higher"
  BY DEF SI, StackInv, CallHigher, At
<1>2. Top(t) = Fm(frames, TopPos(frames, t))
  BY <1>1, TopIs
<1>3. CASE Top(t).higher = {}
  <2>1. Goto(t, "wait") /\ UNCHANGED <<queue, fut, input>>
    BY <1>3 DEF CallHigher
  <2>2. QED  BY <1>1, <1>3, <2>1, GotoStep DEF Pc, Before, After
<1>4. CASE Top(t).higher # {}
  <2>1. PICK e \in Top(t).higher : frames' = [frames EXCEPT ![t] = Append(@, NewFrame(e, Top(t).higher, Null))]
    BY <1>4 DEF CallHigher
  <2>2. StackInv(frames', queue, fut, input)
    BY <1>1, <1>2, <2>1, HigherPart DEF SI
  <2>3. QED  BY <2>2 DEF SI, CallHigher
<1>5. QED  BY <1>3, <1>4

LEMMA HelpStep == ASSUME SI, NEW t \in Thread, Help(t)  PROVE SI'
<1>1. Types(frames, queue, fut) /\ frames[t] # <<>> /\ Top(t).pc = "help"
  BY DEF SI, StackInv, Help, At
<1>2. CASE Take(t, GoneOn(t, "wait"))
  <2>1. StackInv([frames EXCEPT ![t] = GoneOn(t, "wait")], queue, fut, input)
    BY <1>1, GoOnStep DEF Pc, Before, After
  <2>2. GoneOn(t, "wait") \in Seq(Frame)
    <3>1. frames \in Stacks /\ [frames EXCEPT ![t] = GoneOn(t, "wait")] \in Stacks
      BY <1>1, <2>1 DEF StackInv, Types, Stacks
    <3>2. QED  BY <3>1 DEF Stacks
  <2>3. QED  BY <1>1, <1>2, <2>1, <2>2, TakeStep DEF Help
<1>3. CASE Goto(t, "wait") /\ UNCHANGED <<queue, fut>>
  BY <1>1, <1>3, GotoStep DEF Pc, Before, After, Help
<1>4. QED  BY <1>2, <1>3 DEF Help

\* A step of a thread without frames.
LEMMA IdleTakeStep ==
  ASSUME SI, NEW t \in Thread, frames[t] = <<>>, Take(t, <<>>), input' = input  PROVE SI'
<1>1. Types(frames, queue, fut) /\ <<>> \in Seq(Frame)
  BY EmptySeq DEF SI, StackInv
<1>2. [frames EXCEPT ![t] = <<>>] = frames
  BY <1>1 DEF Types
<1>3. StackInv([frames EXCEPT ![t] = <<>>], queue, fut, input)
  BY <1>2 DEF SI
<1>4. QED  BY <1>1, <1>3, TakeStep

\* The frames that are left when the top call returns to the one below.
LEMMA ReturnedIs ==
  ASSUME Types(frames, queue, fut), NEW t \in Thread, frames[t] # <<>>, NEW fs, fs = Below(t),
         fs # <<>>, NEW f \in Frame,
         frames' = [frames EXCEPT ![t] = [fs EXCEPT ![Len(fs)] = f]]
  PROVE  Returned(frames, frames', t, f)
<1> DEFINE s1 == [frames EXCEPT ![t] = fs]
<1>1. frames \in Stacks
  BY TopIs
<1>2. Popped(frames, s1, t)
  <2>1. Popped(frames, [frames EXCEPT ![t] = SubSeq(@, 1, Len(@) - 1)], t)
    BY <1>1, PopTop
  <2>2. QED  BY <2>1 DEF Below
<1>3. s1 \in Stacks /\ s1[t] = fs
  BY <1>1, <1>2 DEF Popped, Stacks
<1>4. fs \in Seq(Frame)
  BY <1>3 DEF Stacks
<1>5. [fs EXCEPT ![Len(fs)] = f] = Append(SubSeq(fs, 1, Len(fs) - 1), f)
  BY <1>4, ReplaceLast
<1>6. \A z : [s1 EXCEPT ![t] = z] = [frames EXCEPT ![t] = z]
  BY <1>1 DEF Stacks
<1> HIDE DEF s1
<1>7. Changed(s1, [s1 EXCEPT ![t] = Append(SubSeq(@, 1, Len(@) - 1), f)], TopPos(s1, t), f)
  BY <1>3, ChangeTop
<1>8. frames' = [s1 EXCEPT ![t] = Append(SubSeq(s1[t], 1, Len(s1[t]) - 1), f)]
  BY <1>3, <1>5, <1>6
<1>9. Changed(s1, frames', TopPos(s1, t), f)
  BY <1>7, <1>8
<1>10. TopPos(s1, t) = Under(TopPos(frames, t))
  <2>1. frames[t] \in Seq(Frame) /\ Len(frames[t]) \in Nat \ {0}
    BY <1>1, EmptySeq DEF Stacks
  <2>2. \A i \in 1..Len(frames[t]) - 1 : frames[t][i] \in Frame
    BY <2>1, ElementOfSeq
  <2>3. Len(fs) = Len(frames[t]) - 1
    BY <2>1, <2>2, SubSeqProperties DEF Below
  <2>4. QED  BY <1>3, <2>3 DEF TopPos, Under
<1>11. QED  BY <1>2, <1>9, <1>10 DEF Returned, Popped, Changed

\* The call at the bottom of a stack has nothing below.
LEMMA BelowIs ==
  ASSUME Types(frames, queue, fut), NEW t \in Thread, frames[t] # <<>>
  PROVE  Below(t) # <<>> <=> TopPos(frames, t)[2] # 1
<1>1. frames[t] \in Seq(Frame) /\ Len(frames[t]) \in Nat \ {0}
  BY TopIs, EmptySeq
<1>2. \A i \in 1..Len(frames[t]) - 1 : frames[t][i] \in Frame
  BY <1>1, ElementOfSeq
<1>3. Len(Below(t)) = Len(frames[t]) - 1 /\ Below(t) \in Seq(Frame)
  BY <1>1, <1>2, SubSeqProperties DEF Below
<1>4. Below(t) = <<>> <=> Len(Below(t)) = 0
  BY <1>3, EmptySeq
<1>5. QED  BY <1>1, <1>3, <1>4 DEF TopPos

\* When the first call returns nothing is left: no other call, no part.
LEMMA RootReturns ==
  ASSUME SI, NEW t \in Thread, Return(t), Top(t).job = Null, Below(t) = <<>>
  PROVE  /\ SI' /\ queue' = <<>> /\ Live(frames') = {} /\ IsSort(output', input')
         /\ main' \in {"dtor", "return"}
<1> DEFINE p == TopPos(frames, t)
<1>1. Types(frames, queue, fut) /\ frames[t] # <<>> /\ Top(t).pc = "get"
  BY DEF SI, StackInv, Return, At
<1>2. frames \in Stacks /\ Top(t) = Fm(frames, p) /\ Top(t) \in Frame /\ p \in Live(frames)
  BY <1>1, TopIs
<1>3. Popped(frames, [frames EXCEPT ![t] = Below(t)], t)
  <2>1. Popped(frames, [frames EXCEPT ![t] = SubSeq(@, 1, Len(@) - 1)], t)
    BY <1>1, <1>2, PopTop
  <2>2. QED  BY <2>1 DEF Below
<1>4. /\ UNCHANGED <<queue, input, fut>> /\ frames' = [frames EXCEPT ![t] = Below(t)]
      /\ output' = Result(Top(t)) /\ main' \in {"dtor", "return"}
  BY DEF Return
<1>5. Live(frames) = {p} /\ queue = <<>> /\ All(Fm(frames, p)) = input
  <2>1. p[2] = 1
    BY <1>1, BelowIs
  <2>2. QED  BY <1>1, <1>2, <2>1, LastOne DEF SI
<1>6. IsSort(output', input')
  BY <1>1, <1>2, <1>4, <1>5, ReturnsSorted DEF SI, Result
<1>7. frames' \in Stacks /\ Live(frames') = {}
  BY <1>3, <1>4, <1>5 DEF Popped
<1>8. Types(frames', queue, fut)
  BY <1>1, <1>7 DEF Types, Stacks
<1>9. StackInv(frames', queue, fut, input)
  BY <1>5, <1>7, <1>8, NoCalls
<1>10. QED  BY <1>4, <1>5, <1>6, <1>7, <1>9 DEF SI

\* A call that sorted the higher part of the one below returns to it.
LEMMA ReturnPasses ==
  ASSUME SI, NEW t \in Thread, Return(t), Top(t).job = Null, Below(t) # <<>>
  PROVE  \E f \in Frame : /\ f.res = Result(Top(t)) /\ f.pc = "wait"
                          /\ Alike(f, Fm(frames, Under(TopPos(frames, t))))
                          /\ Returned(frames, frames', t, f)
<1> DEFINE p == TopPos(frames, t)
           R == Result(Top(t))
           fs == Below(t)
           b == fs[Len(fs)]
           f == [[b EXCEPT !.res = R] EXCEPT !.pc = "wait"]
<1>1. Types(frames, queue, fut) /\ frames[t] # <<>> /\ Top(t).pc = "get"
  BY DEF SI, StackInv, Return, At
<1>2. frames \in Stacks /\ Top(t) = Fm(frames, p) /\ p \in Live(frames)
  BY <1>1, TopIs
<1>3. R \in Seq(Elem)
  <2>1. IsSort(R, All(Fm(frames, p)))
    BY <1>1, <1>2, ReturnsSorted DEF SI, Result
  <2>2. QED  BY <2>1 DEF IsSort
<1> HIDE DEF R
<1>4. frames' = [frames EXCEPT ![t] = [fs EXCEPT ![Len(fs)].res = R, ![Len(fs)].pc = "wait"]]
  BY DEF Return, R
<1>5. fs \in Seq(Frame)
  <2>1. Popped(frames, [frames EXCEPT ![t] = SubSeq(@, 1, Len(@) - 1)], t)
    BY <1>1, <1>2, PopTop
  <2>2. [frames EXCEPT ![t] = Below(t)] \in Stacks
    BY <2>1 DEF Popped, Below
  <2>3. QED  BY <1>2, <2>2 DEF Stacks
<1>6. Len(fs) \in Nat \ {0} /\ Len(fs) \in 1..Len(fs)
  BY <1>5, EmptySeq
<1>7. b \in Frame
  BY <1>5, <1>6, ElementOfSeq
<1>8. b = Fm(frames, Under(p))
  <2>1. frames[t] \in Seq(Frame) /\ Len(frames[t]) \in Nat \ {0}
    BY <1>1, <1>2, EmptySeq DEF Stacks
  <2>2. \A i \in 1..Len(frames[t]) - 1 : frames[t][i] \in Frame
    BY <2>1, ElementOfSeq
  <2>3. Len(fs) = Len(frames[t]) - 1 /\ \A i \in 1..Len(frames[t]) - 1 : fs[i] = frames[t][i]
    BY <2>1, <2>2, SubSeqProperties DEF Below
  <2>4. b = frames[t][Len(frames[t]) - 1]
    BY <1>6, <2>3
  <2>5. QED  BY <2>4 DEF Fm, Under, TopPos
<1>9. f \in Frame /\ f.res = R /\ f.pc = "wait" /\ Alike(f, b)
  <2> HIDE DEF b
  <2>1. QED  BY <1>3, <1>7 DEF Frame, Alike
<1>10. [fs EXCEPT ![Len(fs)].res = R, ![Len(fs)].pc = "wait"] = [fs EXCEPT ![Len(fs)] = f]
  <2> HIDE DEF fs, R
  <2>1. QED  BY <1>5, <1>6
<1> HIDE DEF fs, f, b
<1>11. Returned(frames, frames', t, f)
  BY <1>1, <1>4, <1>9, <1>10, ReturnedIs DEF fs
<1>12. QED  BY <1>8, <1>9, <1>11 DEF R

LEMMA ReturnStep == ASSUME SI, NEW t \in Thread, Return(t)  PROVE SI'
<1> DEFINE p == TopPos(frames, t)
           R == Result(Top(t))
<1>1. Types(frames, queue, fut) /\ frames[t] # <<>> /\ Top(t).pc = "get"
  BY DEF SI, StackInv, Return, At
<1>2. frames \in Stacks /\ Top(t) = Fm(frames, p) /\ Top(t) \in Frame /\ p \in Live(frames)
  BY <1>1, TopIs
<1>3. IsSort(R, All(Fm(frames, p)))
  BY <1>1, <1>2, ReturnsSorted DEF SI, Result
<1>4. Popped(frames, [frames EXCEPT ![t] = Below(t)], t)
  <2>1. Popped(frames, [frames EXCEPT ![t] = SubSeq(@, 1, Len(@) - 1)], t)
    BY <1>1, <1>2, PopTop
  <2>2. QED  BY <2>1 DEF Below
<1>5. UNCHANGED <<queue, input>>
  BY DEF Return
<1>6. Below(t) # <<>> <=> p[2] # 1
  BY <1>1, BelowIs
<1> HIDE DEF R
<1>7. CASE Top(t).job # Null
  <2>1. fut' = [fut EXCEPT ![Top(t).job] = R] /\ frames' = [frames EXCEPT ![t] = Below(t)]
    BY <1>7 DEF Return, R
  <2>2. Popped(frames, frames', t)
    BY <1>4, <2>1
  <2>3. StackInv(frames', queue, [fut EXCEPT ![Fm(frames, p).job] = R], input)
    BY <1>1, <1>2, <1>3, <1>7, <2>2, KeepPromise DEF SI
  <2>4. QED  BY <1>2, <1>5, <2>1, <2>3 DEF SI
<1>8. CASE Top(t).job = Null /\ Below(t) # <<>>
  <2>1. PICK f : /\ f.res = R /\ f.pc = "wait" /\ Alike(f, Fm(frames, Under(p)))
                 /\ Returned(frames, frames', t, f)
    BY <1>8, ReturnPasses DEF R
  <2>2. fut' = fut
    BY <1>8 DEF Return
  <2>3. StackInv(frames', queue, fut, input)
    BY <1>1, <1>2, <1>3, <1>6, <1>8, <2>1, PassHigher DEF SI
  <2>4. QED  BY <1>5, <2>2, <2>3 DEF SI
<1>9. CASE Top(t).job = Null /\ Below(t) = <<>>
  BY <1>9, RootReturns
<1>10. QED  BY <1>7, <1>8, <1>9

LEMMA CallStep == ASSUME SI, TypeOK, MainInv, Call  PROVE SI'
<1>1. Live(frames) = {} /\ queue = <<>> /\ Fresh(input, fut)
  BY DEF MainInv, Call
<1>2. frames \in Stacks /\ Types(frames, queue, fut) /\ Main \in Thread /\ input \in SUBSET Elem
  BY DEF TypeOK, Types, Stacks, Thread
<1>3. frames[Main] = <<>>
  BY <1>1, <1>2, TopLive
<1>4. CASE input = {}
  BY <1>4 DEF Call, SI
<1>5. CASE input # {}
  <2>1. PICK e \in input : frames' = [frames EXCEPT ![Main] = <<NewFrame(e, input, Null)>>]
    BY <1>5 DEF Call
  <2> DEFINE f == NewFrame(e, input, Null)
  <2>2. f \in Frame
    BY <1>2, Partition DEF Begins
  <2>3. Append(<<>>, f) = <<f>>
    OBVIOUS
  <2> HIDE DEF f
  <2>4. Pushed(frames, [frames EXCEPT ![Main] = Append(@, f)], Main, f)
    BY <1>2, <2>2, PushTop
  <2>5. frames' = [frames EXCEPT ![Main] = Append(frames[Main], f)]
    BY <1>3, <2>1, <2>3 DEF f
  <2>6. Pushed(frames, frames', Main, f)
    BY <2>4, <2>5
  <2>7. StackInv(frames', queue, fut, input)
    BY <1>1, <1>2, <1>3, <2>6, Push DEF SI, f
  <2>8. QED  BY <2>7 DEF SI, Call
<1>6. QED  BY <1>4, <1>5

\* Each action preserves what the threads rely on.
LEMMA StackStep == ASSUME IInv, [Next]_vars  PROVE SI'
<1>1. SI /\ TypeOK /\ MainInv /\ ThreadInv
  BY DEF IInv, SI
<1>2. ASSUME NEW t \in Thread, DoSort(t)  PROVE SI'
  <2>1. CASE SortLower(t)
    BY <1>1, <2>1, SortLowerStep
  <2>2. CASE AsyncLower(t) \/ SubmitLower(t)
    <3>1. /\ At(t, "submit") /\ Goto(t, "higher") /\ queue' = Append(queue, Lower(t))
          /\ UNCHANGED <<fut, input>>
      BY <2>2 DEF AsyncLower, SubmitLower
    <3>2. QED  BY <1>1, <3>1, LeaveStep
  <2>3. CASE PushChunk(t)
    <3>1. /\ At(t, "submit") /\ Goto(t, "size") /\ queue' = Append(queue, Lower(t))
          /\ UNCHANGED <<fut, input>>
      BY <2>3 DEF PushChunk, StackPush
    <3>2. QED  BY <1>1, <3>1, LeaveStep
  <2>4. CASE ReadSize(t)
    <3>1. frames[t] # <<>> /\ Top(t).pc = "size" /\ (Goto(t, "spawn") \/ Goto(t, "higher"))
          /\ UNCHANGED <<queue, fut, input>>
      BY <2>4 DEF ReadSize, At
    <3>2. QED  BY <1>1, <3>1, GotoStep DEF Pc, Before, After
  <2>5. CASE Append1(t)
    <3>1. frames[t] # <<>> /\ Top(t).pc = "spawn" /\ Goto(t, "append")
          /\ UNCHANGED <<queue, fut, input>>
      BY <2>5 DEF Append1, At
    <3>2. QED  BY <1>1, <3>1, GotoStep DEF Pc, Before, After
  <2>6. CASE Append2(t)
    <3>1. frames[t] # <<>> /\ Top(t).pc = "append" /\ Goto(t, "higher")
          /\ UNCHANGED <<queue, fut, input>>
      BY <2>6 DEF Append2, At
    <3>2. QED  BY <1>1, <3>1, GotoStep DEF Pc, Before, After
  <2>7. CASE CallHigher(t)
    BY <1>1, <2>7, CallHigherStep
  <2>8. CASE TestFuture(t)
    <3>1. /\ frames[t] # <<>> /\ Top(t).pc = "wait" /\ UNCHANGED <<queue, fut, input>>
          /\ \/ Goto(t, "get") /\ fut[Top(t).pivot] # Pending
             \/ Goto(t, "help")
      BY <2>8 DEF TestFuture, At
    <3>2. QED  BY <1>1, <3>1, GotoStep DEF Pc, Before, After
  <2>9. CASE Help(t)
    BY <1>1, <2>9, HelpStep
  <2>10. CASE Return(t)
    BY <1>1, <2>10, ReturnStep
  <2>11. QED
    BY <1>2, <2>1, <2>2, <2>3, <2>4, <2>5, <2>6, <2>7, <2>8, <2>9, <2>10 DEF DoSort
<1>3. ASSUME NEW w \in Worker, Try(w)  PROVE SI'
  <2>1. CASE Take(w, <<>>)
    BY <1>1, <1>3, <2>1, IdleTakeStep DEF Try, ThreadInv, Thread
  <2>2. CASE UNCHANGED <<frames, queue, fut>>
    BY <1>1, <1>3, <2>2 DEF Try, SI
  <2>3. QED  BY <1>3, <2>1, <2>2 DEF Try
<1>4. ASSUME NEW w \in Worker, AsyncThread(w)  PROVE SI'
  BY <1>1, <1>4, IdleTakeStep DEF AsyncThread, Thread
<1>5. CASE UNCHANGED <<frames, queue, fut, input>>
  BY <1>1, <1>5 DEF SI
<1>6. ASSUME NEW w \in Worker, CheckDone(w)  PROVE SI'
  BY <1>5, <1>6 DEF CheckDone
<1>7. CASE Close \/ Join \/ UNCHANGED vars
  BY <1>5, <1>7 DEF Close, Join, vars
<1>8. CASE Call
  BY <1>1, <1>8, CallStep
<1>9. QED
  BY <1>2, <1>3, <1>4, <1>6, <1>7, <1>8 DEF Next, MainStep, WorkerStep, Thread

-----------------------------------------------------------------------------
(* The actions, on the stack of the thread that takes them *)

\* A stack z becomes w: what is below the top waits, the top is at a place in P ("none" if
\* there is no call left), and the first call still works for the same.
Steps(z, w, P) ==
  /\ w \in Seq(Frame) /\ WaitsBelow(w)
  /\ w # <<>> => w[Len(w)].pc \in P
  /\ z # <<>> /\ w = <<>> => "none" \in P
  /\ z # <<>> /\ w # <<>> => w[1].job = z[1].job

LEMMA StepsChange ==
  ASSUME NEW z \in Seq(Frame), z # <<>>, WaitsBelow(z), NEW f \in Frame, f.job = z[Len(z)].job
  PROVE  Steps(z, Append(SubSeq(z, 1, Len(z) - 1), f), {f.pc})
<1> DEFINE w == Append(SubSeq(z, 1, Len(z) - 1), f)
<1>1. w = [z EXCEPT ![Len(z)] = f]
  BY ReplaceLast
<1>2. Len(z) \in Nat \ {0} /\ Len(z) \in 1..Len(z)
  BY EmptySeq
<1> HIDE DEF w
<1>3. /\ w \in Seq(Frame) /\ Len(w) = Len(z)
      /\ \A i \in 1..Len(z) : w[i] = IF i = Len(z) THEN f ELSE z[i]
  BY <1>1, <1>2, ExceptSeq
<1>4. WaitsBelow(w)
  BY <1>2, <1>3 DEF WaitsBelow
<1>5. w[Len(w)].pc = f.pc /\ w[1].job = z[1].job
  <2>1. 1 \in 1..Len(z)
    BY <1>2
  <2>2. QED  BY <1>2, <1>3, <2>1
<1>6. QED  BY <1>3, <1>4, <1>5 DEF Steps, w

LEMMA StepsPush ==
  ASSUME NEW z, NEW y \in Seq(Frame), Steps(z, y, {"higher", "wait"}), NEW f \in Frame,
         f.pc = "submit", z = <<>> => y = <<>>, y = <<>> => z = <<>>
  PROVE  Steps(z, Append(y, f), {"submit"})
<1> DEFINE w == Append(y, f)
<1>1. /\ Len(y) \in Nat /\ w \in Seq(Frame) /\ Len(w) = Len(y) + 1 /\ w[Len(y) + 1] = f
      /\ \A i \in 1..Len(y) : w[i] = y[i]
  BY AppendProperties
<1> HIDE DEF w
<1>2. ASSUME NEW k \in 1..Len(w) - 1  PROVE w[k].pc \in {"higher", "wait"}
  <2>1. k \in 1..Len(y) /\ w[k] = y[k]
    BY <1>1
  <2>2. y # <<>>
    BY <2>1
  <2>3. CASE k = Len(y)
    BY <2>1, <2>2, <2>3 DEF Steps
  <2>4. CASE k # Len(y)
    BY <1>1, <2>1, <2>4 DEF Steps, WaitsBelow
  <2>5. QED  BY <2>3, <2>4
<1>3. z # <<>> => w[1].job = z[1].job
  <2> SUFFICES ASSUME z # <<>>  PROVE w[1].job = z[1].job
    OBVIOUS
  <2>1. y # <<>> /\ Len(y) \in Nat \ {0}
    BY EmptySeq
  <2>2. w[1] = y[1]
    BY <1>1, <2>1
  <2>3. QED  BY <2>1, <2>2 DEF Steps
<1>4. QED  BY <1>1, <1>2, <1>3 DEF Steps, WaitsBelow, w

LEMMA StepsPop ==
  ASSUME NEW z \in Seq(Frame), z # <<>>, WaitsBelow(z)
  PROVE  Steps(z, SubSeq(z, 1, Len(z) - 1), {"higher", "wait", "none"})
<1> DEFINE w == SubSeq(z, 1, Len(z) - 1)
           n == Len(z)
<1>1. n \in Nat \ {0} /\ \A i \in 1..n : z[i] \in Frame
  BY EmptySeq, ElementOfSeq
<1>2. w \in Seq(Frame) /\ Len(w) = n - 1 /\ \A i \in 1..n - 1 : w[i] = z[i]
  <2>1. \A i \in 1..n - 1 : z[i] \in Frame
    BY <1>1
  <2>2. n - 1 \in Int /\ 1 \in Int
    BY <1>1
  <2>3. /\ w \in Seq(Frame) /\ Len(w) = (IF 1 <= n - 1 THEN n - 1 - 1 + 1 ELSE 0)
        /\ \A i \in 1..n - 1 - 1 + 1 : w[i] = z[1 + i - 1]
    BY <2>1, <2>2, SubSeqProperties
  <2> HIDE DEF w, n
  <2>4. \A i \in 1..n - 1 : i \in 1..n - 1 - 1 + 1 /\ 1 + i - 1 = i
    BY <1>1
  <2>5. Len(w) = n - 1
    BY <1>1, <2>3
  <2>6. QED  BY <2>3, <2>4, <2>5
<1> HIDE DEF w
<1>3. WaitsBelow(w)
  BY <1>1, <1>2 DEF WaitsBelow
<1>4. w # <<>> => w[Len(w)].pc \in {"higher", "wait", "none"} /\ w[1].job = z[1].job
  <2> SUFFICES ASSUME w # <<>>
               PROVE  w[Len(w)].pc \in {"higher", "wait", "none"} /\ w[1].job = z[1].job
    OBVIOUS
  <2>1. Len(w) \in Nat \ {0}
    BY <1>2, EmptySeq
  <2>2. Len(w) \in 1..n - 1 /\ 1 \in 1..n - 1
    BY <1>1, <1>2, <2>1
  <2>3. QED  BY <1>2, <2>2 DEF WaitsBelow
<1>5. QED  BY <1>2, <1>3, <1>4 DEF Steps, w

\* A thread works on its own stack only.
OnlyOn(t) == frames' \in Stacks /\ \A u \in Thread \ {t} : frames'[u] = frames[u]

LEMMA GoneOnSteps ==
  ASSUME Types(frames, queue, fut), NEW t \in Thread, frames[t] # <<>>, WaitsBelow(frames[t]),
         NEW c \in Pc
  PROVE  Steps(frames[t], GoneOn(t, c), {c}) /\ GoneOn(t, c) # <<>>
<1>1. frames[t] \in Seq(Frame) /\ Top(t) \in Frame
  BY TopIs
<1> DEFINE f == [Top(t) EXCEPT !.pc = c]
           z == frames[t]
<1>2. f \in Frame /\ f.pc = c /\ f.job = z[Len(z)].job
  BY <1>1, GoesOn DEF Pc, Top
<1>3. GoneOn(t, c) = Append(SubSeq(z, 1, Len(z) - 1), f)
  BY DEF GoneOn, Below
<1>4. GoneOn(t, c) = [z EXCEPT ![Len(z)] = f]
  <2> HIDE DEF f
  <2>1. QED  BY <1>1, <1>2, <1>3, ReplaceLast
<1>5. Len(z) \in 1..Len(z)
  BY <1>1, EmptySeq
<1> HIDE DEF f
<1>6. Len([z EXCEPT ![Len(z)] = f]) = Len(z)
  BY <1>1, <1>2, <1>5, ExceptSeq
<1>7. GoneOn(t, c) # <<>>
  BY <1>4, <1>5, <1>6, EmptySeq
<1>8. Steps(z, Append(SubSeq(z, 1, Len(z) - 1), f), {f.pc})
  BY <1>1, <1>2, StepsChange
<1>9. QED  BY <1>2, <1>3, <1>7, <1>8

LEMMA GotoSteps ==
  ASSUME Types(frames, queue, fut), NEW t \in Thread, frames[t] # <<>>, WaitsBelow(frames[t]),
         NEW c \in Pc, Goto(t, c)
  PROVE  OnlyOn(t) /\ Steps(frames[t], frames'[t], {c})
<1>1. frames' = [frames EXCEPT ![t] = GoneOn(t, c)] /\ frames \in Stacks
  BY GotoIsGoneOn, TopIs
<1>2. Steps(frames[t], GoneOn(t, c), {c})
  BY GoneOnSteps
<1>3. GoneOn(t, c) \in Seq(Frame)
  BY <1>2 DEF Steps
<1>4. QED  BY <1>1, <1>2, <1>3 DEF OnlyOn, Stacks

LEMMA SortSteps ==
  ASSUME Types(frames, queue, fut), NEW t \in Thread, NEW fs,
         Steps(frames[t], fs, {"higher", "wait"}), frames[t] = <<>> => fs = <<>>,
         fs = <<>> => frames[t] = <<>>,
         NEW j \in [of : Elem, data : SUBSET Elem], Sort(t, fs, j)
  PROVE  OnlyOn(t) /\ Steps(frames[t], frames'[t], {"submit", "higher", "wait"})
<1>1. frames \in Stacks /\ fs \in Seq(Frame)
  BY DEF Types, Stacks, Steps
<1>2. CASE j.data = {}
  <2>1. frames' = [frames EXCEPT ![t] = fs]
    BY <1>2 DEF Sort
  <2>2. frames'[t] = fs /\ OnlyOn(t)
    BY <1>1, <2>1 DEF OnlyOn, Stacks
  <2>3. QED  BY <2>2 DEF Steps
<1>3. CASE j.data # {}
  <2>1. PICK e \in j.data : frames' = [frames EXCEPT ![t] = Append(fs, NewFrame(e, j.data, j.of))]
    BY <1>3 DEF Sort
  <2> DEFINE f == NewFrame(e, j.data, j.of)
  <2>2. f \in Frame /\ f.pc = "submit"
    <3>1. j.data \in SUBSET Elem /\ j.of \in Elem \cup {Null} /\ e \in j.data
      OBVIOUS
    <3>2. Begins(NewFrame(e, j.data, j.of), j.data, e, j.of)
      BY <3>1, Partition
    <3>3. QED  BY <3>2 DEF Begins
  <2> HIDE DEF f
  <2>3. Steps(frames[t], Append(fs, f), {"submit"})
    BY <1>1, <2>2, StepsPush
  <2>4. Append(fs, f) \in Seq(Frame)
    BY <2>3 DEF Steps
  <2>5. frames'[t] = Append(fs, f) /\ OnlyOn(t)
    BY <1>1, <2>1, <2>4 DEF OnlyOn, Stacks, f
  <2>6. QED  BY <2>3, <2>5 DEF Steps
<1>4. QED  BY <1>2, <1>3

LEMMA TakeSteps ==
  ASSUME Types(frames, queue, fut), NEW t \in Thread, NEW fs,
         Steps(frames[t], fs, {"higher", "wait"}), frames[t] = <<>> => fs = <<>>,
         fs = <<>> => frames[t] = <<>>, Take(t, fs)
  PROVE  /\ OnlyOn(t) /\ Steps(frames[t], frames'[t], {"submit", "higher", "wait"})
         /\ queue # <<>>
<1>1. MayTake(t) \subseteq DOMAIN queue
  BY DEF MayTake, StackTop
<1>2. PICK k \in DOMAIN queue : Sort(t, fs, queue[k])
  BY <1>1 DEF Take
<1> DEFINE S == [of : Elem, data : SUBSET Elem]
<1>3. queue \in Seq(S)
  BY DEF Types
<1> HIDE DEF S
<1>4. queue[k] \in S
  BY <1>2, <1>3, ElementOfSeq
<1>5. queue # <<>>
  BY <1>2
<1>6. QED  BY <1>2, <1>4, <1>5, SortSteps DEF S

LEMMA CallHigherSteps ==
  ASSUME Types(frames, queue, fut), NEW t \in Thread, WaitsBelow(frames[t]), CallHigher(t)
  PROVE  OnlyOn(t) /\ Steps(frames[t], frames'[t], {"submit", "wait"})
<1>1. /\ frames \in Stacks /\ frames[t] # <<>> /\ Top(t).pc = "higher" /\ Top(t) \in Frame
      /\ frames[t] \in Seq(Frame)
  BY TopIs DEF CallHigher, At
<1>2. CASE Top(t).higher = {}
  <2>1. Goto(t, "wait")
    BY <1>2 DEF CallHigher
  <2>2. OnlyOn(t) /\ Steps(frames[t], frames'[t], {"wait"})
    BY <1>1, <2>1, GotoSteps DEF Pc
  <2>3. QED  BY <2>2 DEF Steps
<1>3. CASE Top(t).higher # {}
  <2> DEFINE D == Top(t).higher
  <2>1. PICK e \in D : frames' = [frames EXCEPT ![t] = Append(frames[t], NewFrame(e, D, Null))]
    BY <1>3 DEF CallHigher
  <2> DEFINE f == NewFrame(e, D, Null)
  <2>2. D \in SUBSET Elem
    BY <1>1, Fields
  <2> HIDE DEF D
  <2>3. f \in Frame /\ f.pc = "submit"
    <3>1. Null \in Elem \cup {Null}
      OBVIOUS
    <3>2. Begins(NewFrame(e, D, Null), D, e, Null)
      BY <2>2, <3>1, Partition
    <3>3. QED  BY <3>2 DEF Begins
  <2> HIDE DEF f
  <2>4. Steps(frames[t], frames[t], {"higher", "wait"})
    BY <1>1 DEF Steps, Top
  <2>5. Steps(frames[t], Append(frames[t], f), {"submit"})
    BY <1>1, <2>3, <2>4, StepsPush
  <2>6. Append(frames[t], f) \in Seq(Frame)
    BY <2>5 DEF Steps
  <2>7. frames'[t] = Append(frames[t], f) /\ OnlyOn(t)
    BY <1>1, <2>1, <2>6 DEF OnlyOn, Stacks, f
  <2>8. QED  BY <2>5, <2>7 DEF Steps
<1>4. QED  BY <1>2, <1>3

LEMMA ReturnSteps ==
  ASSUME SI, NEW t \in Thread, WaitsBelow(frames[t]), Return(t)
  PROVE  OnlyOn(t) /\ Steps(frames[t], frames'[t], {"higher", "wait", "none"})
<1> DEFINE fs == Below(t)
           R == Result(Top(t))
<1>1. /\ frames \in Stacks /\ frames[t] # <<>> /\ Top(t).pc = "get" /\ Types(frames, queue, fut)
      /\ frames[t] \in Seq(Frame) /\ TopPos(frames, t) \in Live(frames)
      /\ Top(t) = Fm(frames, TopPos(frames, t))
  BY TopIs DEF Return, At, SI, StackInv
<1>2. Steps(frames[t], fs, {"higher", "wait", "none"})
  BY <1>1, StepsPop DEF Below
<1>3. fs \in Seq(Frame) /\ WaitsBelow(fs)
  BY <1>2 DEF Steps
<1>4. R \in Seq(Elem)
  <2>1. IsSort(R, All(Fm(frames, TopPos(frames, t))))
    BY <1>1, ReturnsSorted DEF SI, Result
  <2>2. QED  BY <2>1 DEF IsSort
<1> HIDE DEF R
<1>5. CASE frames' = [frames EXCEPT ![t] = fs]
  <2>1. frames'[t] = fs /\ OnlyOn(t)
    BY <1>1, <1>3, <1>5 DEF OnlyOn, Stacks
  <2>2. QED  BY <1>2, <2>1
<1>6. CASE fs # <<>> /\ frames' = [frames EXCEPT ![t] = [fs EXCEPT ![Len(fs)].res = R,
                                                              ![Len(fs)].pc = "wait"]]
  <2> DEFINE b == fs[Len(fs)]
             f == [[b EXCEPT !.res = R] EXCEPT !.pc = "wait"]
  <2>1. Len(fs) \in Nat \ {0} /\ Len(fs) \in 1..Len(fs)
    BY <1>3, <1>6, EmptySeq
  <2>2. b \in Frame
    BY <1>3, <2>1, ElementOfSeq
  <2>3. f \in Frame /\ f.pc = "wait" /\ f.job = b.job
    <3> HIDE DEF b
    <3>1. QED  BY <1>4, <2>2 DEF Frame
  <2>4. [fs EXCEPT ![Len(fs)].res = R, ![Len(fs)].pc = "wait"] = [fs EXCEPT ![Len(fs)] = f]
    <3> HIDE DEF fs, R
    <3>1. QED  BY <1>3, <2>1
  <2> HIDE DEF fs, f
  <2>5. [fs EXCEPT ![Len(fs)] = f] = Append(SubSeq(fs, 1, Len(fs) - 1), f)
    BY <1>3, <1>6, <2>3, ReplaceLast
  <2> DEFINE w == [fs EXCEPT ![Len(fs)] = f]
  <2>6. Steps(fs, w, {"wait"})
    BY <1>3, <1>6, <2>3, <2>5, StepsChange
  <2> HIDE DEF w
  <2>7. Steps(frames[t], w, {"higher", "wait", "none"})
    BY <1>2, <1>6, <2>6 DEF Steps
  <2>8. frames' = [frames EXCEPT ![t] = w]
    BY <1>6, <2>4 DEF w
  <2>9. frames'[t] = w /\ OnlyOn(t)
    BY <1>1, <2>7, <2>8 DEF OnlyOn, Stacks, Steps
  <2>10. QED  BY <2>7, <2>9
<1>7. QED  BY <1>5, <1>6 DEF Return, R

-----------------------------------------------------------------------------
(* The threads of the sorter *)

\* Few threads are about to start one.
LEMMA StartingFinite ==
  ASSUME NEW s
  PROVE  IsFiniteSet(Starting(s)) /\ Cardinality(Starting(s)) \in Nat
<1>1. IsFiniteSet(Thread)
  BY FiniteAssumption, FS_AddElement DEF Thread
<1>2. Starting(s) \subseteq Thread
  BY DEF Starting
<1>3. QED  BY <1>1, <1>2, FS_Subset, FS_CardinalityType

\* The stack of one thread changes.
LEMMA StartingChange ==
  ASSUME NEW t \in Thread, OnlyOn(t), NEW P, Steps(frames[t], frames'[t], P)
  PROVE  /\ P \cap {"spawn", "append"} = {} => Starting(frames') \subseteq Starting(frames) \ {t}
         /\ Starting(frames') \subseteq Starting(frames) \cup {t}
BY DEF OnlyOn, Steps, Starting

LEMMA FewerStarting ==
  ASSUME NEW t \in Thread, OnlyOn(t), NEW P, Steps(frames[t], frames'[t], P),
         P \cap {"spawn", "append"} = {}
  PROVE  Cardinality(Starting(frames')) <= Cardinality(Starting(frames))
<1>1. Starting(frames') \subseteq Starting(frames)
  BY StartingChange
<1>2. QED  BY <1>1, StartingFinite, FS_Subset

\* The part of the invariant about each stack alone.
EachStack ==
  \A t \in Thread : /\ WaitsBelow(frames[t])
                    /\ At(t, "size") \/ At(t, "spawn") \/ At(t, "append") => kind = "chunk"

LEMMA EachStackStep ==
  ASSUME EachStack, NEW t \in Thread, OnlyOn(t), NEW P, Steps(frames[t], frames'[t], P),
         kind' = kind, P \cap {"size", "spawn", "append"} = {} \/ kind = "chunk"
  PROVE  EachStack'
<1>1. ASSUME NEW u \in Thread
      PROVE  /\ WaitsBelow(frames'[u])
             /\ frames'[u] # <<>> /\ frames'[u][Len(frames'[u])].pc \in {"size", "spawn", "append"}
                  => kind = "chunk"
  <2>1. CASE u = t
    BY <2>1 DEF Steps
  <2>2. CASE u # t
    <3>1. frames'[u] = frames[u]
      BY <2>2 DEF OnlyOn
    <3>2. QED  BY <3>1 DEF EachStack, At, Top
  <2>3. QED  BY <2>1, <2>2
<1>2. QED  BY <1>1 DEF EachStack, At, Top

\* A step of a thread that neither starts one nor is about to.
LEMMA QuietStep ==
  ASSUME TypeOK, ThreadInv, NEW t \in Thread, OnlyOn(t), NEW P, Steps(frames[t], frames'[t], P),
         P \cap {"spawn", "append"} = {}, P \cap {"size", "spawn", "append"} = {} \/ kind = "chunk",
         ~At(t, "append"), UNCHANGED <<kind, threads, mtx>>,
         \A w \in Worker : /\ state'[w] = "try" => frames'[w] = <<>>
                           /\ state'[w] # "none" => state[w] # "none"
  PROVE  ThreadInv'
<1>1. EachStack'
  BY EachStackStep DEF ThreadInv, EachStack
<1>2. threads' + Cardinality(Starting(frames')) <= Cardinality(Worker)
  <2>1. Cardinality(Starting(frames')) <= Cardinality(Starting(frames))
    BY FewerStarting
  <2>2. /\ Cardinality(Starting(frames')) \in Nat /\ Cardinality(Starting(frames)) \in Nat
        /\ Cardinality(Worker) \in Nat /\ threads \in Nat
    BY StartingFinite, FiniteAssumption, FS_CardinalityType DEF TypeOK
  <2>3. QED  BY <2>1, <2>2 DEF ThreadInv
<1>3. (mtx # Null => At(mtx, "append"))'
  <2> SUFFICES ASSUME mtx # Null  PROVE At(mtx, "append")'
    OBVIOUS
  <2>1. At(mtx, "append") /\ mtx # t /\ mtx \in Thread
    BY DEF ThreadInv, TypeOK
  <2>2. frames'[mtx] = frames[mtx] /\ mtx' = mtx
    BY <2>1 DEF OnlyOn
  <2>3. QED  BY <2>1, <2>2 DEF At, Top
<1>4. \A w \in Worker : /\ state'[w] = "try" => frames'[w] = <<>>
                        /\ state'[w] # "none" => kind' \in {"pool", "chunk"}
  BY DEF ThreadInv
<1>5. QED  BY <1>1, <1>2, <1>3, <1>4 DEF ThreadInv, EachStack

LEMMA ReadSizeThreads == ASSUME TypeOK, ThreadInv, NEW t \in Thread, ReadSize(t)  PROVE ThreadInv'
<1>1. /\ Types(frames, queue, fut) /\ frames[t] # <<>> /\ WaitsBelow(frames[t]) /\ kind = "chunk"
      /\ ~At(t, "append") /\ UNCHANGED <<kind, threads, mtx, state>>
      /\ \A w \in Worker : state[w] = "try" => w # t
  BY DEF ReadSize, At, ThreadInv, TypeOK, Types
<1>2. CASE Goto(t, "higher")
  <2>1. OnlyOn(t) /\ Steps(frames[t], frames'[t], {"higher"})
    BY <1>1, <1>2, GotoSteps DEF Pc
  <2>2. \A w \in Worker : state'[w] = "try" => frames'[w] = <<>>
    BY <1>1, <2>1 DEF OnlyOn, ThreadInv, Thread
  <2>3. QED  BY <1>1, <2>1, <2>2, QuietStep
<1>3. CASE Goto(t, "spawn") /\ Room
  <2>1. OnlyOn(t) /\ Steps(frames[t], frames'[t], {"spawn"})
    BY <1>1, <1>3, GotoSteps DEF Pc
  <2>2. \A w \in Worker : state'[w] = "try" => frames'[w] = <<>>
    BY <1>1, <2>1 DEF OnlyOn, ThreadInv, Thread
  <2>3. EachStack'
    BY <1>1, <2>1, EachStackStep DEF ThreadInv, EachStack
  <2>4. (mtx # Null => At(mtx, "append"))'
    <3> SUFFICES ASSUME mtx # Null  PROVE At(mtx, "append")'
      BY <1>1
    <3>1. At(mtx, "append") /\ mtx # t /\ mtx \in Thread
      BY <1>1 DEF ThreadInv, TypeOK
    <3>2. frames'[mtx] = frames[mtx] /\ mtx' = mtx
      BY <1>1, <2>1, <3>1 DEF OnlyOn
    <3>3. QED  BY <3>1, <3>2 DEF At, Top
  <2>5. threads' + Cardinality(Starting(frames')) <= Cardinality(Worker)
    <3>1. {u \in Thread : At(u, "spawn") \/ At(u, "append")} = Starting(frames)
      BY DEF At, Top, Starting
    <3>2. threads + Cardinality(Starting(frames)) < Cardinality(Worker)
      BY <1>3, <3>1 DEF Room
    <3>3. Starting(frames') \subseteq Starting(frames) \cup {t}
      BY <2>1, StartingChange
    <3>4. IsFiniteSet(Starting(frames) \cup {t})
          /\ Cardinality(Starting(frames) \cup {t}) <= Cardinality(Starting(frames)) + 1
      <4>1. /\ IsFiniteSet(Starting(frames) \cup {t})
            /\ Cardinality(Starting(frames) \cup {t}) =
                 IF t \in Starting(frames) THEN Cardinality(Starting(frames))
                 ELSE Cardinality(Starting(frames)) + 1
        BY StartingFinite, FS_AddElement
      <4>2. QED  BY <4>1, StartingFinite
    <3>5. Cardinality(Starting(frames')) <= Cardinality(Starting(frames) \cup {t})
      BY <3>3, <3>4, FS_Subset
    <3>6. /\ Cardinality(Starting(frames')) \in Nat /\ Cardinality(Starting(frames)) \in Nat
          /\ Cardinality(Starting(frames) \cup {t}) \in Nat
          /\ Cardinality(Worker) \in Nat /\ threads \in Nat
      BY <3>4, StartingFinite, FiniteAssumption, FS_CardinalityType DEF TypeOK
    <3>7. QED  BY <1>1, <3>2, <3>4, <3>5, <3>6
  <2>6. QED  BY <1>1, <2>2, <2>3, <2>4, <2>5 DEF ThreadInv, EachStack
<1>4. QED  BY <1>2, <1>3 DEF ReadSize

LEMMA Append1Threads == ASSUME TypeOK, ThreadInv, NEW t \in Thread, Append1(t)  PROVE ThreadInv'
<1>1. /\ Types(frames, queue, fut) /\ frames[t] # <<>> /\ WaitsBelow(frames[t]) /\ kind = "chunk"
      /\ Goto(t, "append") /\ mtx' = t /\ UNCHANGED <<kind, threads, state>>
      /\ \A w \in Worker : state[w] = "try" => w # t
      /\ Top(t).pc = "spawn"
  BY DEF Append1, At, ThreadInv, TypeOK, Types
<1>2. OnlyOn(t) /\ Steps(frames[t], frames'[t], {"append"})
  BY <1>1, GotoSteps DEF Pc
<1>3. \A w \in Worker : state'[w] = "try" => frames'[w] = <<>>
  BY <1>1, <1>2 DEF OnlyOn, ThreadInv, Thread
<1>4. EachStack'
  BY <1>1, <1>2, EachStackStep DEF ThreadInv, EachStack
<1>5. Starting(frames') \subseteq Starting(frames)
  <2>1. t \in Starting(frames)
    BY <1>1 DEF Starting, Top
  <2>2. QED  BY <1>2, <2>1, StartingChange
<1>6. threads' + Cardinality(Starting(frames')) <= Cardinality(Worker)
  <2>1. Cardinality(Starting(frames')) <= Cardinality(Starting(frames))
    BY <1>5, StartingFinite, FS_Subset
  <2>2. /\ Cardinality(Starting(frames')) \in Nat /\ Cardinality(Starting(frames)) \in Nat
        /\ Cardinality(Worker) \in Nat /\ threads \in Nat
    BY StartingFinite, FiniteAssumption, FS_CardinalityType DEF TypeOK
  <2>3. QED  BY <1>1, <2>1, <2>2 DEF ThreadInv
<1>7. (mtx # Null => At(mtx, "append"))'
  <2>1. frames'[t] # <<>>
    <3>1. frames' = [frames EXCEPT ![t] = GoneOn(t, "append")] /\ frames \in Stacks
      BY <1>1, GotoIsGoneOn, TopIs DEF Pc
    <3>2. GoneOn(t, "append") # <<>>
      BY <1>1, GoneOnSteps DEF Pc
    <3>3. QED  BY <3>1, <3>2 DEF Stacks
  <2>2. frames'[t][Len(frames'[t])].pc = "append"
    BY <1>2, <2>1 DEF Steps
  <2>3. QED  BY <1>1, <2>1, <2>2 DEF At, Top
<1>8. QED  BY <1>1, <1>3, <1>4, <1>6, <1>7 DEF ThreadInv, EachStack

LEMMA Append2Threads == ASSUME TypeOK, ThreadInv, NEW t \in Thread, Append2(t)  PROVE ThreadInv'
<1>1. /\ Types(frames, queue, fut) /\ frames[t] # <<>> /\ WaitsBelow(frames[t]) /\ kind = "chunk"
      /\ Goto(t, "higher") /\ mtx' = Null /\ kind' = kind /\ threads' = threads + 1
      /\ \A w \in Worker : state[w] = "try" => w # t
      /\ Top(t).pc = "append"
  BY DEF Append2, At, ThreadInv, TypeOK, Types
<1>2. OnlyOn(t) /\ Steps(frames[t], frames'[t], {"higher"})
  BY <1>1, GotoSteps DEF Pc
<1>3. \A w \in Worker : state'[w] = "try" => frames'[w] = <<>>
  <2>1. \A w \in Worker : state'[w] = "try" => state[w] = "try"
    BY DEF Append2, TypeOK
  <2>2. QED  BY <1>1, <1>2, <2>1 DEF OnlyOn, ThreadInv, Thread
<1>4. EachStack'
  BY <1>1, <1>2, EachStackStep DEF ThreadInv, EachStack
<1>5. threads' + Cardinality(Starting(frames')) <= Cardinality(Worker)
  <2>1. t \in Starting(frames)
    BY <1>1 DEF Starting, Top
  <2>2. Starting(frames') \subseteq Starting(frames) \ {t}
    BY <1>2, StartingChange
  <2>3. /\ IsFiniteSet(Starting(frames) \ {t})
        /\ Cardinality(Starting(frames) \ {t}) = Cardinality(Starting(frames)) - 1
    BY <2>1, StartingFinite, FS_RemoveElement
  <2>4. Cardinality(Starting(frames')) <= Cardinality(Starting(frames)) - 1
    BY <2>2, <2>3, FS_Subset
  <2>5. /\ Cardinality(Starting(frames')) \in Nat /\ Cardinality(Starting(frames)) \in Nat
        /\ Cardinality(Worker) \in Nat /\ threads \in Nat
    BY StartingFinite, FiniteAssumption, FS_CardinalityType DEF TypeOK
  <2>6. QED  BY <1>1, <2>4, <2>5 DEF ThreadInv
<1>6. QED  BY <1>1, <1>3, <1>4, <1>5 DEF ThreadInv, EachStack

\* The actions of do_sort() but for the start of a thread, on the stack of its thread.
LEMMA DoSortSteps ==
  ASSUME IInv, NEW t \in Thread,
         \/ SortLower(t) \/ AsyncLower(t) \/ SubmitLower(t)
         \/ CallHigher(t) \/ TestFuture(t) \/ Help(t) \/ Return(t)
  PROVE  /\ OnlyOn(t)
         /\ Steps(frames[t], frames'[t], {"submit", "higher", "wait", "help", "get", "none"})
         /\ ~At(t, "append") /\ frames[t] # <<>>
         /\ frames'[t] = <<>> => Return(t)
         /\ UNCHANGED <<kind, threads, mtx, state>>
<1>1. /\ SI /\ Types(frames, queue, fut) /\ WaitsBelow(frames[t])
  BY DEF IInv, SI, StackInv, ThreadInv
<1>2. \A P : Steps(frames[t], frames'[t], P) /\ P \subseteq {"submit", "higher", "wait", "help", "get", "none"}
        => /\ Steps(frames[t], frames'[t], {"submit", "higher", "wait", "help", "get", "none"})
           /\ "none" \notin P /\ frames[t] # <<>> => frames'[t] # <<>>
  BY DEF Steps
<1>3. CASE SortLower(t)
  <2>1. frames[t] # <<>> /\ Top(t).pc = "submit" /\ Sort(t, GoneOn(t, "higher"), Lower(t))
        /\ Top(t) \in Frame
    BY <1>1, <1>3, TopIs DEF SortLower, At
  <2>2. Steps(frames[t], GoneOn(t, "higher"), {"higher"}) /\ GoneOn(t, "higher") # <<>>
    BY <1>1, <2>1, GoneOnSteps DEF Pc
  <2>3. Steps(frames[t], GoneOn(t, "higher"), {"higher", "wait"})
    BY <2>2 DEF Steps
  <2>4. Lower(t) \in [of : Elem, data : SUBSET Elem]
    BY <2>1, Fields DEF Lower
  <2>5. OnlyOn(t) /\ Steps(frames[t], frames'[t], {"submit", "higher", "wait"})
    BY <1>1, <2>1, <2>2, <2>3, <2>4, SortSteps
  <2>6. QED  BY <1>2, <1>3, <2>1, <2>5 DEF SortLower, At
<1>4. CASE AsyncLower(t) \/ SubmitLower(t)
  <2>1. /\ frames[t] # <<>> /\ Top(t).pc = "submit" /\ Goto(t, "higher")
        /\ UNCHANGED <<kind, threads, mtx, state>>
    BY <1>4 DEF AsyncLower, SubmitLower, At
  <2>2. OnlyOn(t) /\ Steps(frames[t], frames'[t], {"higher"})
    BY <1>1, <2>1, GotoSteps DEF Pc
  <2>3. QED  BY <1>2, <2>1, <2>2 DEF At
<1>5. CASE CallHigher(t)
  <2>1. OnlyOn(t) /\ Steps(frames[t], frames'[t], {"submit", "wait"})
    BY <1>1, <1>5, CallHigherSteps
  <2>2. QED  BY <1>2, <1>5, <2>1 DEF CallHigher, At
<1>6. CASE TestFuture(t)
  <2>1. /\ frames[t] # <<>> /\ Top(t).pc = "wait" /\ UNCHANGED <<kind, threads, mtx, state>>
        /\ Goto(t, "get") \/ Goto(t, "help")
    BY <1>6 DEF TestFuture, At
  <2>2. OnlyOn(t) /\ (\/ Steps(frames[t], frames'[t], {"get"})
                      \/ Steps(frames[t], frames'[t], {"help"}))
    BY <1>1, <2>1, GotoSteps DEF Pc
  <2>3. QED  BY <1>2, <2>1, <2>2 DEF At
<1>7. CASE Help(t)
  <2>1. /\ frames[t] # <<>> /\ Top(t).pc = "help" /\ UNCHANGED <<kind, threads, mtx, state>>
        /\ Take(t, GoneOn(t, "wait")) \/ Goto(t, "wait")
    BY <1>7 DEF Help, At
  <2>2. Steps(frames[t], GoneOn(t, "wait"), {"wait"}) /\ GoneOn(t, "wait") # <<>>
    BY <1>1, <2>1, GoneOnSteps DEF Pc
  <2>3. Steps(frames[t], GoneOn(t, "wait"), {"higher", "wait"})
    BY <2>2 DEF Steps
  <2>4. CASE Take(t, GoneOn(t, "wait"))
    <3>1. OnlyOn(t) /\ Steps(frames[t], frames'[t], {"submit", "higher", "wait"})
      BY <1>1, <2>1, <2>2, <2>3, <2>4, TakeSteps
    <3>2. QED  BY <1>2, <2>1, <3>1 DEF At
  <2>5. CASE Goto(t, "wait")
    <3>1. OnlyOn(t) /\ Steps(frames[t], frames'[t], {"wait"})
      BY <1>1, <2>1, <2>5, GotoSteps DEF Pc
    <3>2. QED  BY <1>2, <2>1, <3>1 DEF At
  <2>6. QED  BY <2>1, <2>4, <2>5
<1>8. CASE Return(t)
  <2>1. OnlyOn(t) /\ Steps(frames[t], frames'[t], {"higher", "wait", "none"})
    BY <1>1, <1>8, ReturnSteps
  <2>2. QED  BY <1>2, <1>8, <2>1 DEF Return, At
<1>9. QED  BY <1>3, <1>4, <1>5, <1>6, <1>7, <1>8

\* A worker takes a part.
LEMMA IdleSteps ==
  ASSUME IInv, NEW t \in Thread, frames[t] = <<>>, Take(t, <<>>)
  PROVE  /\ OnlyOn(t) /\ Steps(frames[t], frames'[t], {"submit", "higher", "wait"})
         /\ queue # <<>>
<1>1. Types(frames, queue, fut)
  BY DEF IInv, StackInv
<1>2. Steps(frames[t], <<>>, {"higher", "wait"})
  BY EmptySeq DEF Steps, WaitsBelow
<1>3. QED  BY <1>1, <1>2, TakeSteps

\* Nobody is about to do anything without frames.
LEMMA IdleQuiet ==
  ASSUME NEW t \in Thread, frames[t] = <<>>  PROVE \A c : ~At(t, c)
BY DEF At

LEMMA ThreadStep == ASSUME IInv, [Next]_vars  PROVE ThreadInv'
<1>1. TypeOK /\ ThreadInv /\ MainInv
  BY DEF IInv
<1>2. ASSUME NEW t \in Thread, DoSort(t)  PROVE ThreadInv'
  <2>1. CASE \/ SortLower(t) \/ AsyncLower(t) \/ SubmitLower(t)
             \/ CallHigher(t) \/ TestFuture(t) \/ Help(t) \/ Return(t)
    <3>1. /\ OnlyOn(t) /\ ~At(t, "append") /\ frames[t] # <<>>
          /\ Steps(frames[t], frames'[t], {"submit", "higher", "wait", "help", "get", "none"})
          /\ UNCHANGED <<kind, threads, mtx, state>>
      BY <2>1, DoSortSteps
    <3>2. \A w \in Worker : state'[w] = "try" => frames'[w] = <<>>
      BY <1>1, <3>1 DEF OnlyOn, ThreadInv, Thread
    <3>3. QED  BY <1>1, <3>1, <3>2, QuietStep
  <2>2. CASE PushChunk(t)
    <3>1. /\ Types(frames, queue, fut) /\ frames[t] # <<>> /\ WaitsBelow(frames[t])
          /\ kind = "chunk" /\ Goto(t, "size") /\ UNCHANGED <<kind, threads, mtx, state>>
          /\ ~At(t, "append")
      BY <1>1, <2>2 DEF PushChunk, At, ThreadInv, TypeOK, Types
    <3>2. OnlyOn(t) /\ Steps(frames[t], frames'[t], {"size"})
      BY <3>1, GotoSteps DEF Pc
    <3>3. \A w \in Worker : state'[w] = "try" => frames'[w] = <<>>
      BY <1>1, <3>1, <3>2 DEF OnlyOn, ThreadInv, Thread
    <3>4. QED  BY <1>1, <3>1, <3>2, <3>3, QuietStep
  <2>3. QED
    BY <1>1, <1>2, <2>1, <2>2, ReadSizeThreads, Append1Threads, Append2Threads DEF DoSort
<1>3. ASSUME NEW w \in Worker, Try(w) \/ AsyncThread(w)  PROVE ThreadInv'
  <2>1. w \in Thread /\ frames[w] = <<>> /\ UNCHANGED <<kind, threads, mtx>>
    BY <1>1, <1>3 DEF Try, AsyncThread, ThreadInv, Thread
  <2>2. \A u \in Worker : /\ state'[u] = "try" => state[u] = "try" /\ (u = w => FALSE)
                          /\ state'[u] # "none" => state[u] # "none"
    BY <1>1, <1>3 DEF Try, AsyncThread, TypeOK, ThreadInv
  <2>3. CASE Take(w, <<>>)
    <3>1. OnlyOn(w) /\ Steps(frames[w], frames'[w], {"submit", "higher", "wait"})
      BY <2>1, <2>3, IdleSteps
    <3>2. \A u \in Worker : state'[u] = "try" => frames'[u] = <<>>
      BY <1>1, <2>2, <3>1 DEF OnlyOn, ThreadInv, Thread
    <3>3. ~At(w, "append")
      BY <2>1, IdleQuiet
    <3>4. QED  BY <1>1, <2>1, <2>2, <3>1, <3>2, <3>3, QuietStep
  <2>4. CASE UNCHANGED frames
    BY <1>1, <2>1, <2>2, <2>4 DEF ThreadInv, At, Top
  <2>5. QED  BY <1>3, <2>3, <2>4 DEF Try, AsyncThread
<1>4. ASSUME NEW w \in Worker, CheckDone(w)  PROVE ThreadInv'
  BY <1>1, <1>4 DEF CheckDone, ThreadInv, TypeOK, At, Top
<1>5. CASE Call
  <2>1. Live(frames) = {} /\ frames \in Stacks /\ Main \in Thread /\ Main \notin Worker
        /\ input \in SUBSET Elem
    BY <1>1, <1>5, NameAssumption DEF MainInv, Call, TypeOK, Stacks, Thread
  <2>2. frames[Main] = <<>>
    BY <2>1, TopLive
  <2>3. CASE UNCHANGED frames
    BY <1>1, <1>5, <2>3 DEF Call, ThreadInv, At, Top
  <2>4. CASE input # {}
    <3>1. PICK e \in input : frames' = [frames EXCEPT ![Main] = <<NewFrame(e, input, Null)>>]
      BY <1>5, <2>4 DEF Call
    <3> DEFINE f == NewFrame(e, input, Null)
    <3>2. f \in Frame /\ f.pc = "submit"
      <4>1. Null \in Elem \cup {Null}
        OBVIOUS
      <4>2. Begins(NewFrame(e, input, Null), input, e, Null)
        BY <2>1, <4>1, Partition
      <4>3. QED  BY <4>2 DEF Begins
    <3> HIDE DEF f
    <3>3. frames'[Main] = <<f>> /\ OnlyOn(Main)
      BY <2>1, <3>1, <3>2 DEF OnlyOn, Stacks, f
    <3>4. Steps(frames[Main], frames'[Main], {"submit"})
      BY <2>2, <3>2, <3>3 DEF Steps, WaitsBelow
    <3>5. ~At(Main, "append")
      BY <2>1, <2>2, IdleQuiet
    <3>6. \A w \in Worker : /\ state'[w] = "try" => frames'[w] = <<>>
                            /\ state'[w] # "none" => state[w] # "none"
      BY <1>1, <1>5, <2>1, <3>3 DEF Call, ThreadInv, OnlyOn, Thread
    <3>7. QED  BY <1>1, <1>5, <2>1, <3>3, <3>4, <3>5, <3>6, QuietStep DEF Call
  <2>5. QED  BY <1>5, <2>3, <2>4 DEF Call
<1>6. CASE Close \/ Join \/ UNCHANGED vars
  BY <1>1, <1>6 DEF Close, Join, vars, ThreadInv, At, Top
<1>7. QED
  BY <1>2, <1>3, <1>4, <1>5, <1>6 DEF Next, MainStep, WorkerStep, Thread

-----------------------------------------------------------------------------
(* What the calling thread knows *)

\* While there are calls or parts, the caller waits.
LEMMA Sorting ==
  ASSUME IInv, (\E t \in Thread : frames[t] # <<>>) \/ queue # <<>>
  PROVE  main = "sort"
<1>1. TypeOK /\ MainInv /\ frames \in Stacks
  BY DEF IInv, StackInv, Types, Stacks
<1>2. queue # <<>> \/ Live(frames) # {}
  BY <1>1, TopLive
<1>3. QED  BY <1>1, <1>2 DEF MainInv, TypeOK, Ended

\* The first call goes on.
LEMMA RootStays ==
  ASSUME IInv, SI', main = "sort", main' = "sort", NEW t \in Thread, OnlyOn(t),
         NEW P, Steps(frames[t], frames'[t], P), frames'[Main] # <<>>
  PROVE  MainInv'
<1>1. /\ frames \in Stacks /\ frames' \in Stacks /\ Main \in Thread
      /\ <<Main, 1>> \in Live(frames) /\ frames[Main][1].job = Null
  BY DEF IInv, MainInv, StackInv, Types, Stacks, OnlyOn, Thread
<1>2. frames[Main] # <<>>
  <2>1. frames[<<Main, 1>>[1]] # <<>>
    BY <1>1, Neighbours
  <2>2. QED  BY <2>1
<1>3. frames'[Main][1].job = Null
  <2>1. CASE t = Main
    BY <1>1, <1>2, <2>1 DEF Steps
  <2>2. CASE t # Main
    BY <1>1, <2>2 DEF OnlyOn
  <2>3. QED  BY <2>1, <2>2
<1>4. <<Main, 1>> \in Live(frames')
  <2>1. 1 \in 1..Len(frames'[Main])
    BY <1>1, EmptySeq DEF Stacks
  <2>2. QED  BY <1>1, <2>1, PosLive
<1>5. QED  BY <1>3, <1>4 DEF MainInv, Ended

LEMMA MainStepInv == ASSUME IInv, [Next]_vars  PROVE MainInv'
<1>1. /\ TypeOK /\ ThreadInv /\ MainInv /\ SI /\ SI' /\ Main \in Thread
      /\ Types(frames, queue, fut) /\ frames \in Stacks
  BY StackStep DEF IInv, SI, Thread, StackInv, Types, Stacks
<1>2. ASSUME main = "sort"  PROVE frames[Main] # <<>>
  <2>1. <<Main, 1>> \in Live(frames)
    BY <1>1, <1>2 DEF MainInv
  <2>2. frames[<<Main, 1>>[1]] # <<>>
    BY <1>1, <2>1, Neighbours
  <2>3. QED  BY <2>2
<1>3. ASSUME NEW t \in Thread, OnlyOn(t), frames'[t] # <<>> \/ t # Main,
             NEW P, Steps(frames[t], frames'[t], P), main = "sort", main' = main
      PROVE  MainInv'
  <2>1. frames'[Main] # <<>>
    BY <1>1, <1>2, <1>3 DEF OnlyOn
  <2>2. QED  BY <1>1, <1>3, <2>1, RootStays
<1>4. ASSUME NEW t \in Thread, DoSort(t)  PROVE MainInv'
  <2>1. frames[t] # <<>>
    BY <1>4 DEF DoSort, At, SortLower, AsyncLower, SubmitLower, PushChunk, ReadSize, Append1, Append2,
                CallHigher, TestFuture, Help, Return
  <2>2. main = "sort" /\ WaitsBelow(frames[t])
    BY <1>1, <2>1, Sorting DEF ThreadInv
  <2>3. CASE \E c \in Pc : Goto(t, c) /\ UNCHANGED main
    <3>1. PICK c \in Pc : Goto(t, c)
      BY <2>3
    <3>2. OnlyOn(t) /\ Steps(frames[t], frames'[t], {c})
      BY <1>1, <2>1, <2>2, <3>1, GotoSteps
    <3>3. frames'[t] # <<>>
      BY <2>1, <3>1, <3>2 DEF Steps, Pc
    <3>4. QED  BY <1>3, <2>2, <2>3, <3>2, <3>3
  <2>4. CASE (\/ SortLower(t) \/ AsyncLower(t) \/ SubmitLower(t)
              \/ CallHigher(t) \/ TestFuture(t) \/ Help(t)) /\ ~Return(t)
    <3>1. /\ OnlyOn(t) /\ frames'[t] # <<>>
          /\ Steps(frames[t], frames'[t], {"submit", "higher", "wait", "help", "get", "none"})
      BY <2>4, DoSortSteps
    <3>2. main' = main
      BY <2>4 DEF SortLower, AsyncLower, SubmitLower, CallHigher, TestFuture, Help
    <3>3. QED  BY <1>3, <2>2, <3>1, <3>2
  <2>5. CASE Return(t)
    <3>1. CASE Top(t).job = Null /\ Below(t) = <<>>
      <4>1. /\ queue' = <<>> /\ Live(frames') = {} /\ IsSort(output', input')
            /\ main' \in {"dtor", "return"}
        BY <1>1, <2>5, <3>1, RootReturns
      <4>2. QED  BY <4>1 DEF MainInv, Ended
    <3>2. CASE Top(t).job # Null \/ Below(t) # <<>>
      <4>1. main' = main
        BY <2>5, <3>2 DEF Return
      <4>2. OnlyOn(t) /\ Steps(frames[t], frames'[t], {"higher", "wait", "none"})
        BY <1>1, <2>2, <2>5, ReturnSteps
      <4>3. frames'[t] # <<>> \/ t # Main
        <5> SUFFICES ASSUME t = Main, frames'[t] = <<>>  PROVE FALSE
          OBVIOUS
        <5>1. frames[t] \in Seq(Frame) /\ frames[t][1].job = Null
          BY <1>1, <2>2 DEF Stacks, MainInv
        <5>2. Below(t) # <<>> \/ Top(t) = frames[t][1]
          BY <1>1, <2>1, BelowIs DEF TopPos, Top
        <5>3. Below(t) # <<>>
          BY <3>2, <5>1, <5>2
        <5>4. CASE frames' = [frames EXCEPT ![t] = Below(t)]
          BY <1>1, <5>3, <5>4 DEF Stacks
        <5>5. CASE Top(t).job = Null
          <6>1. frames' = [frames EXCEPT ![t] = [Below(t) EXCEPT ![Len(Below(t))].res = Result(Top(t)),
                                                                 ![Len(Below(t))].pc = "wait"]]
            BY <2>5, <5>3, <5>5 DEF Return
          <6>2. \A f, g : [[Below(t) EXCEPT ![Len(Below(t))] = f] EXCEPT ![Len(Below(t))] = g] # <<>>
            <7>1. DOMAIN Below(t) # {}
              BY <1>1, <5>1, <5>3, EmptySeq, SubSeqProperties, ElementOfSeq DEF Below
            <7>2. QED  BY <7>1
          <6>3. QED  BY <1>1, <6>1, <6>2 DEF Stacks
        <5>6. QED  BY <2>5, <5>4, <5>5 DEF Return
      <4>4. QED  BY <1>3, <2>2, <4>1, <4>2, <4>3
    <3>3. QED  BY <3>1, <3>2
  <2>6. CASE PushChunk(t) \/ ReadSize(t) \/ Append1(t) \/ Append2(t)
    BY <2>3, <2>6 DEF PushChunk, ReadSize, Append1, Append2, Pc
  <2>7. QED  BY <1>4, <2>4, <2>5, <2>6 DEF DoSort
<1>5. ASSUME NEW w \in Worker, Try(w) \/ AsyncThread(w)  PROVE MainInv'
  <2>1. w \in Thread /\ frames[w] = <<>> /\ main' = main /\ w # Main /\ UNCHANGED <<input, output>>
    BY <1>1, <1>5, NameAssumption DEF Try, AsyncThread, ThreadInv, Thread
  <2>2. CASE Take(w, <<>>)
    <3>1. OnlyOn(w) /\ Steps(frames[w], frames'[w], {"submit", "higher", "wait"}) /\ queue # <<>>
      BY <2>1, <2>2, IdleSteps
    <3>2. QED  BY <1>3, <2>1, <3>1, Sorting
  <2>3. CASE UNCHANGED <<frames, queue, fut>>
    BY <1>1, <2>1, <2>3 DEF MainInv, Ended
  <2>4. QED  BY <1>5, <2>2, <2>3 DEF Try, AsyncThread
<1>6. CASE Call
  <2>1. CASE input = {}
    <3>1. main' = "return" /\ UNCHANGED <<frames, queue, input, output>>
      BY <1>6, <2>1 DEF Call
    <3>2. QED  BY <1>1, <1>6, <2>1, <3>1, SortedEmpty DEF MainInv, Ended, Call
  <2>2. CASE input # {}
    <3>1. main' = "sort" /\ UNCHANGED input /\ input \in SUBSET Elem
      BY <1>1, <1>6, <2>2 DEF Call, TypeOK
    <3>2. PICK e \in input : frames' = [frames EXCEPT ![Main] = <<NewFrame(e, input, Null)>>]
      BY <1>6, <2>2 DEF Call
    <3>3. frames'[Main] = <<NewFrame(e, input, Null)>> /\ frames' \in Stacks
      BY <1>1, <3>2 DEF SI, StackInv, Types, Stacks
    <3>4. NewFrame(e, input, Null).job = Null
      BY DEF NewFrame
    <3>5. <<Main, 1>> \in Live(frames')
      <4>1. 1 \in 1..Len(frames'[Main])
        BY <3>3
      <4>2. QED  BY <1>1, <3>3, <4>1, PosLive
    <3>6. QED  BY <3>1, <3>3, <3>4, <3>5 DEF MainInv, Ended
  <2>3. QED  BY <2>1, <2>2
<1>7. CASE Close \/ Join
  BY <1>1, <1>7 DEF Close, Join, MainInv, Ended
<1>8. ASSUME NEW w \in Worker, CheckDone(w)  PROVE MainInv'
  BY <1>1, <1>8 DEF CheckDone, MainInv, Ended
<1>9. CASE UNCHANGED vars
  BY <1>1, <1>9 DEF vars, MainInv, Ended
<1>10. QED
  BY <1>4, <1>5, <1>6, <1>7, <1>8, <1>9 DEF Next, MainStep, WorkerStep, Thread

-----------------------------------------------------------------------------
(* Types *)

\* The variables that are no part of the stacks.
RestOK == /\ kind \in Kind /\ input \in SUBSET Elem
          /\ main \in {"call", "sort", "dtor", "join", "return"}
          /\ state \in [Worker -> {"none", "loop", "try", "exit"}]
          /\ threads \in Nat
          /\ mtx \in Thread \cup {Null} /\ done \in BOOLEAN
          /\ output \in Seq(Elem)

LEMMA RestStep == ASSUME IInv, [Next]_vars  PROVE RestOK'
<1>1. RestOK /\ SI /\ TypeOK
  BY DEF IInv, SI, TypeOK, RestOK
<1>2. ASSUME NEW t \in Thread, DoSort(t)  PROVE RestOK'
  <2>1. CASE \/ SortLower(t) \/ AsyncLower(t) \/ SubmitLower(t) \/ PushChunk(t)
             \/ ReadSize(t) \/ CallHigher(t) \/ TestFuture(t) \/ Help(t)
    BY <1>1, <2>1 DEF RestOK, SortLower, AsyncLower, SubmitLower, PushChunk, ReadSize,
                      CallHigher, TestFuture, Help
  <2>2. CASE Append1(t) \/ Append2(t)
    BY <1>1, <2>2 DEF RestOK, Append1, Append2
  <2>3. CASE Return(t)
    <3>1. UNCHANGED <<kind, input, state, threads, mtx, done>>
      BY <2>3 DEF Return
    <3>2. CASE Top(t).job = Null /\ Below(t) = <<>>
      <4>1. IsSort(output', input') /\ main' \in {"dtor", "return"}
        BY <1>1, <2>3, <3>2, RootReturns
      <4>2. QED  BY <1>1, <3>1, <4>1 DEF RestOK, IsSort
    <3>3. CASE UNCHANGED <<main, output>>
      BY <1>1, <3>1, <3>3 DEF RestOK
    <3>4. QED  BY <2>3, <3>2, <3>3 DEF Return
  <2>4. QED  BY <1>2, <2>1, <2>2, <2>3 DEF DoSort
<1>3. ASSUME NEW w \in Worker, CheckDone(w) \/ Try(w) \/ AsyncThread(w)  PROVE RestOK'
  BY <1>1, <1>3 DEF RestOK, CheckDone, Try, AsyncThread
<1>4. CASE Call \/ Close \/ Join \/ UNCHANGED vars
  BY <1>1, <1>4 DEF RestOK, Call, Close, Join, vars
<1>5. QED  BY <1>2, <1>3, <1>4 DEF Next, MainStep, WorkerStep, Thread

\* What the invariants say of the stacks and the threads gives the other types.
LEMMA TypesHold == RestOK /\ SI /\ ThreadInv => TypeOK
<1> SUFFICES ASSUME RestOK, SI, ThreadInv  PROVE TypeOK
  OBVIOUS
<1>1. /\ Types(frames, queue, fut) /\ ResultInv(frames, fut) /\ frames \in Stacks
  BY DEF SI, StackInv, Types, Stacks
<1>2. threads \in 0..Cardinality(Worker)
  <2>1. Cardinality(Starting(frames)) \in Nat /\ Cardinality(Worker) \in Nat
    BY FiniteAssumption, StartingFinite, FS_CardinalityType
  <2>2. QED  BY <2>1 DEF RestOK, ThreadInv
<1>3. \A t \in Thread : At(t, "get") => fut[Top(t).pivot] # Pending
  <2> SUFFICES ASSUME NEW t \in Thread, At(t, "get")  PROVE fut[Top(t).pivot] # Pending
    OBVIOUS
  <2>1. Top(t) = Fm(frames, TopPos(frames, t)) /\ TopPos(frames, t) \in Live(frames)
    BY <1>1, TopIs DEF At
  <2>2. QED  BY <1>1, <2>1 DEF ResultInv, At
<1>4. QED  BY <1>1, <1>2, <1>3 DEF TypeOK, RestOK, Types

LEMMA TypeStep == ASSUME IInv, [Next]_vars  PROVE TypeOK'
<1>1. RestOK' /\ SI' /\ ThreadInv'
  BY StackStep, ThreadStep, RestStep
<1>2. QED  BY <1>1, TypesHold, PTL

-----------------------------------------------------------------------------
(* Who waits for whom *)

\* The lower part of the call with the pivot x may be taken, or somebody sorts it.
Cared(s, q, x) == (\E i \in DOMAIN q : q[i].of = x) \/ \E r \in Live(s) : Fm(s, r).job = x

\* No part is lost while a call waits for it.
NothingLost(s, q, v) == \A p \in Live(s) :
  Fm(s, p).pc # "submit" /\ v[Fm(s, p).pivot] = Pending => Cared(s, q, Fm(s, p).pivot)

\* A call cannot end before the one that sorts its lower part, nor before those above it
\* on its stack, whosever part they sort.
Over(p, r) == p[1] = r[1] /\ p[2] < r[2]
Needs(s, p, r) == Over(p, r) \/ Fm(s, r).job = Fm(s, p).pivot

\* The calls can be numbered in the order in which they began: one only needs later ones.
Numbers(s, f, n) ==
  f \in [Live(s) -> 0..n] /\ \A p, r \in Live(s) : Needs(s, p, r) => f[p] < f[r]
InOrder(s) == \E n \in Nat : \E f : Numbers(s, f, n)

WaitInv(s, q, v) == NothingLost(s, q, v) /\ InOrder(s)

\* What a step may do to calls that wait: one call may begin, o, on top of a stack; the
\* others go on or return; nobody forgets a part that is not sorted.
Evolves(s, q, v, s2, q2, v2, o) ==
  /\ o \notin Live(s) /\ Live(s2) \subseteq Live(s) \cup {o}
  /\ o \in Live(s2) => /\ Live(s) \subseteq Live(s2) /\ Fm(s2, o).pc = "submit"
                       /\ \A r \in Live(s2) : ~Over(o, r)
  /\ \A r \in Live(s2) \ {o} :
       /\ Alike(Fm(s2, r), Fm(s, r))
       /\ Fm(s, r).pc = "submit" /\ Fm(s2, r).pc # "submit" =>
            v2[Fm(s2, r).pivot] # Pending \/ Cared(s2, q2, Fm(s2, r).pivot)
  /\ \A x \in Elem : v2[x] = Pending => v[x] = Pending /\ (Cared(s, q, x) => Cared(s2, q2, x))

\* Whose part a call sorts: its elements are those.
LEMMA WorksFor ==
  ASSUME NEW s, NEW q, NEW v, NEW C, StackInv(s, q, v, C), NEW p \in Live(s), NEW r \in Live(s),
         Fm(s, r).job = Fm(s, p).pivot
  PROVE  p # r /\ All(Fm(s, r)) = Fm(s, p).lower
<1>1. s \in Stacks /\ ShapeInv(s, C) /\ TreeInv(s) /\ LinkInv(s, C)
  BY DEF StackInv, Types, Stacks
<1>2. Fm(s, p).pivot \in Elem /\ Fm(s, r).job # Null
  BY <1>1, Parts, NameAssumption
<1>3. PICK g \in Live(s) : Fm(s, g).pivot = Fm(s, r).job /\ All(Fm(s, r)) = Fm(s, g).lower
  BY <1>1, <1>2 DEF LinkInv
<1>4. g = p
  BY <1>1, <1>3, PivotIn
<1>5. Fm(s, r).pivot \in All(Fm(s, r)) /\ Fm(s, p).pivot \notin Fm(s, p).lower
  BY <1>1, Parts
<1>6. QED  BY <1>3, <1>4, <1>5

\* The call that begins gets the next number.
LEMMA StaysInOrder ==
  ASSUME NEW s, NEW q, NEW v, NEW C, StackInv(s, q, v, C), InOrder(s),
         NEW s2, NEW q2, NEW v2, StackInv(s2, q2, v2, C), NEW o, Evolves(s, q, v, s2, q2, v2, o)
  PROVE  InOrder(s2)
<1>1. PICK n \in Nat : \E f : Numbers(s, f, n)
  BY DEF InOrder
<1>2. PICK f : Numbers(s, f, n)
  BY <1>1
<1>3. /\ s \in Stacks /\ s2 \in Stacks /\ ShapeInv(s2, C) /\ TreeInv(s2) /\ LinkInv(s, C)
      /\ ShapeInv(s, C)
  BY DEF StackInv, Types, Stacks
<1>4. /\ o \notin Live(s) /\ Live(s2) \subseteq Live(s) \cup {o}
      /\ o \in Live(s2) => Live(s) \subseteq Live(s2) /\ \A r \in Live(s2) : ~Over(o, r)
      /\ \A r \in Live(s2) \ {o} : Alike(Fm(s2, r), Fm(s, r))
  BY DEF Evolves
<1>5. f \in [Live(s) -> 0..n] /\ \A p, r \in Live(s) : Needs(s, p, r) => f[p] < f[r]
  BY <1>2 DEF Numbers
<1> DEFINE g == [r \in Live(s2) |-> IF r = o THEN n + 1 ELSE f[r]]
<1>6. n + 1 \in Nat /\ g \in [Live(s2) -> 0..n + 1]
  <2>1. \A r \in Live(s2) : r = o \/ f[r] \in 0..n
    BY <1>4, <1>5
  <2>2. QED  BY <2>1
<1>7. ASSUME NEW p \in Live(s2), NEW r \in Live(s2), Needs(s2, p, r)  PROVE g[p] < g[r]
  <2>1. CASE p = o
    <3>1. Fm(s2, r).job = Fm(s2, o).pivot
      BY <1>4, <1>7, <2>1 DEF Needs
    <3>2. r # o
      BY <1>7, <2>1, <3>1, WorksFor
    <3>3. r \in Live(s) /\ Fm(s, r).job = Fm(s2, o).pivot
      BY <1>4, <3>1, <3>2 DEF Alike
    <3>4. Fm(s, r).job # Null
      BY <1>3, <1>7, <2>1, <3>3, Parts, NameAssumption
    <3>5. PICK h \in Live(s) : Fm(s, h).pivot = Fm(s, r).job
      BY <1>3, <3>3, <3>4 DEF LinkInv
    <3>6. h \in Live(s2) /\ h # o /\ Fm(s2, h).pivot = Fm(s2, o).pivot
      BY <1>4, <1>7, <2>1, <3>3, <3>5 DEF Alike
    <3>7. QED  BY <1>3, <1>7, <2>1, <3>6, PivotIn
  <2>2. CASE p # o /\ r = o
    <3>1. f[p] \in 0..n
      BY <1>4, <1>5, <2>2
    <3>2. QED  BY <2>2, <3>1
  <2>3. CASE p # o /\ r # o
    <3>1. p \in Live(s) /\ r \in Live(s) /\ Alike(Fm(s2, p), Fm(s, p)) /\ Alike(Fm(s2, r), Fm(s, r))
      BY <1>4, <2>3
    <3>2. Needs(s, p, r)
      BY <1>7, <3>1 DEF Needs, Alike
    <3>3. QED  BY <1>5, <2>3, <3>1, <3>2
  <2>4. QED  BY <2>1, <2>2, <2>3
<1> HIDE DEF g
<1>8. Numbers(s2, g, n + 1)
  BY <1>6, <1>7 DEF Numbers
<1>9. QED  BY <1>6, <1>8 DEF InOrder

\* A part that is needed stays there, or is taken, until it is sorted.
LEMMA StaysCared ==
  ASSUME NEW s, NEW q, NEW v, NEW C, StackInv(s, q, v, C), NothingLost(s, q, v),
         NEW s2, NEW q2, NEW v2, StackInv(s2, q2, v2, C), NEW o, Evolves(s, q, v, s2, q2, v2, o)
  PROVE  NothingLost(s2, q2, v2)
<1> SUFFICES ASSUME NEW p \in Live(s2), Fm(s2, p).pc # "submit", v2[Fm(s2, p).pivot] = Pending
             PROVE  Cared(s2, q2, Fm(s2, p).pivot)
  BY DEF NothingLost
<1>1. s2 \in Stacks /\ ShapeInv(s2, C)
  BY DEF StackInv, Types, Stacks
<1>2. p # o /\ p \in Live(s) /\ Fm(s, p).pivot = Fm(s2, p).pivot
  BY DEF Evolves, Alike
<1>3. Fm(s2, p).pivot \in Elem
  BY <1>1, Parts
<1>4. CASE Fm(s, p).pc = "submit"
  BY <1>2, <1>4 DEF Evolves
<1>5. CASE Fm(s, p).pc # "submit"
  <2>1. /\ v[Fm(s2, p).pivot] = Pending
        /\ Cared(s, q, Fm(s2, p).pivot) => Cared(s2, q2, Fm(s2, p).pivot)
    BY <1>3 DEF Evolves
  <2>2. QED  BY <1>2, <1>5, <2>1 DEF NothingLost
<1>6. QED  BY <1>4, <1>5

\* The top of a stack has nothing above it.
LEMMA NothingOver ==
  ASSUME NEW s \in Stacks, NEW t \in Thread, NEW r \in Live(s)
  PROVE  r # NewPos(s, t) /\ ~Over(NewPos(s, t), r)
<1>1. Len(s[r[1]]) \in Nat /\ r[2] \in 1..Len(s[r[1]])
  BY LivePos
<1>2. NewPos(s, t)[1] = t /\ NewPos(s, t)[2] = Len(s[t]) + 1
  BY DEF NewPos
<1>3. ~Over(NewPos(s, t), r)
  BY <1>1, <1>2 DEF Over
<1>4. QED  BY <1>3, TopLive

\* A call goes on, or leaves its lower part.
LEMMA ChangeEvolves ==
  ASSUME NEW s \in Stacks, NEW q, NEW v, NEW q2, NEW t \in Thread, s[t] # <<>>,
         NEW f, Alike(f, Fm(s, TopPos(s, t))), NEW s2, Changed(s, s2, TopPos(s, t), f),
         \A i \in DOMAIN q : \E k \in DOMAIN q2 : q2[k].of = q[i].of,
         Fm(s, TopPos(s, t)).pc = "submit" =>
           \E k \in DOMAIN q2 : q2[k].of = Fm(s, TopPos(s, t)).pivot
  PROVE  Evolves(s, q, v, s2, q2, v, NewPos(s, t))
<1>1. /\ Live(s2) = Live(s) /\ Fm(s2, TopPos(s, t)) = f
      /\ \A r \in Live(s) \ {TopPos(s, t)} : Fm(s2, r) = Fm(s, r)
  BY DEF Changed
<1>2. NewPos(s, t) \notin Live(s)
  BY TopLive
<1>3. \A r \in Live(s) : Alike(Fm(s2, r), Fm(s, r))
  BY <1>1 DEF Alike
<1>4. \A r \in Live(s2) : Fm(s, r).pc = "submit" /\ Fm(s2, r).pc # "submit" =>
                            Cared(s2, q2, Fm(s2, r).pivot)
  BY <1>1 DEF Cared, Alike
<1>5. \A x : Cared(s, q, x) => Cared(s2, q2, x)
  BY <1>1, <1>3 DEF Cared, Alike
<1>6. QED  BY <1>1, <1>2, <1>3, <1>4, <1>5 DEF Evolves

\* A call begins that sorts no lower part, or one that nobody waits for yet.
LEMMA PushEvolves ==
  ASSUME NEW s \in Stacks, NEW q, NEW v, NEW t \in Thread, NEW f \in Frame, f.pc = "submit",
         NEW s2, Pushed(s, s2, t, f)
  PROVE  Evolves(s, q, v, s2, q, v, NewPos(s, t))
<1>1. /\ Live(s2) = Live(s) \cup {NewPos(s, t)} /\ Fm(s2, NewPos(s, t)) = f
      /\ \A r \in Live(s) : Fm(s2, r) = Fm(s, r)
  BY DEF Pushed
<1>2. NewPos(s, t) \notin Live(s)
  BY TopLive
<1>3. \A r \in Live(s2) : ~Over(NewPos(s, t), r)
  <2>1. NewPos(s, t)[2] = Len(s[t]) + 1 /\ Len(s[t]) \in Nat
    BY DEF NewPos, Stacks
  <2>2. ~Over(NewPos(s, t), NewPos(s, t))
    BY <2>1 DEF Over
  <2>3. QED  BY <1>1, <2>2, NothingOver
<1>4. \A r \in Live(s) : Alike(Fm(s2, r), Fm(s, r)) /\ Fm(s2, r).pc = Fm(s, r).pc
  BY <1>1 DEF Alike
<1>5. \A x : Cared(s, q, x) => Cared(s2, q, x)
  BY <1>1, <1>4 DEF Cared, Alike
<1>6. QED  BY <1>1, <1>2, <1>3, <1>4, <1>5 DEF Evolves

\* Somebody takes a part, while the call on top of its stack goes on.
LEMMA SortEvolves ==
  ASSUME NEW s, NEW q, NEW v, Types(s, q, v), NEW t \in Thread, NEW s1 \in Stacks,
         Live(s1) = Live(s), \A u \in Thread : Len(s1[u]) = Len(s[u]),
         \A r \in Live(s) : Alike(Fm(s1, r), Fm(s, r)),
         NEW j \in [of : Elem, data : SUBSET Elem],
         \A r \in Live(s) : Fm(s, r).pc = "submit" =>
                              Fm(s1, r).pc = "submit" \/ Fm(s, r).pivot = j.of,
         NEW q2, \A i \in DOMAIN q : q[i].of = j.of \/ \E k \in DOMAIN q2 : q2[k].of = q[i].of,
         NEW s2, NEW v2, Sorts(t, s1, j, v, s2, v2)
  PROVE  Evolves(s, q, v, s2, q2, v2, NewPos(s, t))
<1> DEFINE o == NewPos(s, t)
<1>1. s \in Stacks /\ v \in [Elem -> Seq(Elem) \cup {Pending}] /\ o = NewPos(s1, t)
  BY DEF Types, Stacks, NewPos
<1>2. o \notin Live(s)
  BY <1>1, TopLive
<1>3. j.of \in Elem /\ j.data \in SUBSET Elem
  OBVIOUS
<1> HIDE DEF o
<1>4. CASE j.data = {}
  <2>1. s2 = s1 /\ v2 = [v EXCEPT ![j.of] = <<>>] /\ <<>> # Pending
    BY <1>4, EmptySeq, NameAssumption DEF Sorts
  <2>2. v2[j.of] # Pending /\ \A x \in Elem : v2[x] = Pending => v[x] = Pending /\ x # j.of
    BY <1>1, <1>3, <2>1
  <2>3. \A x \in Elem : v2[x] = Pending => (Cared(s, q, x) => Cared(s2, q2, x))
    BY <2>1, <2>2 DEF Cared, Alike
  <2>4. \A r \in Live(s2) : Fm(s, r).pc = "submit" /\ Fm(s2, r).pc # "submit" =>
                              v2[Fm(s2, r).pivot] # Pending
    BY <2>1, <2>2 DEF Alike
  <2>5. QED  BY <1>2, <2>1, <2>2, <2>3, <2>4 DEF Evolves, o
<1>5. CASE j.data # {}
  <2>1. PICK e \in j.data : s2 = [s1 EXCEPT ![t] = Append(@, NewFrame(e, j.data, j.of))]
    BY <1>5 DEF Sorts
  <2>2. v2 = v
    BY <1>5 DEF Sorts
  <2> DEFINE f == NewFrame(e, j.data, j.of)
  <2>3. f \in Frame /\ f.pc = "submit" /\ f.job = j.of
    <3>1. Begins(NewFrame(e, j.data, j.of), j.data, e, j.of)
      BY <1>3, Partition
    <3>2. QED  BY <3>1 DEF Begins
  <2> HIDE DEF f
  <2>4. Pushed(s1, [s1 EXCEPT ![t] = Append(@, f)], t, f)
    BY <2>3, PushTop
  <2>5. Pushed(s1, s2, t, f)
    BY <2>1, <2>4 DEF f
  <2>6. Evolves(s1, q2, v, s2, q2, v, o)
    BY <1>1, <2>3, <2>5, PushEvolves
  <2>7. o \in Live(s2) /\ Fm(s2, o).job = j.of /\ \A r \in Live(s1) : Fm(s2, r) = Fm(s1, r)
    BY <1>1, <2>3, <2>5 DEF Pushed
  <2>8. Cared(s2, q2, j.of)
    BY <2>7 DEF Cared
  <2>9. \A r \in Live(s) : Alike(Fm(s2, r), Fm(s, r)) /\ Fm(s2, r).pc = Fm(s1, r).pc
    BY <2>7
  <2>10. \A x \in Elem : Cared(s, q, x) => Cared(s2, q2, x)
    <3> SUFFICES ASSUME NEW x \in Elem, Cared(s, q, x), x # j.of  PROVE Cared(s2, q2, x)
      BY <2>8
    <3>1. CASE \E i \in DOMAIN q : q[i].of = x
      BY <3>1 DEF Cared
    <3>2. CASE \E r \in Live(s) : Fm(s, r).job = x
      <4>1. Live(s) \subseteq Live(s2)
        BY <2>5 DEF Pushed
      <4>2. QED  BY <2>9, <3>2, <4>1 DEF Cared, Alike
    <3>3. QED  BY <3>1, <3>2 DEF Cared
  <2>11. \A r \in Live(s2) \ {o} : Fm(s, r).pc = "submit" /\ Fm(s2, r).pc # "submit" =>
                                     Cared(s2, q2, Fm(s2, r).pivot)
    <3>1. \A r \in Live(s2) \ {o} : r \in Live(s)
      BY <2>6 DEF Evolves
    <3>2. QED  BY <2>8, <2>9, <3>1 DEF Alike
  <2>12. /\ Live(s2) \subseteq Live(s) \cup {o} /\ Live(s) \subseteq Live(s2)
         /\ Fm(s2, o).pc = "submit" /\ \A r \in Live(s2) : ~Over(o, r)
    BY <2>6, <2>7 DEF Evolves
  <2>13. \A r \in Live(s2) \ {o} : Alike(Fm(s2, r), Fm(s, r))
    BY <2>9, <2>12
  <2>14. QED  BY <1>2, <2>2, <2>10, <2>11, <2>12, <2>13 DEF Evolves, o
<1>6. QED  BY <1>4, <1>5 DEF o

\* A call keeps the promise of another one, or passes its result to the one below.
LEMMA PopEvolves ==
  ASSUME NEW s, NEW q, NEW v, Types(s, q, v), NEW t \in Thread, NEW s2,
         Live(s2) = Live(s) \ {TopPos(s, t)},
         \A r \in Live(s2) : /\ Alike(Fm(s2, r), Fm(s, r))
                             /\ Fm(s2, r).pc # "submit" => Fm(s, r).pc # "submit",
         NEW v2, \A x \in Elem : v2[x] = Pending =>
                   v[x] = Pending /\ x # Fm(s, TopPos(s, t)).job
  PROVE  Evolves(s, q, v, s2, q, v2, NewPos(s, t))
<1>1. s \in Stacks
  BY DEF Types, Stacks
<1>2. NewPos(s, t) \notin Live(s)
  BY <1>1, TopLive
<1>3. \A x \in Elem : v2[x] = Pending => (Cared(s, q, x) => Cared(s2, q, x))
  BY DEF Cared, Alike
<1>4. QED  BY <1>2, <1>3 DEF Evolves

-----------------------------------------------------------------------------
(* The actions, and who waits *)

WI == WaitInv(frames, queue, fut)
EvolvesOn(t) == Evolves(frames, queue, fut, frames', queue', fut', NewPos(frames, t))

LEMMA Evolved == ASSUME SI, SI', WI, input' = input, NEW t \in Thread, EvolvesOn(t)  PROVE WI'
<1> DEFINE o == NewPos(frames, t)
<1>1. StackInv(frames', queue', fut', input)
  BY DEF SI
<1>2. Evolves(frames, queue, fut, frames', queue', fut', o)
  BY DEF EvolvesOn
<1> HIDE DEF o
<1>3. InOrder(frames')
  BY <1>1, <1>2, StaysInOrder DEF SI, WI, WaitInv
<1>4. NothingLost(frames', queue', fut')
  BY <1>1, <1>2, StaysCared DEF SI, WI, WaitInv
<1>5. QED  BY <1>3, <1>4 DEF WI, WaitInv

\* A call that has left its lower part goes on.
LEMMA GotoEvolves ==
  ASSUME SI, NEW t \in Thread, frames[t] # <<>>, Top(t).pc # "submit", NEW c \in Pc, Goto(t, c),
         UNCHANGED <<queue, fut>>
  PROVE  EvolvesOn(t)
<1>1. Types(frames, queue, fut)
  BY DEF SI, StackInv
<1>2. /\ frames \in Stacks /\ Top(t) = Fm(frames, TopPos(frames, t)) /\ Top(t) \in Frame
      /\ frames' = [frames EXCEPT ![t] = GoneOn(t, c)]
  BY <1>1, TopIs, GotoIsGoneOn
<1> DEFINE f == [Fm(frames, TopPos(frames, t)) EXCEPT !.pc = c]
<1>3. Alike(f, Fm(frames, TopPos(frames, t)))
  BY <1>2, GoesOn DEF Pc, Alike
<1>4. Changed(frames, frames', TopPos(frames, t), f)
  BY <1>1, <1>2, GoneOnChanges
<1> HIDE DEF f
<1>5. \A i \in DOMAIN queue : \E k \in DOMAIN queue : queue[k].of = queue[i].of
  OBVIOUS
<1>6. Evolves(frames, queue, fut, frames', queue, fut, NewPos(frames, t))
  BY <1>2, <1>3, <1>4, <1>5, ChangeEvolves
<1>7. QED  BY <1>6 DEF EvolvesOn

LEMMA LeaveEvolves ==
  ASSUME SI, NEW t \in Thread, At(t, "submit"), NEW c \in {"size", "higher"}, Goto(t, c),
         queue' = Append(queue, Lower(t)), fut' = fut
  PROVE  EvolvesOn(t)
<1>1. Types(frames, queue, fut) /\ frames[t] # <<>> /\ c \in Pc
  BY DEF SI, StackInv, At, Pc
<1>2. /\ frames \in Stacks /\ Top(t) = Fm(frames, TopPos(frames, t)) /\ Top(t) \in Frame
      /\ frames' = [frames EXCEPT ![t] = GoneOn(t, c)]
  BY <1>1, TopIs, GotoIsGoneOn
<1> DEFINE f == [Fm(frames, TopPos(frames, t)) EXCEPT !.pc = c]
<1>3. Alike(f, Fm(frames, TopPos(frames, t)))
  BY <1>1, <1>2, GoesOn DEF Pc, Alike
<1>4. Changed(frames, frames', TopPos(frames, t), f)
  BY <1>1, <1>2, GoneOnChanges
<1> HIDE DEF f
<1> DEFINE S == [of : Elem, data : SUBSET Elem]
           j == Lower(t)
<1>5. queue \in Seq(S) /\ j \in S /\ j.of = Fm(frames, TopPos(frames, t)).pivot
  BY <1>1, <1>2, Fields DEF Types, Lower
<1> HIDE DEF S, j
<1>6. /\ \A i \in DOMAIN queue : i \in DOMAIN Append(queue, j) /\ Append(queue, j)[i] = queue[i]
      /\ Len(queue) + 1 \in DOMAIN Append(queue, j) /\ Append(queue, j)[Len(queue) + 1] = j
  BY <1>5, AppendProperties
<1> DEFINE q2 == Append(queue, j)
<1>7. /\ \A i \in DOMAIN queue : \E k \in DOMAIN q2 : q2[k].of = queue[i].of
      /\ \E k \in DOMAIN q2 : q2[k].of = Fm(frames, TopPos(frames, t)).pivot
  BY <1>5, <1>6
<1> HIDE DEF q2
<1>8. Evolves(frames, queue, fut, frames', q2, fut, NewPos(frames, t))
  BY <1>1, <1>2, <1>3, <1>4, <1>7, ChangeEvolves
<1>9. QED  BY <1>8 DEF EvolvesOn, q2, j

\* A part j is taken while the top call goes on to c.
LEMMA TakeEvolves ==
  ASSUME SI, NEW t \in Thread, frames[t] # <<>>, NEW c \in Pc \ {"submit"},
         NEW j \in [of : Elem, data : SUBSET Elem], Sort(t, GoneOn(t, c), j),
         Top(t).pc = "submit" => Top(t).pivot = j.of,
         \A i \in DOMAIN queue : queue[i].of = j.of
                                 \/ \E k \in DOMAIN queue' : queue'[k].of = queue[i].of
  PROVE  EvolvesOn(t)
<1>1. Types(frames, queue, fut)
  BY DEF SI, StackInv
<1>2. /\ frames \in Stacks /\ Top(t) = Fm(frames, TopPos(frames, t)) /\ Top(t) \in Frame
  BY <1>1, TopIs
<1> DEFINE f == [Fm(frames, TopPos(frames, t)) EXCEPT !.pc = c]
           s1 == [frames EXCEPT ![t] = GoneOn(t, c)]
<1>3. Alike(f, Fm(frames, TopPos(frames, t)))
  BY <1>1, <1>2, GoesOn DEF Pc, Alike
<1>4. Changed(frames, s1, TopPos(frames, t), f)
  BY <1>1, GoneOnChanges
<1> HIDE DEF f
<1>5. GoneOn(t, c) \in Seq(Frame)
  <2>1. s1 \in Stacks
    BY <1>4 DEF Changed
  <2>2. QED  BY <1>2, <2>1 DEF Stacks
<1>6. Sorts(t, s1, j, fut, frames', fut')
  BY <1>1, <1>5, SortSorts
<1> HIDE DEF s1
<1>7. /\ s1 \in Stacks /\ Live(s1) = Live(frames)
      /\ \A u \in Thread : Len(s1[u]) = Len(frames[u])
      /\ \A r \in Live(frames) : Alike(Fm(s1, r), Fm(frames, r))
      /\ \A r \in Live(frames) : Fm(frames, r).pc = "submit" =>
           Fm(s1, r).pc = "submit" \/ Fm(frames, r).pivot = j.of
  BY <1>2, <1>3, <1>4 DEF Changed, Alike
<1> DEFINE q2 == queue'
<1>8. \A i \in DOMAIN queue : queue[i].of = j.of \/ \E k \in DOMAIN q2 : q2[k].of = queue[i].of
  OBVIOUS
<1> HIDE DEF q2
<1>9. Evolves(frames, queue, fut, frames', q2, fut', NewPos(frames, t))
  BY <1>1, <1>6, <1>7, <1>8, SortEvolves
<1>10. QED  BY <1>9 DEF EvolvesOn, q2

\* What Take takes.
LEMMA Taken ==
  ASSUME Types(frames, queue, fut), NEW t \in Thread, NEW fs, Take(t, fs)
  PROVE  \E j \in [of : Elem, data : SUBSET Elem] :
           /\ Sort(t, fs, j)
           /\ \A i \in DOMAIN queue : queue[i].of = j.of
                                      \/ \E k \in DOMAIN queue' : queue'[k].of = queue[i].of
<1>1. MayTake(t) \subseteq DOMAIN queue
  BY DEF MayTake, StackTop
<1>2. PICK k \in DOMAIN queue : Sort(t, fs, queue[k]) /\ queue' = Without(queue, k)
  BY <1>1 DEF Take
<1> DEFINE S == [of : Elem, data : SUBSET Elem]
<1>3. queue \in Seq(S)
  BY DEF Types
<1> HIDE DEF S
<1>4. queue[k] \in S
  BY <1>2, <1>3, ElementOfSeq
<1>5. \A i \in DOMAIN queue : i = k \/ \E l \in DOMAIN queue' : queue'[l] = queue[i]
  BY <1>2, <1>3, WithoutKeeps
<1>6. QED  BY <1>2, <1>4, <1>5 DEF S

LEMMA HelpEvolves == ASSUME SI, NEW t \in Thread, Help(t)  PROVE EvolvesOn(t)
<1>1. Types(frames, queue, fut) /\ frames[t] # <<>> /\ Top(t).pc = "help"
  BY DEF SI, StackInv, Help, At
<1>2. CASE Take(t, GoneOn(t, "wait"))
  <2>1. PICK j \in [of : Elem, data : SUBSET Elem] :
           /\ Sort(t, GoneOn(t, "wait"), j)
           /\ \A i \in DOMAIN queue : queue[i].of = j.of
                                      \/ \E k \in DOMAIN queue' : queue'[k].of = queue[i].of
    BY <1>1, <1>2, Taken
  <2>2. "wait" \in Pc \ {"submit"} /\ Top(t).pc # "submit"
    BY <1>1 DEF Pc
  <2>3. QED  BY <1>1, <2>1, <2>2, TakeEvolves
<1>3. CASE Goto(t, "wait") /\ UNCHANGED <<queue, fut>>
  BY <1>1, <1>3, GotoEvolves DEF Pc
<1>4. QED  BY <1>2, <1>3 DEF Help

LEMMA SortLowerEvolves == ASSUME SI, NEW t \in Thread, SortLower(t)  PROVE EvolvesOn(t)
<1>1. /\ Types(frames, queue, fut) /\ frames[t] # <<>> /\ Sort(t, GoneOn(t, "higher"), Lower(t))
      /\ queue' = queue
  BY DEF SI, StackInv, SortLower, At
<1>2. Lower(t) \in [of : Elem, data : SUBSET Elem] /\ Top(t).pivot = Lower(t).of
  BY <1>1, TopIs, Fields DEF Lower
<1>3. "higher" \in Pc \ {"submit"}
  BY DEF Pc
<1>4. \A i \in DOMAIN queue : \E k \in DOMAIN queue' : queue'[k].of = queue[i].of
  BY <1>1
<1>5. QED  BY <1>1, <1>2, <1>3, <1>4, TakeEvolves

LEMMA IdleTakeEvolves ==
  ASSUME SI, NEW t \in Thread, frames[t] = <<>>, Take(t, <<>>)  PROVE EvolvesOn(t)
<1>1. Types(frames, queue, fut) /\ <<>> \in Seq(Frame) /\ frames \in Stacks
  BY EmptySeq DEF SI, StackInv, Types, Stacks
<1>2. PICK j \in [of : Elem, data : SUBSET Elem] :
        /\ Sort(t, <<>>, j)
        /\ \A i \in DOMAIN queue : queue[i].of = j.of
                                   \/ \E k \in DOMAIN queue' : queue'[k].of = queue[i].of
  BY <1>1, Taken
<1> DEFINE s1 == [frames EXCEPT ![t] = <<>>]
<1>3. s1 = frames
  BY <1>1 DEF Stacks
<1>a. Sorts(t, s1, j, fut, frames', fut')
  BY <1>1, <1>2, SortSorts
<1> HIDE DEF s1
<1>4. Sorts(t, frames, j, fut, frames', fut')
  BY <1>3, <1>a
<1>5. /\ \A u \in Thread : Len(frames[u]) = Len(frames[u])
      /\ \A r \in Live(frames) : Alike(Fm(frames, r), Fm(frames, r))
      /\ \A r \in Live(frames) : Fm(frames, r).pc = "submit" =>
           Fm(frames, r).pc = "submit" \/ Fm(frames, r).pivot = j.of
  BY DEF Alike
<1> DEFINE q2 == queue'
<1>6. \A i \in DOMAIN queue : queue[i].of = j.of \/ \E k \in DOMAIN q2 : q2[k].of = queue[i].of
  BY <1>2
<1> HIDE DEF q2
<1>7. Evolves(frames, queue, fut, frames', q2, fut', NewPos(frames, t))
  BY <1>1, <1>4, <1>5, <1>6, SortEvolves
<1>8. QED  BY <1>7 DEF EvolvesOn, q2

LEMMA CallHigherEvolves == ASSUME SI, NEW t \in Thread, CallHigher(t)  PROVE EvolvesOn(t)
<1>1. Types(frames, queue, fut) /\ frames[t] # <<>> /\ Top(t).pc = "higher"
  BY DEF SI, StackInv, CallHigher, At
<1>2. frames \in Stacks /\ Top(t) \in Frame /\ UNCHANGED <<queue, fut>>
  BY <1>1, TopIs DEF CallHigher
<1>3. CASE Top(t).higher = {}
  BY <1>1, <1>2, <1>3, GotoEvolves DEF CallHigher, Pc
<1>4. CASE Top(t).higher # {}
  <2> DEFINE D == Top(t).higher
  <2>1. PICK e \in D : frames' = [frames EXCEPT ![t] = Append(@, NewFrame(e, D, Null))]
    BY <1>4 DEF CallHigher
  <2>2. D \in SUBSET Elem
    BY <1>2, Fields
  <2> HIDE DEF D
  <2> DEFINE f == NewFrame(e, D, Null)
  <2>3. f \in Frame /\ f.pc = "submit"
    <3>1. Null \in Elem \cup {Null}
      OBVIOUS
    <3>2. Begins(NewFrame(e, D, Null), D, e, Null)
      BY <2>2, <3>1, Partition
    <3>3. QED  BY <3>2 DEF Begins
  <2>4. frames' = [frames EXCEPT ![t] = Append(@, f)]
    BY <2>1
  <2> HIDE DEF f
  <2>5. Pushed(frames, frames', t, f)
    BY <1>2, <2>3, <2>4, PushTop
  <2>6. Evolves(frames, queue, fut, frames', queue, fut, NewPos(frames, t))
    BY <1>2, <2>3, <2>5, PushEvolves
  <2>7. QED  BY <1>2, <2>6 DEF EvolvesOn
<1>5. QED  BY <1>3, <1>4

LEMMA ReturnEvolves ==
  ASSUME SI, NEW t \in Thread, Return(t), Top(t).job # Null \/ Below(t) # <<>>
  PROVE  EvolvesOn(t)
<1> DEFINE p == TopPos(frames, t)
           R == Result(Top(t))
<1>1. Types(frames, queue, fut) /\ frames[t] # <<>> /\ Top(t).pc = "get"
  BY DEF SI, StackInv, Return, At
<1>2. /\ frames \in Stacks /\ Top(t) = Fm(frames, p) /\ Top(t) \in Frame /\ p \in Live(frames)
      /\ fut \in [Elem -> Seq(Elem) \cup {Pending}] /\ queue' = queue
  BY <1>1, TopIs DEF Types, Return
<1>3. R # Pending
  <2>1. IsSort(R, All(Fm(frames, p)))
    BY <1>1, <1>2, ReturnsSorted DEF SI, Result
  <2>2. QED  BY <2>1, NameAssumption DEF IsSort
<1> HIDE DEF R
<1>4. CASE Top(t).job # Null
  <2>1. fut' = [fut EXCEPT ![Top(t).job] = R] /\ frames' = [frames EXCEPT ![t] = Below(t)]
    BY <1>4 DEF Return, R
  <2>2. Popped(frames, frames', t)
    <3>1. Popped(frames, [frames EXCEPT ![t] = SubSeq(@, 1, Len(@) - 1)], t)
      BY <1>1, <1>2, PopTop
    <3>2. QED  BY <2>1, <3>1 DEF Below
  <2>3. Top(t).job \in Elem
    BY <1>2, <1>4, Fields
  <2>4. \A x \in Elem : fut'[x] = Pending => fut[x] = Pending /\ x # Fm(frames, p).job
    BY <1>2, <1>3, <2>1, <2>3
  <2>5. /\ Live(frames') = Live(frames) \ {p}
        /\ \A r \in Live(frames') : /\ Alike(Fm(frames', r), Fm(frames, r))
                                    /\ Fm(frames', r).pc # "submit" => Fm(frames, r).pc # "submit"
    BY <2>2 DEF Popped, Alike
  <2>6. Evolves(frames, queue, fut, frames', queue, fut', NewPos(frames, t))
    BY <1>1, <2>4, <2>5, PopEvolves
  <2>7. QED  BY <1>2, <2>6 DEF EvolvesOn
<1>5. CASE Top(t).job = Null /\ Below(t) # <<>>
  <2>1. fut' = fut
    BY <1>5 DEF Return
  <2>2. PICK f : /\ Alike(f, Fm(frames, Under(p))) /\ Returned(frames, frames', t, f)
    BY <1>5, ReturnPasses
  <2>3. p[2] # 1
    BY <1>1, <1>5, BelowIs
  <2>4. Fm(frames, Under(p)).pc = "higher"
    BY <1>2, <1>5, <2>3 DEF SI, StackInv, LinkInv
  <2>5. /\ Live(frames') = Live(frames) \ {p}
        /\ \A r \in Live(frames') : /\ Alike(Fm(frames', r), Fm(frames, r))
                                    /\ Fm(frames', r).pc # "submit" => Fm(frames, r).pc # "submit"
    BY <2>2, <2>4 DEF Returned, Alike
  <2>6. \A x \in Elem : fut'[x] = Pending => fut[x] = Pending /\ x # Fm(frames, p).job
    BY <1>2, <1>5, <2>1, NameAssumption
  <2>7. Evolves(frames, queue, fut, frames', queue, fut', NewPos(frames, t))
    BY <1>1, <2>5, <2>6, PopEvolves
  <2>8. QED  BY <1>2, <2>7 DEF EvolvesOn
<1>6. QED  BY <1>4, <1>5

\* Without calls nobody waits.
LEMMA NobodyWaits == ASSUME NEW s, NEW q, NEW v, Live(s) = {}  PROVE WaitInv(s, q, v)
<1>1. Numbers(s, [p \in Live(s) |-> 0], 0)
  BY DEF Numbers
<1>2. QED  BY <1>1 DEF WaitInv, InOrder, NothingLost

LEMMA CallEvolves == ASSUME TypeOK, MainInv, Call, input # {}  PROVE EvolvesOn(Main)
<1>1. frames \in Stacks /\ Main \in Thread /\ input \in SUBSET Elem /\ UNCHANGED <<queue, fut>>
  BY DEF TypeOK, Stacks, Thread, Call
<1>2. frames[Main] = <<>>
  BY <1>1, TopLive DEF MainInv, Call
<1>3. PICK e \in input : frames' = [frames EXCEPT ![Main] = <<NewFrame(e, input, Null)>>]
  BY DEF Call
<1> DEFINE f == NewFrame(e, input, Null)
<1>4. f \in Frame /\ f.pc = "submit"
  <2>1. Null \in Elem \cup {Null}
    OBVIOUS
  <2>2. Begins(NewFrame(e, input, Null), input, e, Null)
    BY <1>1, <2>1, Partition
  <2>3. QED  BY <2>2 DEF Begins
<1>5. Append(<<>>, f) = <<f>>
  OBVIOUS
<1> HIDE DEF f
<1>6. frames' = [frames EXCEPT ![Main] = Append(frames[Main], f)]
  BY <1>2, <1>3, <1>5 DEF f
<1>7. Pushed(frames, [frames EXCEPT ![Main] = Append(@, f)], Main, f)
  BY <1>1, <1>4, PushTop
<1>8. Pushed(frames, frames', Main, f)
  BY <1>6, <1>7
<1>9. Evolves(frames, queue, fut, frames', queue, fut, NewPos(frames, Main))
  BY <1>1, <1>4, <1>8, PushEvolves
<1>10. QED  BY <1>1, <1>9 DEF EvolvesOn

LEMMA DoSortEvolves ==
  ASSUME SI, NEW t \in Thread, DoSort(t)
  PROVE  \/ EvolvesOn(t)
         \/ Return(t) /\ Top(t).job = Null /\ Below(t) = <<>>
<1>1. CASE SortLower(t)
  BY <1>1, SortLowerEvolves
<1>2. CASE AsyncLower(t) \/ SubmitLower(t)
  <2>1. At(t, "submit") /\ Goto(t, "higher") /\ queue' = Append(queue, Lower(t)) /\ fut' = fut
    BY <1>2 DEF AsyncLower, SubmitLower
  <2>2. QED  BY <2>1, LeaveEvolves
<1>3. CASE PushChunk(t)
  <2>1. At(t, "submit") /\ Goto(t, "size") /\ queue' = Append(queue, Lower(t)) /\ fut' = fut
    BY <1>3 DEF PushChunk, StackPush
  <2>2. QED  BY <2>1, LeaveEvolves
<1>4. CASE ReadSize(t) \/ Append1(t) \/ Append2(t) \/ TestFuture(t)
  <2>1. PICK c \in Pc : Goto(t, c)
    BY <1>4 DEF ReadSize, Append1, Append2, TestFuture, Pc
  <2>2. frames[t] # <<>> /\ Top(t).pc # "submit" /\ UNCHANGED <<queue, fut>>
    BY <1>4 DEF ReadSize, Append1, Append2, TestFuture, At
  <2>3. QED  BY <2>1, <2>2, GotoEvolves
<1>5. CASE CallHigher(t)
  BY <1>5, CallHigherEvolves
<1>6. CASE Help(t)
  BY <1>6, HelpEvolves
<1>7. CASE Return(t)
  BY <1>7, ReturnEvolves
<1>8. QED  BY <1>1, <1>2, <1>3, <1>4, <1>5, <1>6, <1>7 DEF DoSort

LEMMA WaitStep == ASSUME IInv, WI, [Next]_vars  PROVE WI'
<1>1. SI /\ SI' /\ TypeOK /\ MainInv /\ ThreadInv
  BY StackStep DEF IInv, SI
<1>2. CASE UNCHANGED <<frames, queue, fut>>
  BY <1>2 DEF WI
<1>3. ASSUME NEW t \in Thread, DoSort(t)  PROVE WI'
  <2>1. input' = input
    BY <1>3 DEF DoSort, SortLower, AsyncLower, SubmitLower, PushChunk, ReadSize, Append1, Append2,
                CallHigher, TestFuture, Help, Return
  <2>2. CASE EvolvesOn(t)
    BY <1>1, <2>1, <2>2, Evolved
  <2>3. CASE Return(t) /\ Top(t).job = Null /\ Below(t) = <<>>
    <3>1. Live(frames') = {}
      BY <1>1, <2>3, RootReturns
    <3>2. QED  BY <3>1, NobodyWaits DEF WI
  <2>4. QED  BY <1>1, <1>3, <2>2, <2>3, DoSortEvolves
<1>4. ASSUME NEW w \in Worker, Try(w) \/ AsyncThread(w)  PROVE WI'
  <2>1. w \in Thread /\ frames[w] = <<>> /\ input' = input
    BY <1>1, <1>4 DEF Try, AsyncThread, ThreadInv, Thread
  <2>2. CASE Take(w, <<>>)
    BY <1>1, <2>1, <2>2, IdleTakeEvolves, Evolved
  <2>3. QED  BY <1>2, <1>4, <2>2 DEF Try, AsyncThread
<1>5. CASE Call
  <2>1. CASE input # {}
    <3>1. EvolvesOn(Main) /\ Main \in Thread /\ input' = input
      BY <1>1, <1>5, <2>1, CallEvolves DEF Call, Thread
    <3>2. QED  BY <1>1, <3>1, Evolved
  <2>2. QED  BY <1>2, <1>5, <2>1 DEF Call
<1>6. CASE Close \/ Join \/ UNCHANGED vars
  BY <1>2, <1>6 DEF Close, Join, vars
<1>7. ASSUME NEW w \in Worker, CheckDone(w)  PROVE WI'
  BY <1>2, <1>7 DEF CheckDone
<1>8. QED
  BY <1>3, <1>4, <1>5, <1>6, <1>7 DEF Next, MainStep, WorkerStep, Thread

\* A bounded set of numbers has a largest one.
LEMMA Largest ==
  ASSUME NEW n \in Nat, NEW T \in SUBSET (0..n), T # {}
  PROVE  \E m \in T : \A k \in T : k <= m
<1> DEFINE D == {n - k : k \in T}
<1>1. D \subseteq Nat /\ D # {}
  <2>1. PICK x \in T : n - x \in D
    OBVIOUS
  <2>2. \A k \in T : n - k \in Nat
    OBVIOUS
  <2>3. QED  BY <2>1, <2>2
<1> HIDE DEF D
<1>2. PICK d \in D : \A e \in D : <<e, d>> \notin OpToRel(<, Nat)
  BY <1>1, NatLessThanWellFounded, WFMin
<1>3. \A e \in D : ~(e < d)
  BY <1>1, <1>2 DEF OpToRel
<1>4. PICK m \in T : d = n - m
  BY <1>2 DEF D
<1>5. ASSUME NEW k \in T  PROVE k <= m
  <2>1. n - k \in D
    BY DEF D
  <2>2. QED  BY <1>3, <1>4, <2>1
<1>6. QED  BY <1>5

\* A part that may be taken can be taken by a call that waits for it.
LEMMA MayTakeOwn ==
  ASSUME NEW t \in Thread, frames[t] # <<>>, queue \in Seq([of : Elem, data : SUBSET Elem]),
         NEW i \in DOMAIN queue, queue[i].of = Top(t).pivot
  PROVE  MayTake(t) # {}
<1> DEFINE S == [of : Elem, data : SUBSET Elem]
<1>1. queue \in Seq(S)
  OBVIOUS
<1> HIDE DEF S
<1>2. Len(queue) \in DOMAIN queue
  BY <1>1
<1>3. CASE kind = "chunk"
  BY <1>2, <1>3 DEF MayTake, StackTop
<1>4. CASE kind = "pool"
  BY <1>4 DEF MayTake
<1>5. CASE kind # "chunk" /\ kind # "pool"
  BY <1>5 DEF MayTake
<1>6. QED  BY <1>3, <1>4, <1>5

\* Of the calls on top of a group of stacks the one that began last waits for nobody in
\* the group.
LEMMA NobodyStuck == IInv /\ WI => NoDeadlock
<1> SUFFICES ASSUME IInv, WI, NEW S \in SUBSET Thread, S # {},
                    \A t \in S : Blocked(t) /\ WaitsFor(t) \subseteq S
             PROVE  FALSE
  BY DEF NoDeadlock
<1>1. /\ TypeOK /\ ThreadInv /\ Types(frames, queue, fut) /\ frames \in Stacks
      /\ NothingLost(frames, queue, fut)
  BY DEF IInv, StackInv, Types, Stacks, WI, WaitInv
<1>2. ASSUME NEW t \in S  PROVE ~At(t, "spawn")
  <2> SUFFICES ASSUME At(t, "spawn")  PROVE FALSE
    OBVIOUS
  <2>1. mtx \in S /\ mtx # Null
    BY DEF WaitsFor, Blocked, At
  <2>2. At(mtx, "append")
    BY <1>1, <2>1 DEF ThreadInv
  <2>3. ~Blocked(mtx)
    BY <2>2 DEF Blocked, At
  <2>4. QED  BY <2>1, <2>3
<1>3. ASSUME NEW t \in S
      PROVE  /\ t \in Thread /\ frames[t] # <<>> /\ Top(t).pc \in {"wait", "help"}
             /\ fut[Top(t).pivot] = Pending /\ MayTake(t) = {}
             /\ TopPos(frames, t) \in Live(frames) /\ Top(t) = Fm(frames, TopPos(frames, t))
  <2>1. /\ frames[t] # <<>> /\ Top(t).pc \in {"wait", "help"}
        /\ fut[Top(t).pivot] = Pending /\ MayTake(t) = {}
    BY <1>2 DEF Blocked, At
  <2>2. QED  BY <1>1, <2>1, TopIs
<1>4. PICK n \in Nat : \E f : Numbers(frames, f, n)
  BY DEF WI, WaitInv, InOrder
<1>5. PICK f : /\ f \in [Live(frames) -> 0..n]
               /\ \A p, r \in Live(frames) : Needs(frames, p, r) => f[p] < f[r]
  BY <1>4 DEF Numbers
<1> DEFINE T == {f[TopPos(frames, t)] : t \in S}
<1>6. T \in SUBSET (0..n) /\ T # {}
  BY <1>3, <1>5
<1>7. PICK t \in S : \A u \in S : f[TopPos(frames, u)] <= f[TopPos(frames, t)]
  <2> HIDE DEF T
  <2>1. PICK m \in T : \A k \in T : k <= m
    BY <1>6, Largest
  <2>2. QED  BY <2>1 DEF T
<1>8. Cared(frames, queue, Top(t).pivot)
  BY <1>1, <1>3 DEF NothingLost
<1>9. \A i \in DOMAIN queue : queue[i].of # Top(t).pivot
  BY <1>1, <1>3, MayTakeOwn DEF TypeOK
<1>10. PICK r \in Live(frames) : Fm(frames, r).job = Top(t).pivot
  BY <1>8, <1>9 DEF Cared
<1>11. /\ r[1] \in Thread /\ r[2] \in 1..Len(frames[r[1]]) /\ Len(frames[r[1]]) \in Nat
       /\ r = <<r[1], r[2]>> /\ Fm(frames, r) = frames[r[1]][r[2]]
       /\ DOMAIN frames[r[1]] = 1..Len(frames[r[1]])
  BY <1>1, LivePos DEF Fm, Stacks
<1>12. r[1] \in S
  <2>1. WaitsFor(t) = {u \in Thread : \E k \in DOMAIN frames[u] : frames[u][k].job = Top(t).pivot}
    BY <1>2 DEF WaitsFor
  <2>2. r[1] \in WaitsFor(t)
    BY <1>10, <1>11, <2>1
  <2>3. QED  BY <2>2
<1>13. f[TopPos(frames, t)] < f[r]
  BY <1>3, <1>5, <1>10 DEF Needs
<1>14. f[r] <= f[TopPos(frames, r[1])]
  <2>1. TopPos(frames, r[1]) \in Live(frames)
    BY <1>3, <1>12
  <2>2. CASE r[2] = Len(frames[r[1]])
    <3>1. r = TopPos(frames, r[1])
      BY <1>11, <2>2 DEF TopPos
    <3>2. f[r] \in 0..n
      BY <1>5
    <3>3. QED  BY <3>1, <3>2
  <2>3. CASE r[2] # Len(frames[r[1]])
    <3>1. Over(r, TopPos(frames, r[1]))
      BY <1>11, <2>3 DEF Over, TopPos
    <3>2. f[r] < f[TopPos(frames, r[1])]
      BY <1>5, <2>1, <3>1 DEF Needs
    <3>3. f[r] \in 0..n /\ f[TopPos(frames, r[1])] \in 0..n
      BY <1>5, <2>1
    <3>4. QED  BY <3>2, <3>3
  <2>4. QED  BY <2>2, <2>3
<1>15. /\ f[TopPos(frames, r[1])] \in 0..n /\ f[r] \in 0..n /\ f[TopPos(frames, t)] \in 0..n
       /\ f[TopPos(frames, r[1])] <= f[TopPos(frames, t)]
  BY <1>3, <1>5, <1>7, <1>12
<1>16. QED  BY <1>13, <1>14, <1>15

-----------------------------------------------------------------------------
(* The theorems *)

LEMMA Initially == Init => IInv
<1> SUFFICES ASSUME Init  PROVE IInv
  OBVIOUS
<1>1. Types(frames, queue, fut) /\ Live(frames) = {} /\ queue = <<>>
  BY EmptySeq DEF Init, Types, Live
<1>2. SI
  BY <1>1, NoCalls DEF SI
<1>3. RestOK
  BY EmptySeq DEF Init, RestOK
<1>4. Starting(frames) = {}
  BY DEF Init, Starting
<1>5. Cardinality(Starting(frames)) = 0 /\ Cardinality(Worker) \in Nat
  BY <1>4, FiniteAssumption, FS_EmptySet, FS_CardinalityType
<1>6. ThreadInv
  BY <1>5 DEF Init, ThreadInv, WaitsBelow, At
<1>7. MainInv
  BY <1>1 DEF Init, MainInv, Fresh, Ended
<1>8. QED  BY <1>2, <1>3, <1>6, <1>7, TypesHold DEF IInv, SI

\* The invariant that makes the sort right, whichever version it is, holds always: the
\* calls work on disjoint or nested parts of the list, each part belongs to one call, and
\* what is ready is sorted.
THEOREM Inductive == Spec => []IInv
<1>1. Init => IInv
  BY Initially
<1>2. IInv /\ [Next]_vars => IInv'
  BY StackStep, ThreadStep, MainStepInv, TypeStep DEF IInv, SI
<1>3. QED  BY <1>1, <1>2, PTL DEF Spec

\* Every variable keeps its type; in particular get() is only called on a future that is
\* ready, whoever keeps its promise.
THEOREM TypeCorrect == Spec => []TypeOK
<1>1. IInv => TypeOK
  BY DEF IInv
<1>2. QED  BY <1>1, Inductive, PTL

\* The list that quicksort_using_...() returns is a sorted permutation of its input,
\* whichever threads sorted which parts of it.
THEOREM AlwaysSorted == Spec => []Sorted
<1>1. IInv => Sorted
  <2> SUFFICES ASSUME IInv, Ended
               PROVE  /\ Len(output) = Cardinality(input)
                      /\ {output[k] : k \in DOMAIN output} = input
                      /\ \A k \in 1..Len(output) - 1 : Key[output[k]] <= Key[output[k + 1]]
    BY DEF Sorted
  <2>1. IsSort(output, input) /\ input \in SUBSET Elem
    BY DEF IInv, MainInv, TypeOK
  <2>2. Len(output) \in Nat
    BY <2>1 DEF IsSort
  <2>3. \A k \in 1..Len(output) - 1 : k \in 1..Len(output) /\ k + 1 \in 1..Len(output) /\ k < k + 1
    BY <2>2
  <2>4. QED  BY <2>1, <2>3, SortedLength DEF IsSort
<1>2. QED  BY <1>1, Inductive, PTL

\* When the sorter is destroyed no call is under way, no chunk is left and nobody starts a
\* thread.
THEOREM NeverStragglers == Spec => []NoStragglers
<1>1. IInv => NoStragglers
  <2> SUFFICES ASSUME IInv, Ended
               PROVE  queue = <<>> /\ mtx = Null /\ \A t \in Thread : frames[t] = <<>>
    BY DEF NoStragglers
  <2>1. frames \in Stacks /\ Live(frames) = {} /\ queue = <<>> /\ mtx \in Thread \cup {Null}
    BY DEF IInv, MainInv, StackInv, Types, Stacks, TypeOK
  <2>2. \A t \in Thread : frames[t] = <<>>
    BY <2>1, TopLive
  <2>3. mtx = Null
    BY <2>1, <2>2 DEF IInv, ThreadInv, At
  <2>4. QED  BY <2>1, <2>2, <2>3
<1>2. QED  BY <1>1, Inductive, PTL

\* However the threads have nested each other's parts on their stacks, whatever the number
\* of workers, no group of them waits for each other only: the sort on a pool or with the
\* threads it starts cannot deadlock.
THEOREM NeverDeadlocked == Spec => []NoDeadlock
<1>1. Init => IInv /\ WI
  <2>1. Init => Live(frames) = {}
    BY DEF Init, Live
  <2>2. QED  BY <2>1, Initially, NobodyWaits DEF WI
<1>2. (IInv /\ WI) /\ [Next]_vars => (IInv /\ WI)'
  BY StackStep, ThreadStep, MainStepInv, TypeStep, WaitStep DEF IInv, SI
<1>3. QED  BY <1>1, <1>2, NobodyStuck, PTL DEF Spec

=============================================================================
