--------------------------- MODULE RowLocksProofs ---------------------------
(***************************************************************************)
(* What overlapping calls that lock several rows keep, for any number of   *)
(* calls, products and racks.  The properties of RowLocks speak of commits *)
(* and of circles; what makes them true is what a call in the middle of    *)
(* its locks knows.  Good says that of one call, from its request r, its   *)
(* locals l and the rows H it holds alone, so that a step of another call  *)
(* cannot disturb it; SeenIsFresh and NotNegative tie it to the tables.    *)
(***************************************************************************)
EXTENDS RowLocks, SumLemmas, SequenceTheorems

StateRows   == {State(p) : p \in Products}
RowsIn(t)   == {t[i][1] : i \in DOMAIN t}
TodoRows(l) == RowsIn(l.todo)
Held(c)     == {k \in Rows : c \in holder[k]}

Distinct(s) == \A i, j \in DOMAIN s : i # j => s[i] # s[j]
DistinctRows(t) == \A i, j \in DOMAIN t : i # j => t[i][1] # t[j][1]

OrderedIn(r) == {p \in Products : r.units[p] > 0}
RacksOf(p)   == {p} \X Racks

\* A call that has not begun, or has ended, holds nothing and waits for nothing.
Quiet(l, H) ==
    /\ l.phase = "ready" => l = Fresh
    /\ l.phase \in Ended \cup {"ready"} => l.todo = <<>> /\ H = {}
    /\ l.phase = "pick" => l.todo = <<>>
    /\ DistinctRows(l.todo)

PhaseOfKind(r, l) ==
    /\ l.phase \in {"states", "pick", "picking"} => r.kind = "order"
    /\ l.phase = "counting" => r.kind = "count"
    /\ l.phase = "legs" => r.kind \in {"move", "place", "cancel", "count", "discard"}

\* It changes only rows it holds, and takes no rack below zero.
Covered(l, H) == l.phase \notin Ended =>
    /\ \A k \in Rows : l.change[k] # 0 => k \in H
    /\ \A k \in H \cap RackRows : l.seen[k] + l.change[k] >= 0

\* An order has all it wanted of a product, or all that the racks it found held.
Settled(r, l, p) ==
    LET picked == -SumFunctionOnSet(l.change, RacksOf(p))
    IN  \/ picked = r.units[p]
        \/ /\ picked < r.units[p]
           /\ \A k \in l.found : k[1] = p => l.seen[k] + l.change[k] = 0

Ordering(r, l) == l.phase \in {"states", "pick", "picking"} =>
    /\ Distinct(l.asked) /\ ToSet(l.asked) \subseteq OrderedIn(r)
    /\ \A i \in DOMAIN l.todo : l.todo[i][2] = 0
    /\ \A k \in RackRows : /\ l.change[k] <= 0
                           /\ l.change[k] # 0 => k[1] \in OrderedIn(r) \ ToSet(l.asked)

LockingStates(r, l, H) == l.phase = "states" =>
    /\ \A k \in Rows : l.change[k] = 0
    /\ TodoRows(l) \cup H = {State(p) : p \in OrderedIn(r)}
    /\ ToSet(l.asked) = OrderedIn(r)
    /\ l.found = {}

PickingRacks(r, l, H) == l.phase \in {"pick", "picking"} =>
    /\ \A p \in Products : l.change[State(p)] = -r.units[p]
    /\ \A p \in OrderedIn(r) : State(p) \in H
    /\ \A k \in TodoRows(l) \cup H : k[1] \in OrderedIn(r)
    /\ TodoRows(l) \subseteq RackRows
    /\ l.found \subseteq TodoRows(l) \cup H
    /\ \A p \in OrderedIn(r) \ ToSet(l.asked) : Settled(r, l, p)
    /\ l.phase = "pick" => \A k \in l.found : k[1] \notin ToSet(l.asked)

PickingProduct(l) == l.phase = "picking" =>
    /\ l.asked # <<>>
    /\ Distinct(l.queue)
    /\ ToSet(l.queue) = {k \in l.found : k[1] = Head(l.asked)}
    /\ \A k \in l.found : k[1] \notin ToSet(Tail(l.asked))
    /\ \A k \in TodoRows(l) : k[1] = Head(l.asked)

\* What a call means to change in all, once it knows.
Lines(r, l) ==
    IF r.kind = "count"
    THEN [k \in DOMAIN r.counted |-> r.counted[k] - (IF k \in l.found THEN l.seen[k] ELSE 0)]
    ELSE IF r.kind = "discard" THEN [k \in {} |-> 0] ELSE r.change

Wanted(r, l, k) ==
    LET lines == Lines(r, l)
    IN  IF k \in DOMAIN lines THEN lines[k]
        ELSE IF r.kind # "move" /\ k \in DOMAIN PerProduct(lines) THEN PerProduct(lines)[k]
        ELSE 0

Counting(l, H) == l.phase = "counting" =>
    /\ \A k \in Rows : l.change[k] = 0
    /\ \A i \in DOMAIN l.todo : l.todo[i][2] = 0
    /\ l.found \subseteq TodoRows(l) \cup H

Legs(r, l, H) == l.phase = "legs" =>
    /\ \A i \in DOMAIN l.todo : /\ l.change[l.todo[i][1]] = 0
                                /\ l.todo[i][2] = Wanted(r, l, l.todo[i][1])
    /\ \A k \in Rows \ TodoRows(l) : l.change[k] = Wanted(r, l, k)
    /\ r.kind = "count" => l.found \subseteq H
    /\ r.kind \in {"move", "place"} => \A k \in DOMAIN r.change : k[2] \in l.checked

\* A move locks its racks in order.
RacksInOrder(r, l, H) == r.kind = "move" =>
    /\ \A i \in DOMAIN l.todo : \A k \in H : ByRack(k, l.todo[i][1])
    /\ \A i, j \in DOMAIN l.todo : i < j => ByRack(l.todo[i][1], l.todo[j][1])

\* Orders, accepts and cancels lock no rack before the states, and none whose
\* product's state they leave alone; the cancel of a session locks nothing.
StatesFirst(r, l, H) == r.kind \in {"order", "place", "cancel", "discard"} =>
    /\ \A i, j \in DOMAIN l.todo :
          i < j /\ l.todo[j][1] \in StateRows => l.todo[i][1] \in StateRows
    /\ (\E i \in DOMAIN l.todo : l.todo[i][1] \in StateRows) => H \cap RackRows = {}
    /\ \A k \in RackRows : k \in TodoRows(l) \cup H => State(k[1]) \in TodoRows(l) \cup H

Good(r, l, H) ==
    /\ Quiet(l, H) /\ PhaseOfKind(r, l) /\ Covered(l, H)
    /\ Ordering(r, l) /\ LockingStates(r, l, H) /\ PickingRacks(r, l, H)
    /\ PickingProduct(l)
    /\ Counting(l, H) /\ Legs(r, l, H)
    /\ RacksInOrder(r, l, H) /\ StatesFirst(r, l, H)

\* What a call read of a row it holds is what the row still has.
SeenIsFresh == \A c \in Calls : \A k \in Held(c) : call[c].seen[k] = count[k]

IInv == /\ TypeOK /\ BalancesKept /\ SeenIsFresh
        /\ \A c \in Calls : Good(request[c], call[c], Held(c))

-----------------------------------------------------------------------------
(* Rows, sequences and sums                                                 *)

LEMMA RowFacts ==
  /\ IsFiniteSet(Rows) /\ IsFiniteSet(RackRows) /\ IsFiniteSet(Products)
  /\ StateRows \subseteq Rows /\ RackRows \subseteq Rows
  /\ StateRows \cap RackRows = {} /\ StateRows \cup RackRows = Rows
  /\ \A k \in Rows : k[1] \in Products /\ k = <<k[1], k[2]>> /\ k[1] \in Int /\ k[2] \in Int
  /\ \A k \in RackRows : k[2] \in Racks /\ k[2] # 0
  /\ \A k \in Rows : k[2] = 0 => k = State(k[1]) /\ k \in StateRows
  /\ \A p \in Products : /\ State(p) \in StateRows /\ State(p)[1] = p /\ State(p)[2] = 0
                         /\ RacksOf(p) \subseteq RackRows /\ IsFiniteSet(RacksOf(p))
<1>1. IsFiniteSet(Products) /\ IsFiniteSet(Racks)
  BY RowLocksAssumption
<1>2. IsFiniteSet(RackRows)
  BY <1>1, FS_Product DEF RackRows
<1>3. IsFiniteSet(StateRows)
  <2>1. StateRows = Products \X {0}
    BY DEF StateRows, State
  <2> QED BY <1>1, <2>1, FS_Product, FS_Singleton
<1>4. Rows = RackRows \cup StateRows
  BY DEF Rows, StateRows
<1>5. IsFiniteSet(Rows)
  BY <1>2, <1>3, <1>4, FS_Union
<1>6. \A k \in RackRows : k[2] \in Racks /\ k[1] \in Products /\ k = <<k[1], k[2]>>
  BY DEF RackRows
<1>7. \A k \in StateRows : k[2] = 0 /\ k[1] \in Products /\ k = <<k[1], 0>>
  BY DEF StateRows, State
<1>8. \A p \in Products : p \in Int
  BY RowLocksAssumption
<1>9. \A r \in Racks : r \in Int /\ r # 0
  BY RowLocksAssumption
<1>10. ASSUME NEW p \in Products
       PROVE  /\ State(p) \in StateRows /\ State(p)[1] = p /\ State(p)[2] = 0
              /\ RacksOf(p) \subseteq RackRows /\ IsFiniteSet(RacksOf(p))
  <2>1. RacksOf(p) \subseteq RackRows
    BY DEF RacksOf, RackRows
  <2>2. IsFiniteSet(RacksOf(p))
    BY <1>2, <2>1, FS_Subset
  <2> QED BY <2>1, <2>2 DEF StateRows, State
<1>11. \A k \in Rows : k[1] \in Products /\ k = <<k[1], k[2]>> /\ k[1] \in Int /\ k[2] \in Int
  BY <1>4, <1>6, <1>7, <1>8, <1>9
<1>12. \A k \in Rows : k[2] = 0 => k = State(k[1]) /\ k \in StateRows
  BY <1>4, <1>6, <1>7, <1>9 DEF State
<1>13. StateRows \cap RackRows = {}
  BY <1>6, <1>7, <1>9
<1> QED BY <1>1, <1>2, <1>4, <1>5, <1>6, <1>9, <1>10, <1>11, <1>12, <1>13

LEMMA InSeqs ==
  ASSUME NEW S, IsFiniteSet(S), NEW s \in SetToSeqs(S)
  PROVE  /\ s \in Seq(S) /\ Distinct(s) /\ ToSet(s) = S
         /\ Len(s) \in Nat /\ DOMAIN s = 1 .. Len(s)
<1> DEFINE n == Cardinality(S)
<1>1. /\ s \in [1 .. n -> S] /\ n \in Nat
      /\ \A i, j \in 1 .. n : i # j => s[i] # s[j]
  BY FS_CardinalityType DEF SetToSeqs
<1>2. s \in Seq(S)
  BY <1>1, SeqDef
<1>3. Cardinality(1 .. n) = n
  BY <1>1, FS_Interval
<1>4. s \in Injection(1 .. n, S)
  BY <1>1 DEF Injection, IsInjective
<1>5. s \in Surjection(1 .. n, S)
  BY <1>3, <1>4, FS_Injection
<1>6. ToSet(s) = S
  BY <1>1, <1>5 DEF Surjection, ToSet
<1> QED BY <1>1, <1>2, <1>6, LenProperties DEF Distinct

LEMMA HeadAndTail ==
  ASSUME NEW S, NEW s \in Seq(S), s # <<>>
  PROVE  /\ Head(s) = s[1] /\ s[1] \in S /\ 1 \in DOMAIN s /\ Tail(s) \in Seq(S)
         /\ \A i \in DOMAIN Tail(s) : i + 1 \in DOMAIN s /\ Tail(s)[i] = s[i + 1]
         /\ \A i \in DOMAIN s : i = 1 \/ (i - 1 \in DOMAIN Tail(s) /\ s[i] = Tail(s)[i - 1])
         /\ \A i \in DOMAIN Tail(s) : i \in Nat /\ i >= 1
<1>1. /\ Tail(s) \in Seq(S) /\ Len(Tail(s)) = Len(s) - 1 /\ Head(s) \in S
      /\ \A i \in 1 .. Len(Tail(s)) : Tail(s)[i] = s[i + 1]
  BY HeadTailProperties
<1>2. DOMAIN s = 1 .. Len(s) /\ Len(s) \in Nat /\ DOMAIN Tail(s) = 1 .. Len(Tail(s))
  BY <1>1, LenProperties
<1>3. Len(s) # 0
  BY EmptySeq
<1>4. Head(s) = s[1]
  OBVIOUS
<1> QED BY <1>1, <1>2, <1>3, <1>4

LEMMA DistinctTail ==
  ASSUME NEW S, NEW s \in Seq(S), s # <<>>, Distinct(s)
  PROVE  /\ ToSet(s) = {Head(s)} \cup ToSet(Tail(s))
         /\ Head(s) \notin ToSet(Tail(s)) /\ Distinct(Tail(s))
<1>1. ToSet(s) = {Head(s)} \cup ToSet(Tail(s))
  <2>1. \A i \in DOMAIN s : s[i] = Head(s) \/ \E j \in DOMAIN Tail(s) : s[i] = Tail(s)[j]
    BY HeadAndTail
  <2>2. \A j \in DOMAIN Tail(s) : \E i \in DOMAIN s : s[i] = Tail(s)[j]
    BY HeadAndTail
  <2>3. \E i \in DOMAIN s : s[i] = Head(s)
    BY HeadAndTail
  <2> QED BY <2>1, <2>2, <2>3 DEF ToSet
<1>2. \A i \in DOMAIN Tail(s) : i + 1 # 1
  BY HeadAndTail
<1>3. Head(s) \notin ToSet(Tail(s))
  BY <1>2, HeadAndTail DEF ToSet, Distinct
<1>4. \A i, j \in DOMAIN Tail(s) : i # j => i + 1 # j + 1
  BY HeadAndTail
<1>5. Distinct(Tail(s))
  BY <1>4, HeadAndTail DEF Distinct
<1> QED BY <1>1, <1>3, <1>5

LEMMA DistinctRowsTail ==
  ASSUME NEW S, NEW s \in Seq(S), s # <<>>, DistinctRows(s)
  PROVE  /\ RowsIn(s) = {s[1][1]} \cup RowsIn(Tail(s))
         /\ s[1][1] \notin RowsIn(Tail(s)) /\ DistinctRows(Tail(s))
<1>1. RowsIn(s) = {s[1][1]} \cup RowsIn(Tail(s))
  <2>1. \A i \in DOMAIN s : s[i] = s[1] \/ \E j \in DOMAIN Tail(s) : s[i] = Tail(s)[j]
    BY HeadAndTail
  <2>2. \A j \in DOMAIN Tail(s) : \E i \in DOMAIN s : s[i] = Tail(s)[j]
    BY HeadAndTail
  <2>3. \E i \in DOMAIN s : s[i] = s[1]
    BY HeadAndTail
  <2> QED BY <2>1, <2>2, <2>3 DEF RowsIn
<1>2. \A i \in DOMAIN Tail(s) : i + 1 # 1
  BY HeadAndTail
<1>3. s[1][1] \notin RowsIn(Tail(s))
  BY <1>2, HeadAndTail DEF RowsIn, DistinctRows
<1>4. \A i, j \in DOMAIN Tail(s) : i # j => i + 1 # j + 1
  BY HeadAndTail
<1>5. DistinctRows(Tail(s))
  BY <1>4, HeadAndTail DEF DistinctRows
<1> QED BY <1>1, <1>3, <1>5

\* The rows to be locked, in an order of their set.
LEMMA PlainSeq ==
  ASSUME NEW S \in SUBSET Rows, NEW s \in SetToSeqs(S)
  PROVE  /\ Plain(s) \in Seq(Rows \X Int) /\ RowsIn(Plain(s)) = S /\ DistinctRows(Plain(s))
         /\ \A i \in DOMAIN Plain(s) : Plain(s)[i][2] = 0
<1>1. /\ s \in Seq(S) /\ Distinct(s) /\ ToSet(s) = S
      /\ Len(s) \in Nat /\ DOMAIN s = 1 .. Len(s)
  BY InSeqs, RowFacts, FS_Subset
<1>2. /\ DOMAIN Plain(s) = 1 .. Len(s)
      /\ \A i \in DOMAIN s : Plain(s)[i] = <<s[i], 0>> /\ s[i] \in S
  BY <1>1 DEF Plain
<1>3. Plain(s) \in [1 .. Len(s) -> Rows \X Int]
  BY <1>1, <1>2 DEF Plain
<1>4. Plain(s) \in Seq(Rows \X Int)
  BY <1>1, <1>3, SeqDef
<1> QED BY <1>1, <1>2, <1>4 DEF RowsIn, DistinctRows, Distinct, ToSet

LEMMA WithSeq ==
  ASSUME NEW S \in SUBSET Rows, NEW s \in SetToSeqs(S), NEW d, \A k \in S : d[k] \in Int
  PROVE  /\ With(s, d) \in Seq(Rows \X Int) /\ RowsIn(With(s, d)) = S
         /\ DistinctRows(With(s, d))
         /\ Len(With(s, d)) = Len(s) /\ Len(s) \in Nat /\ DOMAIN s = 1 .. Len(s)
         /\ \A i \in 1 .. Len(s) :
               /\ With(s, d)[i] = <<s[i], d[s[i]]>> /\ s[i] \in S
               /\ With(s, d)[i][1] \in S /\ With(s, d)[i][2] = d[With(s, d)[i][1]]
<1>1. /\ s \in Seq(S) /\ Distinct(s) /\ ToSet(s) = S
      /\ Len(s) \in Nat /\ DOMAIN s = 1 .. Len(s)
  BY InSeqs, RowFacts, FS_Subset
<1>2. /\ DOMAIN With(s, d) = 1 .. Len(s)
      /\ \A i \in DOMAIN s : With(s, d)[i] = <<s[i], d[s[i]]>> /\ s[i] \in S
  BY <1>1 DEF With
<1>3. With(s, d) \in [1 .. Len(s) -> Rows \X Int]
  BY <1>1, <1>2 DEF With
<1>4. With(s, d) \in Seq(Rows \X Int)
  BY <1>1, <1>3, SeqDef
<1>5. Len(With(s, d)) = Len(s)
  BY <1>1, <1>2, <1>4, LenProperties
<1>6. \A i \in 1 .. Len(s) : /\ With(s, d)[i] = <<s[i], d[s[i]]>> /\ s[i] \in S
                              /\ With(s, d)[i][1] = s[i] /\ With(s, d)[i][2] = d[s[i]]
  BY <1>1, <1>2
<1>7. RowsIn(With(s, d)) = S
  BY <1>1, <1>2, <1>6 DEF RowsIn, ToSet
<1>8. DistinctRows(With(s, d))
  BY <1>1, <1>2, <1>6 DEF DistinctRows, Distinct
<1> QED BY <1>1, <1>4, <1>5, <1>6, <1>7, <1>8

\* States first, then racks.
LEMMA StatesThenRacks ==
  ASSUME NEW A \in SUBSET StateRows, NEW B \in SUBSET RackRows,
         NEW f, \A k \in A : f[k] \in Int, NEW g, \A k \in B : g[k] \in Int,
         NEW a \in SetToSeqs(A), NEW b \in SetToSeqs(B)
  PROVE  LET t == With(a, f) \o With(b, g)
         IN  /\ t \in Seq(Rows \X Int) /\ RowsIn(t) = A \cup B /\ DistinctRows(t)
             /\ \A i \in DOMAIN t : \/ t[i][1] \in A /\ t[i][2] = f[t[i][1]]
                                    \/ t[i][1] \in B /\ t[i][2] = g[t[i][1]]
             /\ \A i, j \in DOMAIN t : i < j /\ t[j][1] \in A => t[i][1] \in A
<1> DEFINE t == With(a, f) \o With(b, g)
<1> DEFINE u == With(a, f)
           v == With(b, g)
           m == Len(a)
           n == Len(b)
<1>1. /\ u \in Seq(Rows \X Int) /\ RowsIn(u) = A /\ DistinctRows(u)
      /\ Len(u) = m /\ m \in Nat
      /\ \A i \in 1 .. m : u[i][1] \in A /\ u[i][2] = f[u[i][1]]
  <2>1. A \in SUBSET Rows
    BY RowFacts
  <2> QED BY <2>1, WithSeq
<1>2. /\ v \in Seq(Rows \X Int) /\ RowsIn(v) = B /\ DistinctRows(v)
      /\ Len(v) = n /\ n \in Nat
      /\ \A i \in 1 .. n : v[i][1] \in B /\ v[i][2] = g[v[i][1]]
  <2>1. B \in SUBSET Rows
    BY RowFacts
  <2>2. /\ With(b, g) \in Seq(Rows \X Int) /\ RowsIn(With(b, g)) = B
        /\ DistinctRows(With(b, g)) /\ Len(With(b, g)) = Len(b) /\ Len(b) \in Nat
        /\ \A i \in 1 .. Len(b) : With(b, g)[i][1] \in B /\ With(b, g)[i][2] = g[With(b, g)[i][1]]
    BY <2>1, WithSeq
  <2> QED BY <2>2
<1>3. DOMAIN u = 1 .. m /\ DOMAIN v = 1 .. n
  BY <1>1, <1>2, LenProperties
<1> HIDE DEF u, v, m, n
<1>4. /\ t \in Seq(Rows \X Int) /\ Len(t) = m + n /\ DOMAIN t = 1 .. m + n
      /\ \A i \in 1 .. m + n : t[i] = IF i <= m THEN u[i] ELSE v[i - m]
  <2>1. t = u \o v
    BY DEF u, v
  <2>2. u \in Seq(Rows \X Int) /\ v \in Seq(Rows \X Int) /\ Len(u) = m /\ Len(v) = n
    BY <1>1, <1>2
  <2>3. /\ u \o v \in Seq(Rows \X Int) /\ Len(u \o v) = Len(u) + Len(v)
        /\ \A i \in 1 .. Len(u) + Len(v) :
              (u \o v)[i] = IF i <= Len(u) THEN u[i] ELSE v[i - Len(u)]
    BY <2>2, ConcatProperties
  <2>4. /\ t \in Seq(Rows \X Int) /\ Len(t) = m + n
        /\ \A i \in 1 .. m + n : t[i] = IF i <= m THEN u[i] ELSE v[i - m]
    BY <2>1, <2>2, <2>3
  <2>5. DOMAIN t = 1 .. Len(t)
    BY <2>4, LenProperties
  <2> QED BY <2>4, <2>5
<1> HIDE DEF t
<1>5. A \cap B = {}
  BY RowFacts
<1>6. /\ \A i \in 1 .. m : i \in DOMAIN t /\ t[i] = u[i]
      /\ \A i \in 1 .. n : m + i \in DOMAIN t /\ t[m + i] = v[i]
      /\ \A i \in DOMAIN t : i \in 1 .. m \/ (i - m \in 1 .. n /\ t[i] = v[i - m])
  <2>1. m \in Nat /\ n \in Nat
    BY <1>1, <1>2
  <2>2. \A i \in 1 .. m : i \in DOMAIN t /\ t[i] = u[i]
    BY <1>4, <2>1
  <2>3. ASSUME NEW i \in 1 .. n PROVE m + i \in DOMAIN t /\ t[m + i] = v[i]
    <3> DEFINE j == m + i
    <3>1. j \in 1 .. m + n /\ ~(j <= m) /\ j - m = i
      BY <2>1
    <3> HIDE DEF j
    <3>2. t[j] = v[j - m]
      BY <1>4, <3>1
    <3>3. j \in DOMAIN t /\ t[j] = v[i]
      BY <1>4, <3>1, <3>2
    <3> QED BY <3>3 DEF j
  <2>4. ASSUME NEW i \in DOMAIN t, i \notin 1 .. m PROVE i - m \in 1 .. n /\ t[i] = v[i - m]
    <3>1. i \in 1 .. m + n
      BY <1>4
    <3>2. ~(i <= m) /\ i - m \in 1 .. n
      BY <2>1, <2>4, <3>1
    <3> QED BY <1>4, <3>1, <3>2
  <2> QED BY <2>2, <2>3, <2>4
<1>7. \A i \in DOMAIN t : \/ i \in 1 .. m /\ t[i][1] \in A /\ t[i][2] = f[t[i][1]]
                          \/ i \notin 1 .. m /\ t[i][1] \in B /\ t[i][2] = g[t[i][1]]
  <2>1. \A i \in 1 .. m : t[i][1] \in A /\ t[i][2] = f[t[i][1]]
    BY <1>1, <1>6
  <2>2. \A i \in DOMAIN t : i \notin 1 .. m => t[i][1] \in B /\ t[i][2] = g[t[i][1]]
    BY <1>2, <1>6
  <2> QED BY <2>1, <2>2
<1>8. RowsIn(t) = A \cup B
  <2>1. RowsIn(t) \subseteq A \cup B
    BY <1>7 DEF RowsIn
  <2>2. RowsIn(u) \subseteq RowsIn(t)
    BY <1>3, <1>6 DEF RowsIn
  <2>3. RowsIn(v) \subseteq RowsIn(t)
    BY <1>3, <1>6 DEF RowsIn
  <2> QED BY <1>1, <1>2, <2>1, <2>2, <2>3
<1>9. ASSUME NEW i \in DOMAIN t, NEW j \in DOMAIN t, i # j PROVE t[i][1] # t[j][1]
  <2>1. CASE i \in 1 .. m /\ j \in 1 .. m
    BY <1>1, <1>3, <1>6, <1>9, <2>1 DEF DistinctRows
  <2>2. CASE i \notin 1 .. m /\ j \notin 1 .. m
    <3>1. i - m \in 1 .. n /\ j - m \in 1 .. n /\ i - m # j - m
      BY <1>1, <1>2, <1>4, <1>6, <1>9, <2>2
    <3>2. t[i] = v[i - m] /\ t[j] = v[j - m]
      BY <1>6, <2>2
    <3> QED BY <1>2, <1>3, <3>1, <3>2 DEF DistinctRows
  <2> QED BY <1>5, <1>7, <2>1, <2>2
<1>10. ASSUME NEW i \in DOMAIN t, NEW j \in DOMAIN t, i < j, t[j][1] \in A
       PROVE  t[i][1] \in A
  <2>1. j \in 1 .. m
    BY <1>5, <1>7, <1>10
  <2>2. i \in 1 .. m
    BY <1>1, <1>2, <1>4, <1>10, <2>1
  <2> QED BY <1>7, <2>2
<1>11. DistinctRows(t)
  BY <1>9 DEF DistinctRows
<1>12. \A i \in DOMAIN t : \/ t[i][1] \in A /\ t[i][2] = f[t[i][1]]
                           \/ t[i][1] \in B /\ t[i][2] = g[t[i][1]]
  BY <1>7
<1> QED BY <1>4, <1>8, <1>10, <1>11, <1>12 DEF t

-----------------------------------------------------------------------------
(* The kinds of steps                                                       *)

LEMMA InitIInv == Init => IInv
<1> SUFFICES ASSUME Init PROVE IInv
  OBVIOUS
<1>1. Fresh \in Locals /\ Fresh.todo = <<>>
  <2>1. [k \in Rows |-> 0] \in Counts
    BY DEF Counts
  <2>2. /\ <<>> \in Seq(Rows \X Int) /\ <<>> \in Seq(Products) /\ <<>> \in Seq(RackRows)
    BY EmptySeq
  <2> QED BY <2>1, <2>2 DEF Fresh, Locals, Phases
<1>2. TypeOK
  <2>1. call \in [Calls -> Locals]
    BY <1>1 DEF Init
  <2>2. [k \in Rows |-> 0] \in Counts
    BY DEF Counts
  <2> QED BY <2>1, <2>2, RowLocksAssumption DEF Init, TypeOK
<1>3. \A k \in Rows : count[k] = InitCount[k] + logged[k]
  BY RowLocksAssumption DEF Init, Counts
<1>4. BalancesKept
  BY <1>2, <1>3, RowLocksAssumption DEF Init, BalancesKept
<1>5. \A c \in Calls : Held(c) = {}
  BY DEF Init, Held
<1>6. SeenIsFresh
  BY <1>5 DEF SeenIsFresh
<1>7. ASSUME NEW c \in Calls PROVE Good(request[c], call[c], Held(c))
  <2>1. call[c] = Fresh /\ DOMAIN Fresh.todo = {} /\ Fresh.phase = "ready" /\ Held(c) = {}
    <3>1. DOMAIN <<>> = {}
      OBVIOUS
    <3> QED BY <1>1, <1>5, <3>1 DEF Init, Fresh
  <2>2. \A k \in Rows : Fresh.change[k] = 0
    BY DEF Fresh
  <2> QED BY <1>1, <2>1, <2>2
       DEF Good, Quiet, PhaseOfKind, Covered, Ordering, LockingStates, PickingRacks,
           PickingProduct, Counting, Legs, RacksInOrder, StatesFirst, DistinctRows,
           TodoRows, RowsIn, Ended
<1> QED BY <1>2, <1>4, <1>6, <1>7 DEF IInv

\* A call that ends knows nothing any more and holds nothing.
LEMMA GoodEnded ==
  ASSUME NEW r, NEW l, l.phase \in Ended, l.todo = <<>>
  PROVE  Good(r, l, {})
<1>1. DOMAIN l.todo = {}
  OBVIOUS
<1> QED BY <1>1
     DEF Good, Quiet, PhaseOfKind, Covered, Ordering, LockingStates, PickingRacks,
         PickingProduct, Counting, Legs, RacksInOrder, StatesFirst, DistinctRows,
         TodoRows, RowsIn, Ended

\* What a step of c does to the locals and the locks of the others: nothing.
StepOf(c) ==
    /\ request' = request
    /\ call' \in [Calls -> Locals] /\ holder' \in [Rows -> SUBSET Calls]
    /\ \A k \in Rows : \A d, e \in holder'[k] : d = e
    /\ \A d \in Calls \ {c} : call'[d] = call[d]
    /\ \A d \in Calls \ {c} : \A k \in Rows : d \in holder'[k] <=> d \in holder[k]

LEMMA GoodAfter ==
  ASSUME IInv, NEW c \in Calls, StepOf(c), Good(request[c], call'[c], Held(c)')
  PROVE  (\A d \in Calls : Good(request[d], call[d], Held(d)))'
<1>1. \A d \in Calls \ {c} : Held(d)' = Held(d)
  BY DEF StepOf, Held
<1>2. ASSUME NEW d \in Calls PROVE Good(request[d], call[d], Held(d))'
  <2>1. CASE d = c
    <3>1. request'[d] = request[c] /\ call'[d] = call'[c] /\ Held(d)' = Held(c)'
      BY <2>1 DEF StepOf, Held
    <3> QED BY <3>1
  <2>2. CASE d # c
    <3>1. Good(request[d], call[d], Held(d))
      BY DEF IInv
    <3>2. request'[d] = request[d] /\ call'[d] = call[d] /\ Held(d)' = Held(d)
      BY <1>1, <2>2 DEF StepOf
    <3> QED BY <3>1, <3>2
  <2> QED BY <2>1, <2>2
<1> QED BY <1>2

\* A step that only changes the locals of its call.
LEMMA LocalStep ==
  ASSUME IInv, NEW c \in Calls, UNCHANGED <<committed, holder, request>>,
         NEW m \in Locals, call' = [call EXCEPT ![c] = m], m.seen = call[c].seen,
         Good(request[c], m, Held(c))
  PROVE  IInv'
<1>1. call' \in [Calls -> Locals] /\ call'[c] = m /\ \A d \in Calls \ {c} : call'[d] = call[d]
  BY DEF IInv, TypeOK
<1>2. StepOf(c)
  BY <1>1 DEF StepOf, IInv, TypeOK
<1>3. TypeOK'
  BY <1>1 DEF IInv, TypeOK, committed
<1>4. BalancesKept'
  BY <1>3 DEF IInv, BalancesKept, committed
<1>5. \A d \in Calls : Held(d)' = Held(d)
  BY DEF Held
<1>6. SeenIsFresh'
  BY <1>1, <1>5 DEF IInv, SeenIsFresh, committed
<1>7. Good(request[c], call'[c], Held(c)')
  BY <1>1, <1>5
<1> QED BY <1>2, <1>3, <1>4, <1>6, <1>7, GoodAfter DEF IInv

\* What End does.
LEMMA EndEffect ==
  ASSUME IInv, NEW c \in Calls, NEW ph \in Ended, End(c, ph), request' = request
  PROVE  /\ StepOf(c) /\ Held(c)' = {} /\ Good(request[c], call'[c], Held(c)')
         /\ \A d \in Calls \ {c} : Held(d)' = Held(d)
<1>1. ph \in Phases
  BY DEF Ended, Phases
<1>2. /\ call'[c] = [call[c] EXCEPT !.phase = ph, !.todo = <<>>]
      /\ \A d \in Calls \ {c} : call'[d] = call[d]
      /\ DOMAIN call' = Calls
  BY DEF End, IInv, TypeOK
<1>3. call' \in [Calls -> Locals] /\ call'[c].phase = ph /\ call'[c].todo = <<>>
  <2>1. call[c] \in Locals /\ <<>> \in Seq(Rows \X Int)
    BY EmptySeq DEF IInv, TypeOK
  <2>2. call'[c] \in Locals /\ call'[c].phase = ph /\ call'[c].todo = <<>>
    BY <1>1, <1>2, <2>1 DEF Locals
  <2>3. call' = [d \in Calls |-> call'[d]]
    BY DEF End, IInv, TypeOK
  <2> QED BY <1>2, <2>2, <2>3 DEF IInv, TypeOK
<1>4. \A k \in Rows : holder'[k] = holder[k] \ {c}
  BY DEF End
<1>5. holder' \in [Rows -> SUBSET Calls] /\ \A k \in Rows : \A d, e \in holder'[k] : d = e
  BY <1>4 DEF End, IInv, TypeOK
<1>6. StepOf(c)
  BY <1>2, <1>3, <1>4, <1>5 DEF StepOf
<1>7. Held(c)' = {} /\ \A d \in Calls \ {c} : Held(d)' = Held(d)
  BY <1>4 DEF Held
<1> QED BY <1>3, <1>6, <1>7, GoodEnded

\* A call that ends without a write.
LEMMA EndStep ==
  ASSUME IInv, NEW c \in Calls, NEW ph \in Ended, End(c, ph),
         UNCHANGED <<count, rows, logged, session, request>>, live' \subseteq Racks
  PROVE  IInv'
<1>1. /\ StepOf(c) /\ Held(c)' = {} /\ Good(request[c], call'[c], Held(c)')
      /\ \A d \in Calls \ {c} : Held(d)' = Held(d)
  BY EndEffect
<1>2. TypeOK'
  BY <1>1 DEF StepOf, IInv, TypeOK
<1>3. BalancesKept'
  BY <1>2 DEF IInv, BalancesKept
<1>4. SeenIsFresh'
  BY <1>1 DEF StepOf, IInv, SeenIsFresh
<1> QED BY <1>1, <1>2, <1>3, <1>4, GoodAfter DEF IInv

\* The call commits: others hold none of the rows it writes.
LEMMA CommitStep ==
  ASSUME IInv, NEW c \in Calls, Commit(c)
  PROVE  /\ IInv'
         /\ \A k \in Rows : count'[k] = count[k] + call[c].change[k]
         /\ \A k \in Rows : call[c].change[k] # 0 => k \in Held(c)
<1> DEFINE l == call[c]
<1>1. l \in Locals /\ l.phase \notin Ended /\ l.seen \in Counts /\ l.change \in Counts
  <2>1. l \in Locals
    BY DEF IInv, TypeOK
  <2> QED BY <2>1 DEF Locals, Commit, Ended
<1>2. Good(request[c], l, Held(c))
  BY DEF IInv
<1>3. /\ \A k \in Rows : l.change[k] # 0 => k \in Held(c)
      /\ \A k \in Held(c) \cap RackRows : l.seen[k] + l.change[k] >= 0
  BY <1>1, <1>2 DEF Good, Covered
<1>4. \A k \in Held(c) : l.seen[k] = count[k]
  BY DEF IInv, SeenIsFresh
<1>5. \A k \in Rows : count[k] \in Int /\ logged[k] \in Int /\ l.change[k] \in Int /\ l.seen[k] \in Int
  BY <1>1 DEF IInv, TypeOK, Counts
<1>6. /\ DOMAIN count' = Rows /\ DOMAIN logged' = Rows
      /\ \A k \in Rows : count'[k] = IF l.change[k] # 0 THEN l.seen[k] + l.change[k] ELSE count[k]
      /\ \A k \in Rows : logged'[k] = logged[k] + l.change[k]
  <2>1. DOMAIN l.change = Rows
    BY <1>1 DEF Counts
  <2> QED BY <2>1 DEF Commit, NonZero
<1>7. \A k \in Rows : count'[k] = count[k] + l.change[k]
  BY <1>3, <1>4, <1>5, <1>6
<1>8. count' \in Counts /\ logged' \in Counts
  <2>1. count' = [k \in Rows |-> count'[k]] /\ logged' = [k \in Rows |-> logged'[k]]
    BY DEF Commit
  <2>2. \A k \in Rows : count'[k] \in Int /\ logged'[k] \in Int
    BY <1>5, <1>6, <1>7
  <2> HIDE DEF l
  <2> QED BY <2>1, <2>2 DEF Counts
<1>9. /\ StepOf(c) /\ Held(c)' = {} /\ Good(request[c], call'[c], Held(c)')
      /\ \A d \in Calls \ {c} : Held(d)' = Held(d)
  BY EndEffect DEF Commit, Ended
<1>10. TypeOK'
  <2>1. rows' \subseteq RackRows /\ live' = live /\ session' \in {"pending", "completed", "canceled"}
    BY DEF Commit, SessionAfter, IInv, TypeOK
  <2> QED BY <1>8, <1>9, <2>1 DEF StepOf, IInv, TypeOK
<1>11. \A k \in RackRows : count'[k] >= 0
  <2>1. \A k \in RackRows : k \in Rows /\ count[k] >= 0
    BY RowFacts DEF IInv, BalancesKept
  <2> QED BY <1>3, <1>4, <1>5, <1>7, <2>1
<1>12. BalancesKept'
  <2>1. \A k \in Rows : InitCount[k] \in Int /\ count[k] = InitCount[k] + logged[k]
    BY RowLocksAssumption DEF IInv, BalancesKept, Counts
  <2>2. \A k \in Rows : count'[k] = InitCount[k] + logged'[k]
    BY <1>5, <1>6, <1>7, <2>1
  <2> QED BY <1>10, <1>11, <2>2 DEF BalancesKept
<1>13. ASSUME NEW d \in Calls, NEW k \in Held(d)' PROVE call'[d].seen[k] = count'[k]
  <2>1. d # c /\ k \in Held(d) /\ k \in Rows
    BY <1>9, <1>13 DEF Held
  <2>2. k \notin Held(c)
    BY <2>1 DEF Held, IInv, TypeOK
  <2>3. l.change[k] = 0 /\ count'[k] = count[k]
    BY <1>3, <1>5, <1>7, <2>1, <2>2
  <2>4. call'[d] = call[d]
    BY <1>9, <2>1 DEF StepOf
  <2> QED BY <2>1, <2>3, <2>4 DEF IInv, SeenIsFresh
<1>14. SeenIsFresh'
  BY <1>13 DEF SeenIsFresh
<1> QED BY <1>3, <1>7, <1>9, <1>10, <1>12, <1>14, GoodAfter DEF IInv

-----------------------------------------------------------------------------
(* One lock                                                                 *)

\* Locals l and held rows H become m and G: the next row is read as v.
Takes(r, l, H, m, G, v) ==
    LET k == l.todo[1][1]
        a == l.todo[1][2]
    IN  /\ l \in Locals /\ m \in Locals /\ H \subseteq Rows /\ l.todo # <<>>
        /\ k \in Rows /\ a \in Int /\ v \in Int
        /\ G = H \cup {k}
        /\ m.phase = l.phase /\ m.asked = l.asked /\ m.queue = l.queue
        /\ m.found = l.found /\ m.checked = l.checked
        /\ m.todo = Tail(l.todo)
        /\ m.seen = [l.seen EXCEPT ![k] = v]
        /\ m.change = [l.change EXCEPT ![k] = l.change[k] + a]
        /\ k \in H => v = l.seen[k]
        /\ k \in RackRows /\ k \notin H => v >= 0
        /\ r.kind = "move" /\ a < 0 => v + l.change[k] + a >= 0

LEMMA LockTakes ==
  ASSUME IInv, NEW c \in Calls, Lock(c)
  PROVE  /\ Takes(request[c], call[c], Held(c), call'[c], Held(c)', Read(c))
         /\ StepOf(c) /\ Row(c) = call[c].todo[1][1]
         /\ Read(c) = count[Row(c)] /\ call'[c].seen = [call[c].seen EXCEPT ![Row(c)] = Read(c)]
<1> DEFINE l == call[c]
           k == l.todo[1][1]
           a == l.todo[1][2]
           m == [l EXCEPT !.todo = Tail(l.todo), !.seen = [l.seen EXCEPT ![k] = Read(c)],
                          !.change = [l.change EXCEPT ![k] = l.change[k] + a]]
<1>1. /\ l \in Locals /\ l.todo \in Seq(Rows \X Int) /\ l.todo # <<>>
      /\ l.seen \in Counts /\ l.change \in Counts
  BY DEF IInv, TypeOK, Locals, Lock, Idle
<1>2. Head(l.todo) = l.todo[1] /\ l.todo[1] \in Rows \X Int /\ Tail(l.todo) \in Seq(Rows \X Int)
  BY <1>1, HeadAndTail
<1>3. k \in Rows /\ a \in Int /\ Row(c) = k
  BY <1>2 DEF Row
<1>4. count[k] \in Int /\ l.seen[k] \in Int /\ l.change[k] \in Int
  BY <1>1, <1>3 DEF IInv, TypeOK, Counts
<1>5. k \in Held(c) <=> c \in holder[k]
  BY <1>3 DEF Held
<1>6. Read(c) = count[k] /\ Read(c) \in Int /\ (k \in Held(c) => Read(c) = l.seen[k])
  BY <1>3, <1>4, <1>5 DEF Read, IInv, SeenIsFresh
<1>7. m \in Locals
  <2>1. [l.seen EXCEPT ![k] = Read(c)] \in Counts
    BY <1>1, <1>3, <1>6 DEF Counts
  <2>2. [l.change EXCEPT ![k] = l.change[k] + a] \in Counts
    BY <1>1, <1>3, <1>4 DEF Counts
  <2> HIDE DEF k, a
  <2> QED BY <1>1, <1>2, <2>1, <2>2 DEF Locals
<1>8. call' = [call EXCEPT ![c] = m]
  <2>1. call' = [call EXCEPT ![c].todo = Tail(@), ![c].seen[k] = Read(c),
                            ![c].change[k] = @ + a]
    BY <1>2, <1>3 DEF Lock
  <2> QED BY <2>1, <1>1 DEF IInv, TypeOK, Locals
<1>9. /\ holder' = [holder EXCEPT ![k] = {c}] /\ holder[k] \subseteq {c}
      /\ request' = request
  BY <1>3 DEF Lock
<1>10. StepOf(c)
  <2>1. holder' \in [Rows -> SUBSET Calls] /\ \A j \in Rows : \A d, e \in holder'[j] : d = e
    BY <1>3, <1>9 DEF IInv, TypeOK
  <2>2. \A d \in Calls \ {c} : \A j \in Rows : d \in holder'[j] <=> d \in holder[j]
    BY <1>3, <1>9 DEF IInv, TypeOK
  <2>3. call' \in [Calls -> Locals] /\ \A d \in Calls \ {c} : call'[d] = call[d]
    <3> HIDE DEF m
    <3> QED BY <1>7, <1>8 DEF IInv, TypeOK
  <2> QED BY <1>9, <2>1, <2>2, <2>3 DEF StepOf
<1>11. Held(c)' = Held(c) \cup {k}
  BY <1>3, <1>9 DEF Held, IInv, TypeOK
<1>12. call'[c] = m
  <2> HIDE DEF m
  <2> QED BY <1>8 DEF IInv, TypeOK
<1>13. k \in RackRows => Read(c) >= 0
  BY <1>6 DEF IInv, BalancesKept
<1>14. request[c].kind = "move" /\ a < 0 => Read(c) + l.change[k] + a >= 0
  <2>1. ~(request[c].kind = "move" /\ a < 0 /\ Read(c) + l.change[k] + a < 0)
    BY <1>2, <1>3 DEF Lock, Overdraws, Left
  <2> HIDE DEF l, k, a
  <2>2. Read(c) + l.change[k] + a \in Int
    BY <1>3, <1>4, <1>6
  <2> QED BY <2>1, <2>2
<1>15. /\ m.phase = l.phase /\ m.asked = l.asked /\ m.queue = l.queue
       /\ m.found = l.found /\ m.checked = l.checked
       /\ m.todo = Tail(l.todo)
       /\ m.seen = [l.seen EXCEPT ![k] = Read(c)]
       /\ m.change = [l.change EXCEPT ![k] = l.change[k] + a]
  BY <1>1 DEF Locals
<1>16. Held(c) \subseteq Rows
  BY DEF Held
<1> HIDE DEF m
<1> QED BY <1>1, <1>3, <1>6, <1>7, <1>10, <1>11, <1>12, <1>13, <1>14, <1>15, <1>16 DEF Takes

\* What is left to be locked, and what is known after one lock.
LEMMA TakesFacts ==
  ASSUME NEW r, NEW l, NEW H, NEW m, NEW G, NEW v, Takes(r, l, H, m, G, v),
         DistinctRows(l.todo)
  PROVE  LET k == l.todo[1][1]
             a == l.todo[1][2]
         IN  /\ 1 \in DOMAIN l.todo
             /\ DistinctRows(m.todo) /\ k \notin TodoRows(m)
             /\ TodoRows(l) = {k} \cup TodoRows(m) /\ TodoRows(l) \cup H = TodoRows(m) \cup G
             /\ \A i \in DOMAIN m.todo : /\ i \in Nat /\ i + 1 \in DOMAIN l.todo
                                         /\ m.todo[i] = l.todo[i + 1] /\ i + 1 # 1
             /\ \A j \in Rows : /\ l.seen[j] \in Int /\ l.change[j] \in Int
                                /\ j # k => m.seen[j] = l.seen[j] /\ m.change[j] = l.change[j]
             /\ m.seen[k] = v /\ m.change[k] = l.change[k] + a
             /\ \A j \in H : m.seen[j] = l.seen[j]
             /\ a = 0 => m.change = l.change
             /\ l.todo \in Seq(Rows \X Int) /\ l.asked \in Seq(Products)
             /\ \A i \in DOMAIN l.todo : l.todo[i][1] \in Rows
             /\ m.phase = l.phase /\ m.asked = l.asked /\ m.queue = l.queue
             /\ m.found = l.found /\ m.checked = l.checked
             /\ l \in Locals /\ l.found \subseteq RackRows
             /\ k \in Rows /\ a \in Int /\ v \in Int /\ G = H \cup {k}
             /\ k \in H => v = l.seen[k]
             /\ k \in RackRows /\ k \notin H => v >= 0
             /\ r.kind = "move" /\ a < 0 => v + l.change[k] + a >= 0
<1> DEFINE k == l.todo[1][1]
           a == l.todo[1][2]
<1>1. /\ l.todo \in Seq(Rows \X Int) /\ l.todo # <<>> /\ m.todo = Tail(l.todo)
      /\ l.seen \in Counts /\ l.change \in Counts /\ k \in Rows /\ a \in Int
      /\ l.asked \in Seq(Products)
      /\ m.seen = [l.seen EXCEPT ![k] = v]
      /\ m.change = [l.change EXCEPT ![k] = l.change[k] + a]
  BY DEF Takes, Locals
<1>2. DistinctRows(m.todo) /\ k \notin TodoRows(m) /\ TodoRows(l) = {k} \cup TodoRows(m)
  BY <1>1, DistinctRowsTail DEF TodoRows
<1>3. \A i \in DOMAIN m.todo : /\ i \in Nat /\ i + 1 \in DOMAIN l.todo
                               /\ m.todo[i] = l.todo[i + 1] /\ i + 1 # 1
  BY <1>1, HeadAndTail
<1>4. 1 \in DOMAIN l.todo
  BY <1>1, HeadAndTail
<1>5. TodoRows(l) \cup H = TodoRows(m) \cup G
  BY <1>2 DEF Takes
<1>6. \A j \in Rows : /\ l.seen[j] \in Int /\ l.change[j] \in Int
                      /\ j # k => m.seen[j] = l.seen[j] /\ m.change[j] = l.change[j]
  BY <1>1 DEF Counts
<1>7. m.seen[k] = v /\ m.change[k] = l.change[k] + a
  BY <1>1 DEF Counts
<1>8. \A j \in H : m.seen[j] = l.seen[j]
  BY <1>6, <1>7 DEF Takes
<1>9. a = 0 => m.change = l.change
  <2> SUFFICES ASSUME a = 0 PROVE m.change = l.change
    OBVIOUS
  <2>1. l.change[k] + a = l.change[k]
    BY <1>1, <1>6
  <2> QED BY <1>1, <2>1 DEF Counts
<1>10. \A i \in DOMAIN l.todo : l.todo[i][1] \in Rows
  BY <1>1, LenProperties, ElementOfSeq
<1>11. /\ m.phase = l.phase /\ m.asked = l.asked /\ m.queue = l.queue
       /\ m.found = l.found /\ m.checked = l.checked
       /\ l \in Locals /\ l.found \subseteq RackRows
       /\ v \in Int /\ G = H \cup {k}
       /\ k \in H => v = l.seen[k]
       /\ k \in RackRows /\ k \notin H => v >= 0
       /\ r.kind = "move" /\ a < 0 => v + l.change[k] + a >= 0
  BY DEF Takes, Locals
<1> HIDE DEF k, a
<1> QED BY <1>1, <1>2, <1>3, <1>4, <1>5, <1>6, <1>7, <1>8, <1>9, <1>10, <1>11 DEF k, a

LEMMA PerProductFacts ==
  ASSUME NEW d, IsPerRow(d, Int)
  PROVE  /\ IsFiniteSet(DOMAIN d) /\ DOMAIN d \subseteq RackRows
         /\ DOMAIN PerProduct(d) = {State(k[1]) : k \in DOMAIN d}
         /\ DOMAIN PerProduct(d) \subseteq StateRows
         /\ \A s \in DOMAIN PerProduct(d) : PerProduct(d)[s] \in Int
         /\ \A p \in Products :
               /\ IsFiniteSet({k \in DOMAIN d : k[1] = p})
               /\ State(p) \in DOMAIN PerProduct(d) =>
                     PerProduct(d)[State(p)] = SumFunctionOnSet(d, {k \in DOMAIN d : k[1] = p})
               /\ State(p) \notin DOMAIN PerProduct(d) => {k \in DOMAIN d : k[1] = p} = {}
<1>1. DOMAIN d \subseteq RackRows /\ IsFiniteSet(DOMAIN d) /\ \A k \in DOMAIN d : d[k] \in Int
  BY RowFacts, FS_Subset DEF IsPerRow
<1>2. DOMAIN PerProduct(d) = {State(k[1]) : k \in DOMAIN d}
  BY DEF PerProduct
<1>3. DOMAIN PerProduct(d) \subseteq StateRows
  BY <1>1, <1>2, RowFacts
<1>4. ASSUME NEW p
      PROVE  /\ IsFiniteSet({k \in DOMAIN d : k[1] = p})
             /\ SumFunctionOnSet(d, {k \in DOMAIN d : k[1] = p}) \in Int
  <2> DEFINE T == {k \in DOMAIN d : k[1] = p}
  <2>1. IsFiniteSet(T) /\ \A k \in T : d[k] \in Int
    BY <1>1, FS_Subset
  <2> HIDE DEF T
  <2>2. SumFunctionOnSet(d, T) \in Int
    BY <2>1, SumRemove
  <2> QED BY <2>1, <2>2 DEF T
<1>5. ASSUME NEW s \in DOMAIN PerProduct(d)
      PROVE  /\ PerProduct(d)[s] = SumFunctionOnSet(d, {k \in DOMAIN d : k[1] = s[1]})
             /\ PerProduct(d)[s] \in Int
  <2>1. PerProduct(d)[s] = SumFunctionOnSet(d, {k \in DOMAIN d : k[1] = s[1]})
    BY <1>2 DEF PerProduct
  <2> QED BY <1>4, <2>1
<1>6. ASSUME NEW p \in Products
      PROVE  /\ IsFiniteSet({k \in DOMAIN d : k[1] = p})
             /\ State(p) \in DOMAIN PerProduct(d) =>
                    PerProduct(d)[State(p)] = SumFunctionOnSet(d, {k \in DOMAIN d : k[1] = p})
             /\ State(p) \notin DOMAIN PerProduct(d) => {k \in DOMAIN d : k[1] = p} = {}
  <2>1. State(p)[1] = p
    BY RowFacts
  <2> QED BY <1>2, <1>4, <1>5, <2>1
<1> QED BY <1>1, <1>2, <1>3, <1>5, <1>6

LEMMA RequestFacts ==
  ASSUME TypeOK, NEW c \in Calls
  PROVE  IsRequest(request[c])
BY RowLocksAssumption DEF TypeOK

\* What a call means to change is a number per row, at most what it finds, and
\* a function of what it read when it looked.
LEMMA WantedFacts ==
  ASSUME NEW r, IsRequest(r), NEW l \in Locals, r.kind \in {"move", "place", "cancel", "count", "discard"}
  PROVE  /\ IsPerRow(Lines(r, l), Int)
         /\ \A k \in Rows : Wanted(r, l, k) \in Int
         /\ \A k \in RackRows :
               Wanted(r, l, k) = IF k \in DOMAIN Lines(r, l) THEN Lines(r, l)[k] ELSE 0
         /\ r.kind \in {"place", "cancel"} => \A k \in RackRows : Wanted(r, l, k) >= 0
         /\ r.kind = "count" =>
               \A k \in RackRows : /\ k \in l.found => \/ l.seen[k] + Wanted(r, l, k) >= 0
                                                       \/ Wanted(r, l, k) = 0
                                   /\ k \notin l.found => Wanted(r, l, k) >= 0
<1>1. IsPerRow(Lines(r, l), Int)
  <2>1. CASE r.kind = "count"
    <3>1. /\ DOMAIN r.counted \subseteq RackRows
          /\ \A k \in DOMAIN r.counted : r.counted[k] \in Nat /\ l.seen[k] \in Int
      BY <2>1, RowFacts DEF IsRequest, IsPerRow, Locals, Counts
    <3> QED BY <2>1, <3>1 DEF Lines, IsPerRow
  <2>2. CASE r.kind = "discard"
    BY <2>2 DEF Lines, IsPerRow
  <2>3. CASE r.kind \notin {"count", "discard"}
    BY <2>3 DEF IsRequest, Lines, IsPerRow
  <2> QED BY <2>1, <2>2, <2>3
<1>2. /\ DOMAIN PerProduct(Lines(r, l)) \subseteq StateRows
      /\ \A s \in DOMAIN PerProduct(Lines(r, l)) : PerProduct(Lines(r, l))[s] \in Int
  BY <1>1, PerProductFacts
<1>3. \A k \in Rows : Wanted(r, l, k) \in Int
  BY <1>1, <1>2 DEF Wanted, IsPerRow
<1>4. \A k \in RackRows :
         Wanted(r, l, k) = IF k \in DOMAIN Lines(r, l) THEN Lines(r, l)[k] ELSE 0
  BY <1>2, RowFacts DEF Wanted
<1>5. ASSUME r.kind \in {"place", "cancel"}, NEW k \in RackRows PROVE Wanted(r, l, k) >= 0
  <2>1. Lines(r, l) = r.change /\ IsPerRow(r.change, Nat)
    BY <1>5 DEF IsRequest, Lines
  <2> QED BY <1>4, <2>1 DEF IsPerRow
<1>6. ASSUME r.kind = "count", NEW k \in RackRows
      PROVE  /\ k \in l.found => l.seen[k] + Wanted(r, l, k) >= 0 \/ Wanted(r, l, k) = 0
             /\ k \notin l.found => Wanted(r, l, k) >= 0
  <2>1. CASE k \in DOMAIN r.counted
    <3>1. r.counted[k] \in Nat /\ l.seen[k] \in Int
      BY <1>6, <2>1, RowFacts DEF IsRequest, IsPerRow, Locals, Counts
    <3>2. Wanted(r, l, k) = r.counted[k] - (IF k \in l.found THEN l.seen[k] ELSE 0)
      BY <1>4, <1>6, <2>1 DEF Lines
    <3> QED BY <3>1, <3>2
  <2>2. CASE k \notin DOMAIN r.counted
    <3>1. Wanted(r, l, k) = 0
      BY <1>4, <1>6, <2>2 DEF Lines
    <3> QED BY <3>1
  <2> QED BY <2>1, <2>2
<1> QED BY <1>1, <1>3, <1>4, <1>5, <1>6

\* A lock changes nothing a call means to change: what it found it held before.
LEMMA WantedKept ==
  ASSUME NEW r, NEW l, NEW m, m.found = l.found,
         r.kind = "count" => \A k \in l.found : m.seen[k] = l.seen[k]
  PROVE  \A k : Wanted(r, m, k) = Wanted(r, l, k)
<1>1. Lines(r, m) = Lines(r, l)
  BY DEF Lines
<1> QED BY <1>1 DEF Wanted

LEMMA TakesQuiet ==
  ASSUME NEW r, NEW l, NEW H, NEW m, NEW G, NEW v, Takes(r, l, H, m, G, v), Good(r, l, H)
  PROVE  /\ Quiet(m, G) /\ PhaseOfKind(r, m) /\ DistinctRows(l.todo)
         /\ l.phase \in {"states", "picking", "counting", "legs"}
<1>1. /\ m.phase = l.phase /\ l.todo # <<>> /\ l.phase \in Phases
      /\ Quiet(l, H) /\ PhaseOfKind(r, l) /\ DistinctRows(l.todo)
  BY DEF Takes, Good, Quiet, Locals
<1>2. l.phase \in {"states", "picking", "counting", "legs"}
  BY <1>1 DEF Quiet, Phases, Ended
<1>3. DistinctRows(m.todo)
  BY <1>1, TakesFacts
<1> QED BY <1>1, <1>2, <1>3 DEF Quiet, PhaseOfKind, Ended

LEMMA TakesCovered ==
  ASSUME NEW r, IsRequest(r),
         NEW l, NEW H, NEW m, NEW G, NEW v, Takes(r, l, H, m, G, v), Good(r, l, H)
  PROVE  Covered(m, G)
<1> DEFINE k == l.todo[1][1]
           a == l.todo[1][2]
<1>1. /\ DistinctRows(l.todo) /\ l.phase \in {"states", "picking", "counting", "legs"}
      /\ Covered(l, H) /\ PhaseOfKind(r, l) /\ Ordering(r, l) /\ Counting(l, H) /\ Legs(r, l, H)
  BY TakesQuiet DEF Good
<1>2. /\ 1 \in DOMAIN l.todo /\ k \in Rows /\ a \in Int /\ v \in Int /\ l \in Locals
      /\ G = H \cup {k}
      /\ k \in RackRows /\ k \notin H => v >= 0
      /\ k \in H => v = l.seen[k]
      /\ r.kind = "move" /\ a < 0 => v + l.change[k] + a >= 0
      /\ \A j \in Rows : /\ l.seen[j] \in Int /\ l.change[j] \in Int
                         /\ j # k => m.seen[j] = l.seen[j] /\ m.change[j] = l.change[j]
      /\ m.seen[k] = v /\ m.change[k] = l.change[k] + a
  BY <1>1, TakesFacts
<1> HIDE DEF k, a
<1>3. l.phase \notin Ended
  BY <1>1 DEF Ended
<1>4. /\ \A j \in Rows : l.change[j] # 0 => j \in H
      /\ \A j \in H \cap RackRows : l.seen[j] + l.change[j] >= 0
  BY <1>1, <1>3 DEF Covered
<1>5. ASSUME k \in RackRows PROVE v + l.change[k] >= 0
  <2>1. CASE k \in H
    BY <1>2, <1>4, <1>5, <2>1
  <2>2. CASE k \notin H
    <3>1. l.change[k] = 0 /\ v >= 0 /\ v \in Int
      BY <1>2, <1>4, <1>5, <2>2
    <3> QED BY <3>1
  <2> QED BY <2>1, <2>2
<1>6. ASSUME k \in RackRows PROVE v + l.change[k] + a >= 0
  <2>1. CASE a >= 0
    BY <1>2, <1>5, <1>6, <2>1
  <2>2. CASE l.phase \in {"states", "picking", "counting"}
    <3>1. a = 0
      BY <1>1, <1>2, <2>2 DEF Ordering, Counting, a
    <3> QED BY <1>2, <2>1, <3>1
  <2>3. CASE l.phase = "legs" /\ r.kind = "move"
    BY <1>2, <2>1, <2>3
  <2>4. CASE l.phase = "legs" /\ r.kind \in {"place", "cancel"}
    <3>1. a = Wanted(r, l, k)
      BY <1>1, <1>2, <2>4 DEF Legs, k, a
    <3>2. a >= 0
      BY <1>2, <1>6, <2>4, <3>1, WantedFacts
    <3> QED BY <2>1, <3>2
  <2>5. CASE l.phase = "legs" /\ r.kind = "count"
    <3>1. a = Wanted(r, l, k) /\ l.change[k] = 0 /\ l.found \subseteq H
      BY <1>1, <1>2, <2>5 DEF Legs, k, a
    <3>2. CASE k \in l.found
      <4>1. v = l.seen[k]
        BY <1>2, <3>1, <3>2
      <4>2. l.seen[k] + a >= 0 \/ a = 0
        BY <1>2, <1>6, <2>5, <3>1, <3>2, WantedFacts
      <4> QED BY <1>2, <2>1, <3>1, <4>1, <4>2
    <3>3. CASE k \notin l.found
      <4>1. a >= 0
        BY <1>2, <1>6, <2>5, <3>1, <3>3, WantedFacts
      <4> QED BY <2>1, <4>1
    <3> QED BY <3>2, <3>3
  <2>6. CASE l.phase = "legs" /\ r.kind = "discard"
    <3>1. a = Wanted(r, l, k) /\ DOMAIN Lines(r, l) = {}
      BY <1>1, <1>2, <2>6 DEF Legs, Lines, k, a
    <3>2. a = 0
      BY <1>2, <1>6, <2>6, <3>1, WantedFacts
    <3> QED BY <1>2, <2>1, <3>2
  <2> QED BY <1>1, <2>2, <2>3, <2>4, <2>5, <2>6 DEF PhaseOfKind
<1>7. ASSUME NEW j \in Rows, m.change[j] # 0 PROVE j \in G
  <2>1. G = H \cup {k}
    BY <1>2
  <2>2. j # k => m.change[j] = l.change[j]
    BY <1>2
  <2> QED BY <1>4, <1>7, <2>1, <2>2
<1>8. ASSUME NEW j \in G \cap RackRows PROVE m.seen[j] + m.change[j] >= 0
  <2>1. j \in Rows
    BY <1>8, RowFacts
  <2>2. CASE j = k
    BY <1>2, <1>6, <1>8, <2>2
  <2>3. CASE j # k
    <3>0. G = H \cup {k}
      BY <1>2
    <3>1. j \in H
      BY <1>8, <2>3, <3>0
    <3>2. m.seen[j] = l.seen[j] /\ m.change[j] = l.change[j]
      BY <1>2, <2>1, <2>3
    <3> QED BY <1>4, <1>8, <3>1, <3>2
  <2> QED BY <2>2, <2>3
<1> QED BY <1>7, <1>8 DEF Covered

LEMMA TakesOrder ==
  ASSUME NEW r, NEW l, NEW H, NEW m, NEW G, NEW v, Takes(r, l, H, m, G, v), Good(r, l, H)
  PROVE  /\ Ordering(r, m) /\ LockingStates(r, m, G) /\ PickingRacks(r, m, G)
         /\ PickingProduct(m)
<1> DEFINE k == l.todo[1][1]
           a == l.todo[1][2]
<1>1. /\ DistinctRows(l.todo)
      /\ l.phase \in {"states", "picking", "counting", "legs"}
      /\ Ordering(r, l) /\ LockingStates(r, l, H) /\ PickingRacks(r, l, H) /\ PickingProduct(l)
  BY TakesQuiet DEF Good
<1>2. /\ m.phase = l.phase /\ m.asked = l.asked
      /\ m.queue = l.queue /\ m.found = l.found
      /\ TodoRows(l) = {k} \cup TodoRows(m) /\ TodoRows(l) \cup H = TodoRows(m) \cup G
      /\ 1 \in DOMAIN l.todo /\ H \subseteq G
      /\ \A i \in DOMAIN m.todo : i + 1 \in DOMAIN l.todo /\ m.todo[i] = l.todo[i + 1]
      /\ \A j \in Rows : j # k => m.seen[j] = l.seen[j]
      /\ a = 0 => m.change = l.change
      /\ l.found \subseteq RackRows /\ l.asked \in Seq(Products)
  BY <1>1, TakesFacts
<1>3. ASSUME l.phase \in {"states", "picking"}
      PROVE  m.change = l.change /\ \A i \in DOMAIN m.todo : m.todo[i][2] = 0
  BY <1>1, <1>2, <1>3 DEF Ordering
<1>4. Ordering(r, m)
  BY <1>1, <1>2, <1>3 DEF Ordering
<1>5. LockingStates(r, m, G)
  BY <1>1, <1>2, <1>3 DEF LockingStates
<1>6. PickingProduct(m)
  BY <1>1, <1>2 DEF PickingProduct
<1>7. ASSUME l.phase = "picking", NEW p \in OrderedIn(r) \ ToSet(l.asked), Settled(r, l, p)
      PROVE  Settled(r, m, p)
  <2>1. k[1] = Head(l.asked) /\ l.asked # <<>> /\ l.asked \in Seq(Products)
    BY <1>1, <1>2, <1>7 DEF PickingProduct
  <2>2. Head(l.asked) \in ToSet(l.asked)
    BY <2>1, HeadAndTail DEF ToSet
  <2>3. \A j \in l.found : j[1] = p => m.seen[j] = l.seen[j]
    BY <1>2, <2>1, <2>2, RowFacts
  <2>4. m.change = l.change /\ m.found = l.found
    BY <1>2, <1>3, <1>7
  <2> HIDE DEF k, a
  <2> QED BY <1>7, <2>3, <2>4 DEF Settled
<1>8. PickingRacks(r, m, G)
  BY <1>1, <1>2, <1>3, <1>7 DEF PickingRacks
<1> QED BY <1>4, <1>5, <1>6, <1>8

LEMMA TakesLegs ==
  ASSUME NEW r, IsRequest(r),
         NEW l, NEW H, NEW m, NEW G, NEW v, Takes(r, l, H, m, G, v), Good(r, l, H)
  PROVE  Counting(m, G) /\ Legs(r, m, G)
<1> DEFINE k == l.todo[1][1]
           a == l.todo[1][2]
<1>1. /\ DistinctRows(l.todo) /\ l.phase \in {"states", "picking", "counting", "legs"}
      /\ Counting(l, H) /\ Legs(r, l, H)
  BY TakesQuiet DEF Good
<1>2. /\ m.phase = l.phase /\ m.checked = l.checked /\ m.found = l.found
      /\ TodoRows(l) = {k} \cup TodoRows(m) /\ TodoRows(l) \cup H = TodoRows(m) \cup G
      /\ 1 \in DOMAIN l.todo /\ H \subseteq G /\ k \notin TodoRows(m)
      /\ \A i \in DOMAIN m.todo : i + 1 \in DOMAIN l.todo /\ m.todo[i] = l.todo[i + 1]
      /\ \A j \in Rows : j # k => m.change[j] = l.change[j]
      /\ \A j \in H : m.seen[j] = l.seen[j]
      /\ a = 0 => m.change = l.change
      /\ m.change[k] = l.change[k] + a /\ a \in Int
      /\ \A i \in DOMAIN l.todo : l.todo[i][1] \in Rows
  BY <1>1, TakesFacts
<1>3. Counting(m, G)
  BY <1>1, <1>2 DEF Counting
<1>4. ASSUME l.phase = "legs" PROVE Legs(r, m, G)
  <2>1. /\ \A i \in DOMAIN l.todo : /\ l.change[l.todo[i][1]] = 0
                                    /\ l.todo[i][2] = Wanted(r, l, l.todo[i][1])
        /\ \A j \in Rows \ TodoRows(l) : l.change[j] = Wanted(r, l, j)
        /\ r.kind = "count" => l.found \subseteq H
        /\ r.kind \in {"move", "place"} => \A j \in DOMAIN r.change : j[2] \in l.checked
    BY <1>1, <1>4 DEF Legs
  <2>2. \A j : Wanted(r, m, j) = Wanted(r, l, j)
    BY <1>1, <1>2, <2>1, WantedKept
  <2>3. m.change[k] = Wanted(r, m, k)
    BY <1>2, <2>1, <2>2
  <2>4. \A j \in Rows \ TodoRows(m) : m.change[j] = Wanted(r, m, j)
    BY <1>2, <2>1, <2>2, <2>3
  <2>5. ASSUME NEW i \in DOMAIN m.todo
        PROVE  m.change[m.todo[i][1]] = 0 /\ m.todo[i][2] = Wanted(r, m, m.todo[i][1])
    <3>1. m.todo[i][1] # k /\ m.todo[i][1] \in Rows
      BY <1>2 DEF TodoRows, RowsIn
    <3> QED BY <1>2, <2>1, <2>2, <3>1
  <2> QED BY <1>1, <1>2, <2>1, <2>4, <2>5 DEF Legs
<1>5. l.phase # "legs" => Legs(r, m, G)
  BY <1>2 DEF Legs
<1> QED BY <1>3, <1>4, <1>5

LEMMA TakesInOrder ==
  ASSUME NEW r, NEW l, NEW H, NEW m, NEW G, NEW v, Takes(r, l, H, m, G, v), Good(r, l, H)
  PROVE  RacksInOrder(r, m, G) /\ StatesFirst(r, m, G)
<1> DEFINE k == l.todo[1][1]
<1>1. DistinctRows(l.todo) /\ RacksInOrder(r, l, H) /\ StatesFirst(r, l, H)
  BY TakesQuiet DEF Good
<1>2. /\ TodoRows(l) \cup H = TodoRows(m) \cup G /\ G = H \cup {k}
      /\ 1 \in DOMAIN l.todo /\ k \in Rows
      /\ \A i \in DOMAIN m.todo : /\ i \in Nat /\ i + 1 \in DOMAIN l.todo
                                  /\ m.todo[i] = l.todo[i + 1] /\ i + 1 # 1
  BY <1>1, TakesFacts
<1>3. \A i \in DOMAIN m.todo : i >= 1
  <2>1. l.todo \in Seq(Rows \X Int) /\ l.todo # <<>> /\ m.todo = Tail(l.todo)
    BY DEF Takes, Locals
  <2> QED BY <2>1, HeadAndTail
<1>4. \A i, j \in DOMAIN m.todo : i < j => i + 1 < j + 1
  BY <1>2
<1>5. \A i \in DOMAIN m.todo : 1 < i + 1
  BY <1>2, <1>3
<1>6. RacksInOrder(r, m, G)
  <2>1. SUFFICES ASSUME r.kind = "move" PROVE RacksInOrder(r, m, G)
    BY DEF RacksInOrder
  <2>2. /\ \A i \in DOMAIN l.todo : \A j \in H : ByRack(j, l.todo[i][1])
        /\ \A i, j \in DOMAIN l.todo : i < j => ByRack(l.todo[i][1], l.todo[j][1])
    BY <1>1, <2>1 DEF RacksInOrder
  <2>3. \A i \in DOMAIN m.todo : ByRack(k, m.todo[i][1])
    BY <1>2, <1>5, <2>2
  <2>4. \A i, j \in DOMAIN m.todo : i < j => ByRack(m.todo[i][1], m.todo[j][1])
    BY <1>2, <1>4, <2>2
  <2> QED BY <1>2, <2>2, <2>3, <2>4 DEF RacksInOrder
<1>7. StatesFirst(r, m, G)
  <2>1. SUFFICES ASSUME r.kind \in {"order", "place", "cancel", "discard"} PROVE StatesFirst(r, m, G)
    BY DEF StatesFirst
  <2>2. /\ \A i, j \in DOMAIN l.todo :
              i < j /\ l.todo[j][1] \in StateRows => l.todo[i][1] \in StateRows
        /\ (\E i \in DOMAIN l.todo : l.todo[i][1] \in StateRows) => H \cap RackRows = {}
        /\ \A j \in RackRows : j \in TodoRows(l) \cup H => State(j[1]) \in TodoRows(l) \cup H
    BY <1>1, <2>1 DEF StatesFirst
  <2>3. \A i, j \in DOMAIN m.todo :
              i < j /\ m.todo[j][1] \in StateRows => m.todo[i][1] \in StateRows
    BY <1>2, <1>4, <2>2
  <2>4. ASSUME NEW i \in DOMAIN m.todo, m.todo[i][1] \in StateRows PROVE G \cap RackRows = {}
    <3>1. k \in StateRows
      BY <1>2, <1>5, <2>2, <2>4
    <3>2. H \cap RackRows = {}
      BY <1>2, <2>2, <2>4
    <3> QED BY <1>2, <3>1, <3>2, RowFacts
  <2> QED BY <1>2, <2>2, <2>3, <2>4 DEF StatesFirst
<1> QED BY <1>6, <1>7

LEMMA LockStep ==
  ASSUME IInv, NEW c \in Calls, Lock(c)
  PROVE  IInv'
<1>1. /\ Takes(request[c], call[c], Held(c), call'[c], Held(c)', Read(c))
      /\ StepOf(c) /\ Row(c) = call[c].todo[1][1] /\ Read(c) = count[Row(c)]
      /\ call'[c].seen = [call[c].seen EXCEPT ![Row(c)] = Read(c)]
  BY LockTakes
<1>2. Good(request[c], call[c], Held(c)) /\ IsRequest(request[c])
  BY RequestFacts DEF IInv
<1>3. Good(request[c], call'[c], Held(c)')
  BY <1>1, <1>2, TakesQuiet, TakesCovered, TakesOrder, TakesLegs, TakesInOrder DEF Good
<1>4. UNCHANGED committed
  BY DEF Lock
<1>5. TypeOK'
  BY <1>1, <1>4 DEF StepOf, IInv, TypeOK, committed
<1>6. BalancesKept'
  BY <1>4, <1>5 DEF IInv, BalancesKept, committed
<1>7. ASSUME NEW d \in Calls, NEW k \in Held(d)' PROVE call'[d].seen[k] = count'[k]
  <2>1. count' = count
    BY <1>4 DEF committed
  <2>2. CASE d # c
    <3>1. k \in Held(d) /\ call'[d] = call[d]
      BY <1>1, <1>7, <2>2 DEF StepOf, Held
    <3> QED BY <2>1, <3>1 DEF IInv, SeenIsFresh
  <2>3. CASE d = c
    <3>1. call[c].seen \in Counts /\ Row(c) \in Rows /\ Held(c)' = Held(c) \cup {Row(c)}
      BY <1>1 DEF Takes, Locals
    <3>2. k \in Held(c) => call[c].seen[k] = count[k]
      BY DEF IInv, SeenIsFresh
    <3>3. k \in Rows /\ k \in Held(c) \cup {Row(c)}
      BY <1>7, <2>3, <3>1 DEF Held
    <3> QED BY <1>1, <2>1, <2>3, <3>1, <3>2, <3>3 DEF Counts
  <2> QED BY <2>2, <2>3
<1>8. SeenIsFresh'
  BY <1>7 DEF SeenIsFresh
<1> QED BY <1>1, <1>3, <1>5, <1>6, <1>8, GoodAfter DEF IInv

-----------------------------------------------------------------------------
(* Moves, accepts and cancels begin                                         *)

\* What a call knows before it begins.
LEMMA ReadyFacts ==
  ASSUME IInv, NEW c \in Calls, call[c].phase = "ready"
  PROVE  /\ call[c] = Fresh /\ call[c] \in Locals /\ Held(c) = {}
         /\ \A k \in Rows : call[c].change[k] = 0
         /\ call[c].found = {}
<1>1. call[c] = Fresh /\ Held(c) = {} /\ call[c] \in Locals
  BY DEF IInv, TypeOK, Good, Quiet, Ended
<1> QED BY <1>1 DEF Fresh

LEMMA BeginLegsStep ==
  ASSUME IInv, NEW c \in Calls, call[c].phase = "ready",
         request[c].kind \in {"move", "place", "cancel", "discard"},
         NEW t \in Seq(Rows \X Int), BeginLegs(c, t), DistinctRows(t),
         \A i \in DOMAIN t : t[i][2] = Wanted(request[c], Fresh, t[i][1]),
         \A k \in Rows \ RowsIn(t) : Wanted(request[c], Fresh, k) = 0,
         request[c].kind \in {"move", "place"} => OnLiveRacks(c),
         request[c].kind = "move" =>
            \A i, j \in DOMAIN t : i < j => ByRack(t[i][1], t[j][1]),
         request[c].kind # "move" =>
            /\ \A i, j \in DOMAIN t : i < j /\ t[j][1] \in StateRows => t[i][1] \in StateRows
            /\ \A k \in RackRows : k \in RowsIn(t) => State(k[1]) \in RowsIn(t)
  PROVE  IInv'
<1> DEFINE r == request[c]
           m == [Fresh EXCEPT !.phase = "legs", !.todo = t, !.checked = live]
<1>1. /\ call[c] = Fresh /\ Fresh \in Locals /\ Held(c) = {}
      /\ \A k \in Rows : Fresh.change[k] = 0
  BY ReadyFacts
<1>2. /\ call' = [call EXCEPT ![c] = m] /\ UNCHANGED <<committed, holder, request>>
  <2>1. /\ call' = [call EXCEPT ![c].phase = "legs", ![c].todo = t, ![c].checked = live]
        /\ UNCHANGED <<committed, holder, request>>
    BY DEF BeginLegs
  <2> QED BY <1>1, <2>1 DEF IInv, TypeOK
<1>3. /\ m \in Locals /\ m.phase = "legs" /\ m.todo = t /\ m.checked = live
      /\ m.seen = Fresh.seen /\ m.change = Fresh.change /\ m.found = Fresh.found
      /\ TodoRows(m) = RowsIn(t)
  BY <1>1 DEF Locals, Phases, IInv, TypeOK, TodoRows
<1> HIDE DEF m
<1>4. \A k \in RowsIn(t) : k \in Rows
  <2>1. \A i \in DOMAIN t : t[i] \in Rows \X Int
    BY LenProperties, ElementOfSeq
  <2> QED BY <2>1 DEF RowsIn
<1>5. \A k : Wanted(r, m, k) = Wanted(r, Fresh, k)
  BY <1>3, WantedKept
<1>6. Quiet(m, {}) /\ PhaseOfKind(r, m) /\ Covered(m, {})
  BY <1>1, <1>3 DEF Quiet, PhaseOfKind, Covered, Ended
<1>7. Ordering(r, m) /\ LockingStates(r, m, {}) /\ PickingRacks(r, m, {})
      /\ PickingProduct(m) /\ Counting(m, {})
  BY <1>3 DEF Ordering, LockingStates, PickingRacks, PickingProduct, Counting
<1>8. Legs(r, m, {})
  <2>1. \A i \in DOMAIN t : t[i][1] \in Rows
    BY <1>4 DEF RowsIn
  <2>2. r.kind \in {"move", "place"} => \A k \in DOMAIN r.change : k[2] \in live
    BY DEF OnLiveRacks, Change
  <2> QED BY <1>1, <1>3, <1>5, <2>1, <2>2 DEF Legs
<1>9. RacksInOrder(r, m, {}) /\ StatesFirst(r, m, {})
  BY <1>3 DEF RacksInOrder, StatesFirst
<1>10. Good(request[c], m, Held(c))
  BY <1>1, <1>6, <1>7, <1>8, <1>9 DEF Good
<1> QED BY <1>1, <1>2, <1>3, <1>10, LocalStep

LEMMA BeginMoveStep ==
  ASSUME IInv, NEW c \in Calls, BeginMove(c)
  PROVE  IInv'
<1> DEFINE r == request[c]
<1>1. /\ r.kind = "move" /\ call[c].phase = "ready" /\ OnLiveRacks(c)
  BY DEF BeginMove, Is
<1>2. IsPerRow(r.change, Int) /\ IsRequest(r) /\ DOMAIN r.change \in SUBSET Rows
      /\ \A k \in DOMAIN r.change : r.change[k] \in Int
  <2>1. IsRequest(r)
    BY RequestFacts DEF IInv
  <2>2. IsPerRow(r.change, Int)
    BY <1>1, <2>1 DEF IsRequest
  <2> QED BY <2>1, <2>2, RowFacts DEF IsPerRow
<1>3. PICK legs \in SetToSeqs(DOMAIN r.change) :
         IsSorted(legs, ByRack) /\ BeginLegs(c, With(legs, r.change))
  BY DEF BeginMove, Change
<1> DEFINE t == With(legs, r.change)
<1>4. /\ t \in Seq(Rows \X Int) /\ RowsIn(t) = DOMAIN r.change /\ DistinctRows(t)
      /\ Len(t) = Len(legs)
      /\ \A i \in 1 .. Len(legs) : /\ t[i] = <<legs[i], r.change[legs[i]]>>
                                   /\ t[i][1] \in DOMAIN r.change /\ t[i][2] = r.change[t[i][1]]
  BY <1>2, WithSeq
<1>5. DOMAIN t = 1 .. Len(legs)
  BY <1>4, LenProperties
<1>6. \A i, j \in DOMAIN t : i < j => ByRack(t[i][1], t[j][1])
  BY <1>3, <1>4, <1>5 DEF IsSorted
<1>7. Fresh \in Locals
  BY <1>1, ReadyFacts
<1>8. \A k : Wanted(r, Fresh, k) = IF k \in DOMAIN r.change THEN r.change[k] ELSE 0
  BY <1>1 DEF Wanted, Lines
<1> HIDE DEF t
<1>9. \A i \in DOMAIN t : t[i][2] = Wanted(r, Fresh, t[i][1])
  BY <1>4, <1>5, <1>8
<1>10. \A k \in Rows \ RowsIn(t) : Wanted(r, Fresh, k) = 0
  BY <1>4, <1>8
<1>11. BeginLegs(c, t)
  BY <1>3 DEF t
<1> QED BY <1>1, <1>4, <1>6, <1>9, <1>10, <1>11, BeginLegsStep

\* States and racks of an accept or a cancel.
LEMMA StatesAndLegsStep ==
  ASSUME IInv, NEW c \in Calls, call[c].phase = "ready",
         request[c].kind \in {"place", "cancel"},
         request[c].kind = "place" => OnLiveRacks(c),
         NEW states \in SetToSeqs(DOMAIN PerProduct(Change(c))),
         NEW legs \in SetToSeqs(DOMAIN Change(c)),
         BeginLegs(c, With(states, PerProduct(Change(c))) \o With(legs, Change(c)))
  PROVE  IInv'
<1> DEFINE r == request[c]
           d == r.change
           e == PerProduct(d)
           t == With(states, e) \o With(legs, d)
<1>1. IsPerRow(d, Int)
  <2>1. IsRequest(r)
    BY RequestFacts DEF IInv
  <2> QED BY <2>1 DEF IsRequest, IsPerRow
<1>2. /\ DOMAIN e \in SUBSET StateRows /\ DOMAIN d \in SUBSET RackRows
      /\ \A k \in DOMAIN d : d[k] \in Int
      /\ \A k \in DOMAIN e : e[k] \in Int
      /\ DOMAIN e = {State(k[1]) : k \in DOMAIN d}
  BY <1>1, PerProductFacts DEF IsPerRow
<1>3. states \in SetToSeqs(DOMAIN e) /\ legs \in SetToSeqs(DOMAIN d) /\ BeginLegs(c, t)
      /\ t = With(states, e) \o With(legs, d)
  BY DEF Change
<1> HIDE DEF d, e, t
<1>4. /\ t \in Seq(Rows \X Int) /\ RowsIn(t) = DOMAIN e \cup DOMAIN d /\ DistinctRows(t)
      /\ \A i \in DOMAIN t : \/ t[i][1] \in DOMAIN e /\ t[i][2] = e[t[i][1]]
                             \/ t[i][1] \in DOMAIN d /\ t[i][2] = d[t[i][1]]
      /\ \A i, j \in DOMAIN t : i < j /\ t[j][1] \in DOMAIN e => t[i][1] \in DOMAIN e
  <2> DEFINE A == DOMAIN e
             B == DOMAIN d
  <2>1. /\ A \in SUBSET StateRows /\ B \in SUBSET RackRows
        /\ \A k \in A : e[k] \in Int
        /\ \A k \in B : d[k] \in Int
        /\ states \in SetToSeqs(A) /\ legs \in SetToSeqs(B)
    BY <1>2, <1>3
  <2>2. t = With(states, e) \o With(legs, d)
    BY <1>3
  <2> HIDE DEF A, B
  <2>3. /\ t \in Seq(Rows \X Int) /\ RowsIn(t) = A \cup B /\ DistinctRows(t)
        /\ \A i \in DOMAIN t : \/ t[i][1] \in A /\ t[i][2] = e[t[i][1]]
                               \/ t[i][1] \in B /\ t[i][2] = d[t[i][1]]
        /\ \A i, j \in DOMAIN t : i < j /\ t[j][1] \in A => t[i][1] \in A
    <3> DEFINE w == With(states, e) \o With(legs, d)
    <3>1. /\ w \in Seq(Rows \X Int) /\ RowsIn(w) = A \cup B /\ DistinctRows(w)
          /\ \A i \in DOMAIN w : \/ w[i][1] \in A /\ w[i][2] = e[w[i][1]]
                                 \/ w[i][1] \in B /\ w[i][2] = d[w[i][1]]
          /\ \A i, j \in DOMAIN w : i < j /\ w[j][1] \in A => w[i][1] \in A
      BY <2>1, StatesThenRacks
    <3> QED BY <2>2, <3>1
  <2> QED BY <2>3 DEF A, B
<1>5. \A k : Wanted(r, Fresh, k) = IF k \in DOMAIN d THEN d[k]
                                   ELSE IF k \in DOMAIN e THEN e[k] ELSE 0
  BY DEF Wanted, Lines, d, e
<1>6. DOMAIN d \cap StateRows = {}
  BY <1>2, RowFacts
<1>7. \A i \in DOMAIN t : t[i][2] = Wanted(r, Fresh, t[i][1])
  BY <1>2, <1>4, <1>5, <1>6
<1>8. \A k \in Rows \ RowsIn(t) : Wanted(r, Fresh, k) = 0
  BY <1>4, <1>5
<1>9. \A i, j \in DOMAIN t : i < j /\ t[j][1] \in StateRows => t[i][1] \in StateRows
  BY <1>2, <1>4, <1>6
<1>10. \A k \in RackRows : k \in RowsIn(t) => State(k[1]) \in RowsIn(t)
  BY <1>2, <1>4, RowFacts
<1> QED BY <1>3, <1>4, <1>7, <1>8, <1>9, <1>10, BeginLegsStep

LEMMA BeginPlaceStep ==
  ASSUME IInv, NEW c \in Calls, BeginPlace(c)
  PROVE  IInv'
BY StatesAndLegsStep DEF BeginPlace, Is

LEMMA BeginCancelStep ==
  ASSUME IInv, NEW c \in Calls, BeginCancel(c)
  PROVE  IInv'
BY StatesAndLegsStep DEF BeginCancel, Is

-----------------------------------------------------------------------------
(* Orders                                                                   *)

LEMMA OrderFacts ==
  ASSUME IInv, NEW c \in Calls, request[c].kind = "order"
  PROVE  /\ request[c].units \in [Products -> Nat] /\ Units(c) = request[c].units
         /\ Ordered(c) = OrderedIn(request[c]) /\ OrderedIn(request[c]) \subseteq Products
         /\ IsFiniteSet(OrderedIn(request[c]))
         /\ {State(p) : p \in OrderedIn(request[c])} \in SUBSET StateRows
<1>1. IsRequest(request[c])
  BY RequestFacts DEF IInv
<1>2. OrderedIn(request[c]) \subseteq Products
  BY DEF OrderedIn
<1>3. IsFiniteSet(OrderedIn(request[c]))
  BY <1>2, RowFacts, FS_Subset
<1> QED BY <1>1, <1>2, <1>3 DEF IsRequest, Units, Ordered, OrderedIn, StateRows

LEMMA BeginOrderStep ==
  ASSUME IInv, NEW c \in Calls, BeginOrder(c)
  PROVE  IInv'
<1> DEFINE r == request[c]
           S == {State(p) : p \in OrderedIn(r)}
<1>1. r.kind = "order" /\ call[c].phase = "ready"
  BY DEF BeginOrder, Is
<1>2. /\ S \in SUBSET StateRows /\ Ordered(c) = OrderedIn(r)
      /\ OrderedIn(r) \subseteq Products /\ IsFiniteSet(OrderedIn(r))
  BY <1>1, OrderFacts
<1>3. PICK states \in SetToSeqs(S), asked \in SetToSeqs(OrderedIn(r)) :
         call' = [call EXCEPT ![c].phase = "states", ![c].todo = Plain(states),
                              ![c].asked = asked]
  BY <1>2 DEF BeginOrder
<1> DEFINE t == Plain(states)
           m == [Fresh EXCEPT !.phase = "states", !.todo = t, !.asked = asked]
<1>4. /\ call[c] = Fresh /\ Fresh \in Locals /\ Held(c) = {}
      /\ \A k \in Rows : Fresh.change[k] = 0
      /\ Fresh.found = {}
  BY <1>1, ReadyFacts
<1>5. S \subseteq StateRows /\ S \in SUBSET Rows
  BY <1>2, RowFacts
<1> HIDE DEF S
<1>6. /\ t \in Seq(Rows \X Int) /\ RowsIn(t) = S /\ DistinctRows(t)
      /\ \A i \in DOMAIN t : t[i][2] = 0
  BY <1>5, PlainSeq
<1>7. asked \in Seq(Products) /\ Distinct(asked) /\ ToSet(asked) = OrderedIn(r)
  <2>1. asked \in Seq(OrderedIn(r)) /\ Distinct(asked) /\ ToSet(asked) = OrderedIn(r)
    BY <1>2, InSeqs
  <2> QED BY <1>2, <2>1, SeqMonotonic
<1> HIDE DEF t
<1>8. call' = [call EXCEPT ![c] = m] /\ UNCHANGED <<committed, holder, request>>
  <2>1. call' = [call EXCEPT ![c].phase = "states", ![c].todo = t, ![c].asked = asked]
    BY <1>3 DEF t
  <2>2. UNCHANGED <<committed, holder, request>>
    BY DEF BeginOrder
  <2> QED BY <1>4, <2>1, <2>2 DEF IInv, TypeOK
<1>9. /\ m \in Locals /\ m.phase = "states" /\ m.todo = t /\ m.asked = asked
      /\ m.seen = Fresh.seen /\ m.change = Fresh.change /\ m.found = Fresh.found
      /\ TodoRows(m) = S
  BY <1>4, <1>6, <1>7 DEF Locals, Phases, TodoRows
<1> HIDE DEF m
<1>10. Quiet(m, {}) /\ PhaseOfKind(r, m) /\ Covered(m, {})
  BY <1>1, <1>4, <1>6, <1>9 DEF Quiet, PhaseOfKind, Covered, Ended
<1>11. Ordering(r, m)
  <2>1. \A k \in RackRows : m.change[k] = 0
    BY <1>4, <1>9, RowFacts
  <2> QED BY <1>6, <1>7, <1>9, <2>1 DEF Ordering
<1>12. LockingStates(r, m, {})
  BY <1>4, <1>7, <1>9 DEF LockingStates, S
<1>13. /\ PickingRacks(r, m, {}) /\ PickingProduct(m) /\ Counting(m, {}) /\ Legs(r, m, {})
       /\ RacksInOrder(r, m, {})
  BY <1>1, <1>9 DEF PickingRacks, PickingProduct, Counting, Legs, RacksInOrder
<1>14. StatesFirst(r, m, {})
  <2>1. \A i \in DOMAIN t : t[i][1] \in S
    BY <1>6 DEF RowsIn
  <2> QED BY <1>5, <1>9, <2>1, RowFacts DEF StatesFirst
<1>15. Good(request[c], m, Held(c))
  BY <1>4, <1>10, <1>11, <1>12, <1>13, <1>14 DEF Good
<1> QED BY <1>4, <1>8, <1>9, <1>15, LocalStep

LEMMA CheckStockStep ==
  ASSUME IInv, NEW c \in Calls, CheckStock(c)
  PROVE  IInv'
<1> DEFINE r == request[c]
           l == call[c]
           H == Held(c)
           ch == [k \in Rows |-> IF k[2] = 0 THEN -Units(c)[k[1]] ELSE 0]
           m == [l EXCEPT !.phase = "pick", !.change = ch]
<1>1. r.kind = "order" /\ l.phase = "states" /\ l.todo = <<>> /\ l \in Locals
      /\ UNCHANGED <<committed, request>>
  BY DEF CheckStock, Is, Idle, IInv, TypeOK
<1>2. CASE End(c, "refused")
  <2>1. UNCHANGED <<count, rows, logged, session, request>> /\ live' \subseteq Racks
    BY <1>1 DEF committed, IInv, TypeOK
  <2> QED BY <1>2, <2>1, EndStep DEF Ended
<1>3. CASE ~End(c, "refused")
  <2>1. call' = [call EXCEPT ![c] = m] /\ UNCHANGED <<committed, holder, request>>
    <3>1. call' = [call EXCEPT ![c].phase = "pick", ![c].change = ch] /\ UNCHANGED holder
      BY <1>3 DEF CheckStock
    <3> QED BY <1>1, <3>1 DEF IInv, TypeOK
  <2>2. r.units \in [Products -> Nat] /\ Units(c) = r.units
    BY <1>1, OrderFacts
  <2>3. /\ ch \in Counts
        /\ \A k \in RackRows : ch[k] = 0
        /\ \A p \in Products : ch[State(p)] = -r.units[p]
        /\ \A k \in Rows : ch[k] # 0 => \E p \in OrderedIn(r) : k = State(p)
    <3>1. \A k \in Rows : r.units[k[1]] \in Nat
      BY <2>2, RowFacts
    <3>2. ch \in Counts
      BY <2>2, <3>1 DEF Counts
    <3>3. \A k \in RackRows : ch[k] = 0
      BY RowFacts
    <3>4. \A p \in Products : ch[State(p)] = -r.units[p]
      BY <2>2, RowFacts
    <3>5. ASSUME NEW k \in Rows, ch[k] # 0 PROVE \E p \in OrderedIn(r) : k = State(p)
      <4>1. k[2] = 0 /\ r.units[k[1]] > 0
        BY <2>2, <3>1, <3>5
      <4> QED BY <4>1, RowFacts DEF OrderedIn
    <3> QED BY <3>2, <3>3, <3>4, <3>5
  <2> HIDE DEF ch
  <2>4. /\ m \in Locals /\ m.phase = "pick" /\ m.change = ch /\ m.todo = <<>>
        /\ m.seen = l.seen /\ m.found = l.found /\ m.asked = l.asked
    BY <1>1, <2>3 DEF Locals, Phases
  <2> HIDE DEF m
  <2>5. Good(r, l, H)
    BY DEF IInv
  <2>6. DOMAIN m.todo = {} /\ TodoRows(m) = {} /\ TodoRows(l) = {} /\ DOMAIN l.todo = {}
    BY <1>1, <2>4 DEF TodoRows, RowsIn
  <2>7. /\ H = {State(p) : p \in OrderedIn(r)} /\ ToSet(l.asked) = OrderedIn(r)
        /\ l.found = {} /\ Distinct(l.asked)
    BY <1>1, <2>5, <2>6 DEF Good, LockingStates, Ordering
  <2>8. H \subseteq StateRows /\ H \cap RackRows = {}
    BY <1>1, <2>7, OrderFacts, RowFacts
  <2>9. Quiet(m, H) /\ PhaseOfKind(r, m) /\ Covered(m, H)
    BY <1>1, <2>3, <2>4, <2>6, <2>7, <2>8
       DEF Quiet, PhaseOfKind, Covered, Ended, DistinctRows
  <2>10. Ordering(r, m)
    BY <2>3, <2>4, <2>6, <2>7 DEF Ordering
  <2>11. PickingRacks(r, m, H)
    <3>1. \A k \in H : k[1] \in OrderedIn(r)
      BY <1>1, <2>7, OrderFacts, RowFacts
    <3> QED BY <2>3, <2>4, <2>6, <2>7, <3>1 DEF PickingRacks
  <2>12. /\ LockingStates(r, m, H) /\ PickingProduct(m) /\ Counting(m, H) /\ Legs(r, m, H)
         /\ RacksInOrder(r, m, H)
    BY <1>1, <2>4 DEF LockingStates, PickingProduct, Counting, Legs, RacksInOrder
  <2>13. StatesFirst(r, m, H)
    BY <2>6, <2>8 DEF StatesFirst
  <2>14. Good(r, m, H)
    BY <2>9, <2>10, <2>11, <2>12, <2>13 DEF Good
  <2> QED BY <2>1, <2>4, <2>14, LocalStep
<1> QED BY <1>2, <1>3

LEMMA FindRacksStep ==
  ASSUME IInv, NEW c \in Calls, FindRacks(c)
  PROVE  IInv'
<1> DEFINE r == request[c]
           l == call[c]
           H == Held(c)
           p == Head(l.asked)
           S == {k \in rows : k[1] = p /\ count[k] > 0}
<1>1. /\ r.kind = "order" /\ l.phase = "pick" /\ l.todo = <<>> /\ l.asked # <<>>
      /\ UNCHANGED <<committed, holder, request>>
  BY DEF FindRacks, Is, Idle
<1>2. PICK q \in SetToSeqs(S) :
         call' = [call EXCEPT ![c].phase = "picking", ![c].todo = Plain(q),
                              ![c].queue = q, ![c].found = @ \cup ToSet(q)]
  BY DEF FindRacks
<1>3. l \in Locals /\ l.asked \in Seq(Products) /\ l.found \subseteq RackRows /\ Good(r, l, H)
  BY DEF IInv, TypeOK, Locals
<1>4. S \subseteq RackRows /\ S \in SUBSET Rows /\ \A k \in S : k[1] = p
  BY RowFacts DEF IInv, TypeOK
<1> HIDE DEF S
<1> DEFINE t == Plain(q)
           m == [l EXCEPT !.phase = "picking", !.todo = t, !.queue = q, !.found = l.found \cup S]
<1>5. /\ t \in Seq(Rows \X Int) /\ RowsIn(t) = S /\ DistinctRows(t)
      /\ \A i \in DOMAIN t : t[i][2] = 0
  BY <1>4, PlainSeq
<1>6. q \in Seq(RackRows) /\ Distinct(q) /\ ToSet(q) = S
  <2>1. q \in Seq(S) /\ Distinct(q) /\ ToSet(q) = S
    BY <1>4, InSeqs, RowFacts, FS_Subset
  <2> QED BY <1>4, <2>1, SeqMonotonic
<1> HIDE DEF t
<1>7. call' = [call EXCEPT ![c] = m]
  <2>1. call' = [call EXCEPT ![c].phase = "picking", ![c].todo = t, ![c].queue = q,
                             ![c].found = @ \cup S]
    BY <1>2, <1>6 DEF t
  <2> QED BY <1>3, <2>1 DEF IInv, TypeOK
<1>8. /\ m \in Locals /\ m.phase = "picking" /\ m.todo = t /\ m.queue = q
      /\ m.found = l.found \cup S /\ m.asked = l.asked
      /\ m.seen = l.seen /\ m.change = l.change /\ TodoRows(m) = S
  <2>1. l.found \cup S \subseteq RackRows
    BY <1>3, <1>4
  <2> QED BY <1>3, <1>5, <1>6, <2>1 DEF Locals, Phases, TodoRows
<1> HIDE DEF m
<1>9. TodoRows(l) = {}
  BY <1>1 DEF TodoRows, RowsIn
<1>10. /\ ToSet(l.asked) = {p} \cup ToSet(Tail(l.asked)) /\ p \notin ToSet(Tail(l.asked))
       /\ Distinct(l.asked) /\ ToSet(l.asked) \subseteq OrderedIn(r)
  <2>1. Distinct(l.asked) /\ ToSet(l.asked) \subseteq OrderedIn(r)
    BY <1>1, <1>3 DEF Good, Ordering
  <2> QED BY <1>1, <1>3, <2>1, DistinctTail
<1> HIDE DEF p
<1>11. Quiet(m, H) /\ PhaseOfKind(r, m) /\ Covered(m, H)
  BY <1>1, <1>3, <1>5, <1>8 DEF Good, Quiet, PhaseOfKind, Covered, Ended
<1>12. Ordering(r, m)
  BY <1>1, <1>3, <1>5, <1>8 DEF Good, Ordering
<1>13. /\ \A j \in Products : l.change[State(j)] = -r.units[j]
       /\ \A j \in OrderedIn(r) : State(j) \in H
       /\ \A k \in H : k[1] \in OrderedIn(r)
       /\ l.found \subseteq H
       /\ \A j \in OrderedIn(r) \ ToSet(l.asked) : Settled(r, l, j)
       /\ \A k \in l.found : k[1] \notin ToSet(l.asked)
  BY <1>1, <1>3, <1>9 DEF Good, PickingRacks
<1>14. PickingRacks(r, m, H)
  <2>1. ASSUME NEW j \in OrderedIn(r) \ ToSet(l.asked) PROVE Settled(r, m, j)
    <3>1. Settled(r, l, j) /\ j # p
      BY <1>10, <1>13
    <3>2. \A k \in m.found : k[1] = j => k \in l.found
      BY <1>4, <1>8, <3>1
    <3> QED BY <1>8, <3>1, <3>2 DEF Settled
  <2>2. \A k \in S \cup H : k[1] \in OrderedIn(r)
    BY <1>4, <1>10, <1>13
  <2> QED BY <1>4, <1>8, <1>13, <2>1, <2>2 DEF PickingRacks
<1>15. PickingProduct(m)
  <2>1. {k \in m.found : k[1] = p} = S
    BY <1>4, <1>8, <1>10, <1>13
  <2>2. \A k \in m.found : k[1] \notin ToSet(Tail(l.asked))
    BY <1>4, <1>8, <1>10, <1>13
  <2> QED BY <1>1, <1>4, <1>6, <1>8, <2>1, <2>2 DEF PickingProduct, p
<1>16. /\ LockingStates(r, m, H) /\ Counting(m, H) /\ Legs(r, m, H) /\ RacksInOrder(r, m, H)
  BY <1>1, <1>8 DEF LockingStates, Counting, Legs, RacksInOrder
<1>17. StatesFirst(r, m, H)
  <2>1. \A i \in DOMAIN t : t[i][1] \in S /\ t[i][1] \notin StateRows
    BY <1>4, <1>5, RowFacts DEF RowsIn
  <2>2. \A k \in RackRows : k \in S \cup H => State(k[1]) \in H
    BY <1>4, <1>10, <1>13
  <2> QED BY <1>8, <2>1, <2>2 DEF StatesFirst
<1>18. Good(r, m, H)
  BY <1>11, <1>12, <1>14, <1>15, <1>16, <1>17 DEF Good
<1> QED BY <1>1, <1>7, <1>8, <1>18, LocalStep

\* The first of the numbers up to n that are in D.
LEMMA FirstOf ==
  ASSUME NEW n \in Nat, NEW D \in SUBSET (1 .. n), D # {}
  PROVE  \E i \in D : \A j \in D : i <= j
<1> DEFINE S == 1 .. n
           Bad == {s \in SUBSET S : \E i \in D : s = 1 .. i}
<1>1. IsFiniteSet(S)
  BY FS_Interval
<1>2. Bad \in SUBSET (SUBSET S) /\ Bad # {}
  <2>1. PICK i \in D : TRUE
    OBVIOUS
  <2>2. 1 .. i \in Bad
    BY <2>1
  <2> QED BY <2>2
<1>3. PICK s \in Bad : \A t \in SUBSET s : t # s => t \notin Bad
  <2> HIDE DEF Bad, S
  <2> QED BY <1>1, <1>2, MinimalSubset
<1>4. PICK i \in D : s = 1 .. i
  BY <1>3
<1>5. ASSUME NEW j \in D, j < i PROVE FALSE
  <2>1. 1 .. j \in SUBSET s /\ i \in s /\ i \notin 1 .. j
    BY <1>4, <1>5
  <2>2. 1 .. j \in Bad
    BY <1>5, <2>1
  <2> QED BY <1>3, <2>1, <2>2
<1>6. \A j \in D : i <= j
  BY <1>5
<1> QED BY <1>4, <1>6

\* The greedy loop over n racks that hold h, for an order of U units.
IsGreedy(take, h, U, n) ==
    \A i \in 1 .. n :
        LET open == U - SumFunctionOnSet(h, 1 .. (i - 1))
        IN  take[i] = IF open <= 0 THEN 0 ELSE IF h[i] < open THEN h[i] ELSE open

\* It takes all it is asked for, or all there is; and from a rack only what the
\* racks before it do not have.
LEMMA Greedy ==
  ASSUME NEW n \in Nat, NEW h \in [1 .. n -> Nat], NEW U \in Nat, NEW take,
         IsGreedy(take, h, U, n)
  PROVE  /\ \A i \in 1 .. n : take[i] \in Nat /\ take[i] <= h[i]
         /\ \/ SumFunctionOnSet(take, 1 .. n) = U
            \/ /\ SumFunctionOnSet(take, 1 .. n) < U
               /\ \A i \in 1 .. n : take[i] = h[i]
         /\ \A i, j \in 1 .. n : i < j /\ take[j] # 0 => take[i] = h[i]
<1> DEFINE B(i) == SumFunctionOnSet(h, 1 .. (i - 1))
<1>1. \A i \in 1 .. n + 1 : IsFiniteSet(1 .. (i - 1)) /\ 1 .. (i - 1) \subseteq 1 .. n
  BY FS_Interval
<1>2. \A i \in 1 .. n + 1 : B(i) \in Nat
  <2> SUFFICES ASSUME NEW i \in 1 .. n + 1 PROVE B(i) \in Nat
    OBVIOUS
  <2>1. \A x \in 1 .. (i - 1) : h[x] \in Nat
    BY <1>1
  <2> QED BY <1>1, <2>1, SumNat
<1>3. B(1) = 0
  <2>1. 1 .. (1 - 1) = {}
    OBVIOUS
  <2> QED BY <2>1, SumUnfold, FS_EmptySet
<1>4. ASSUME NEW i \in 1 .. n PROVE B(i + 1) = B(i) + h[i]
  <2> DEFINE T == 1 .. i
  <2>1. T \ {i} = 1 .. (i - 1) /\ i \in T /\ (i + 1) - 1 = i
    OBVIOUS
  <2>2. IsFiniteSet(T) /\ \A x \in T : h[x] \in Int
    BY FS_Interval
  <2> HIDE DEF T
  <2>3. SumFunctionOnSet(h, T) = h[i] + SumFunctionOnSet(h, T \ {i})
    BY <2>1, <2>2, SumRemove
  <2>4. h[i] \in Nat /\ B(i) \in Nat /\ B(i + 1) = SumFunctionOnSet(h, T)
    <3>1. h[i] \in Nat
      OBVIOUS
    <3>2. B(i) \in Nat
      BY <1>2
    <3>3. B(i + 1) = SumFunctionOnSet(h, T)
      BY <2>1 DEF T
    <3> QED BY <3>1, <3>2, <3>3
  <2> HIDE DEF B
  <2>5. B(i + 1) = h[i] + B(i)
    BY <2>1, <2>3, <2>4 DEF B
  <2> QED BY <2>4, <2>5
<1>5. ASSUME NEW i \in 1 .. n, NEW j \in 1 .. n, i < j PROVE B(i) + h[i] <= B(j)
  <2> DEFINE S == 1 .. i
             T == (i + 1) .. (j - 1)
  <2>1. S \cup T = 1 .. (j - 1) /\ S \cap T = {} /\ (i + 1) - 1 = i
    BY <1>5
  <2>2. IsFiniteSet(S) /\ IsFiniteSet(T)
    BY FS_Interval
  <2>3. \A x \in S \cup T : h[x] \in Nat /\ h[x] \in Int
    BY <2>1
  <2>4. SumFunctionOnSet(h, S \cup T) = SumFunctionOnSet(h, S) + SumFunctionOnSet(h, T)
    <3> HIDE DEF S, T
    <3> QED BY <2>1, <2>2, <2>3, SumDisjoint
  <2>5. SumFunctionOnSet(h, T) \in Nat /\ SumFunctionOnSet(h, S) \in Nat
    <3> HIDE DEF S, T
    <3> QED BY <2>2, <2>3, SumNat
  <2>6. B(j) = SumFunctionOnSet(h, S \cup T)
    BY <2>1
  <2>7. B(i + 1) = SumFunctionOnSet(h, S)
    BY <2>1
  <2>8. B(i + 1) = B(i) + h[i]
    BY <1>4
  <2> HIDE DEF B, S, T
  <2> QED BY <2>4, <2>5, <2>6, <2>7, <2>8
<1>6. ASSUME NEW i \in 1 .. n
      PROVE  /\ h[i] \in Nat /\ B(i) \in Nat
             /\ take[i] = IF U - B(i) <= 0 THEN 0
                          ELSE IF h[i] < U - B(i) THEN h[i] ELSE U - B(i)
  BY <1>2 DEF IsGreedy
<1> HIDE DEF B
<1>7. \A i \in 1 .. n : take[i] \in Nat /\ take[i] <= h[i]
  BY <1>6
<1>8. ASSUME NEW i \in 1 .. n, B(i) + h[i] <= U PROVE take[i] = h[i]
  <2> DEFINE b == B(i)
             x == h[i]
  <2>1. x \in Nat /\ b \in Nat /\ b + x <= U
    BY <1>6, <1>8
  <2>2. take[i] = IF U - b <= 0 THEN 0 ELSE IF x < U - b THEN x ELSE U - b
    BY <1>6
  <2> HIDE DEF b, x
  <2>3. take[i] = x
    BY <2>1, <2>2
  <2> QED BY <2>3 DEF x
<1> DEFINE D == {i \in 1 .. n : B(i) + h[i] > U}
           AllOrNothingLeft == \/ SumFunctionOnSet(take, 1 .. n) = U
                               \/ /\ SumFunctionOnSet(take, 1 .. n) < U
                                  /\ \A i \in 1 .. n : take[i] = h[i]
<1>9. ASSUME D = {} PROVE AllOrNothingLeft
  <2>1. ASSUME NEW i \in 1 .. n PROVE B(i) + h[i] <= U
    <3>1. B(i) \in Nat /\ h[i] \in Nat /\ i \notin D
      BY <1>6, <1>9
    <3>2. ~(B(i) + h[i] > U)
      BY <3>1
    <3> QED BY <3>1, <3>2
  <2>2. \A i \in 1 .. n : take[i] = h[i] /\ take[i] \in Int
    BY <1>6, <1>8, <2>1
  <2>3. SumFunctionOnSet(take, 1 .. n) = SumFunctionOnSet(h, 1 .. n)
    <3>1. IsFiniteSet(1 .. n)
      BY FS_Interval
    <3> QED BY <2>2, <3>1, SumCongruent
  <2>4. SumFunctionOnSet(h, 1 .. n) = B(n + 1)
    BY DEF B
  <2>5. B(n + 1) <= U
    <3>1. CASE n = 0
      BY <1>3, <3>1
    <3>2. CASE n # 0
      BY <1>4, <2>1, <3>2
    <3> QED BY <3>1, <3>2
  <2>6. B(n + 1) \in Nat
    BY <1>2
  <2> QED BY <1>7, <2>2, <2>3, <2>4, <2>5, <2>6
<1>10. ASSUME D # {} PROVE AllOrNothingLeft
  <2>1. PICK i \in D : \A j \in D : i <= j
    <3>1. D \in SUBSET (1 .. n)
      OBVIOUS
    <3> HIDE DEF D
    <3> QED BY <1>10, <3>1, FirstOf
  <2>2. i \in 1 .. n /\ B(i) + h[i] > U
    BY <2>1
  <2>3. \A j \in 1 .. (i - 1) : j \in 1 .. n /\ take[j] = h[j] /\ take[j] \in Int
    <3> SUFFICES ASSUME NEW j \in 1 .. (i - 1)
                 PROVE  j \in 1 .. n /\ take[j] = h[j] /\ take[j] \in Int
      OBVIOUS
    <3>1. j \in 1 .. n /\ j < i
      BY <2>2
    <3>2. j \notin D
      BY <2>1, <2>2, <3>1
    <3>3. B(j) + h[j] <= U
      BY <1>6, <3>1, <3>2
    <3> QED BY <1>6, <1>8, <3>1, <3>3
  <2>4. B(i) <= U
    <3>1. CASE i = 1
      BY <1>3, <3>1
    <3>2. CASE i # 1
      <4>1. i - 1 \in 1 .. n /\ i - 1 \notin D /\ (i - 1) + 1 = i
        BY <2>1, <2>2, <3>2
      <4>2. B(i - 1) + h[i - 1] <= U
        BY <1>6, <4>1
      <4>3. B((i - 1) + 1) = B(i - 1) + h[i - 1]
        BY <1>4, <4>1
      <4> QED BY <4>1, <4>2, <4>3
    <3> QED BY <3>1, <3>2
  <2>5. take[i] = U - B(i)
    BY <1>6, <2>2, <2>4
  <2>6. \A j \in (i + 1) .. n : j \in 1 .. n /\ take[j] = 0
    <3> SUFFICES ASSUME NEW j \in (i + 1) .. n PROVE j \in 1 .. n /\ take[j] = 0
      OBVIOUS
    <3>1. j \in 1 .. n /\ i < j
      BY <2>2
    <3>2. B(i) + h[i] <= B(j)
      BY <1>5, <2>2, <3>1
    <3> QED BY <1>6, <2>2, <3>1, <3>2
  <2> DEFINE S == 1 .. (i - 1)
             T == (i + 1) .. n
  <2>7. IsFiniteSet(S) /\ IsFiniteSet(T) /\ IsFiniteSet(1 .. n)
    BY <2>2, FS_Interval
  <2>8. SumFunctionOnSet(take, S) = B(i)
    <3>1. SumFunctionOnSet(take, S) = SumFunctionOnSet(h, S)
      <4> HIDE DEF S
      <4> QED BY <2>3, <2>7, SumCongruent DEF S
    <3> QED BY <3>1 DEF B
  <2>9. SumFunctionOnSet(take, T) = 0
    BY <2>6, <2>7, SumZero
  <2>10. \A x \in 1 .. n : take[x] \in Int
    BY <1>7
  <2>11. SumFunctionOnSet(take, 1 .. n) = take[i] + SumFunctionOnSet(take, (1 .. n) \ {i})
    <3> DEFINE N == 1 .. n
    <3>1. i \in N /\ IsFiniteSet(N) /\ \A x \in N : take[x] \in Int
      BY <2>2, <2>7, <2>10
    <3> HIDE DEF N, S, T, D
    <3>2. SumFunctionOnSet(take, N) = take[i] + SumFunctionOnSet(take, N \ {i})
      BY <3>1, SumRemove
    <3> QED BY <3>2 DEF N
  <2>12. (1 .. n) \ {i} = S \cup T /\ S \cap T = {}
    BY <2>2
  <2>13. SumFunctionOnSet(take, S \cup T) = SumFunctionOnSet(take, S) + SumFunctionOnSet(take, T)
    <3>1. \A x \in S \cup T : take[x] \in Int
      BY <2>10, <2>12
    <3> HIDE DEF S, T
    <3> QED BY <2>7, <2>12, <3>1, SumDisjoint
  <2>14. B(i) \in Nat
    BY <1>6, <2>2
  <2> HIDE DEF S, T, D
  <2>15. SumFunctionOnSet(take, 1 .. n) = U
    <3>1. SumFunctionOnSet(take, (1 .. n) \ {i}) = SumFunctionOnSet(take, S \cup T)
      BY <2>12
    <3>2. SumFunctionOnSet(take, S \cup T) = B(i)
      BY <2>8, <2>9, <2>13, <2>14
    <3>3. SumFunctionOnSet(take, 1 .. n) = (U - B(i)) + B(i)
      BY <2>5, <2>11, <3>1, <3>2
    <3> QED BY <2>14, <3>3
  <2> QED BY <1>7, <2>15
<1>11. ASSUME NEW i \in 1 .. n, NEW j \in 1 .. n, i < j, take[j] # 0 PROVE take[i] = h[i]
  <2>1. B(i) + h[i] <= B(j)
    BY <1>5, <1>11
  <2>2. B(j) < U
    BY <1>6, <1>11
  <2>3. B(i) + h[i] <= U
    BY <1>6, <2>1, <2>2
  <2> QED BY <1>8, <2>3
<1>12. AllOrNothingLeft
  BY <1>9, <1>10
<1>13. \A i, j \in 1 .. n : i < j /\ take[j] # 0 => take[i] = h[i]
  BY <1>11
<1> HIDE DEF D
<1> QED BY <1>7, <1>12, <1>13

\* What an order takes of the product it picks: from each rack of the queue
\* what Picks says, from no other row anything.
LEMMA TakeEffect ==
  ASSUME IInv, NEW c \in Calls, TakeFromRacks(c)
  PROVE  LET r == request[c]
             l == call[c]
             p == Head(l.asked)
             q == l.queue
             take == Picks(c, p)
             ch == [k \in Rows |-> l.change[k] - SumFunctionOnSet(take,
                                                    {i \in DOMAIN take : q[i] = k})]
         IN  /\ l \in Locals /\ l.phase = "picking" /\ l.todo = <<>> /\ r.kind = "order"
             /\ l.asked \in Seq(Products) /\ l.asked # <<>> /\ p \in OrderedIn(r)
             /\ ToSet(l.asked) = {p} \cup ToSet(Tail(l.asked)) /\ p \notin ToSet(Tail(l.asked))
             /\ Distinct(Tail(l.asked))
             /\ ToSet(q) = {k \in l.found : k[1] = p} /\ ToSet(q) \subseteq Held(c)
             /\ ch \in Counts
             /\ \A k \in Rows \ ToSet(q) : ch[k] = l.change[k]
             /\ \A k \in ToSet(q) : /\ k \in RackRows /\ k[1] = p /\ l.change[k] = 0
                                    /\ ch[k] <= 0 /\ l.seen[k] + ch[k] >= 0
             /\ \/ -SumFunctionOnSet(ch, RacksOf(p)) = r.units[p]
                \/ /\ -SumFunctionOnSet(ch, RacksOf(p)) < r.units[p]
                   /\ \A k \in ToSet(q) : l.seen[k] + ch[k] = 0
             /\ \A i, j \in DOMAIN q :
                   i < j /\ ch[q[j]] # 0 => ch[q[i]] = -l.seen[q[i]]
<1> DEFINE r == request[c]
           l == call[c]
           p == Head(l.asked)
           q == l.queue
           take == Picks(c, p)
           of(k) == {i \in DOMAIN take : q[i] = k}
           ch == [k \in Rows |-> l.change[k] - SumFunctionOnSet(take, of(k))]
<1>1. /\ l.phase = "picking" /\ l.todo = <<>> /\ r.kind = "order" /\ l \in Locals
      /\ l.asked \in Seq(Products) /\ q \in Seq(RackRows) /\ l.change \in Counts
      /\ l.seen \in Counts /\ Good(r, l, Held(c)) /\ l.found \subseteq RackRows
  BY DEF TakeFromRacks, Is, Idle, IInv, TypeOK, Locals
<1>2. TodoRows(l) = {}
  BY <1>1 DEF TodoRows, RowsIn
<1>3. /\ l.asked # <<>> /\ Distinct(q) /\ ToSet(q) = {k \in l.found : k[1] = p}
  BY <1>1 DEF Good, PickingProduct
<1>4. Distinct(l.asked) /\ ToSet(l.asked) \subseteq OrderedIn(r)
  BY <1>1 DEF Good, Ordering
<1>5. /\ ToSet(l.asked) = {p} \cup ToSet(Tail(l.asked)) /\ p \notin ToSet(Tail(l.asked))
      /\ Distinct(Tail(l.asked)) /\ p \in OrderedIn(r)
  <2>1. /\ ToSet(l.asked) = {p} \cup ToSet(Tail(l.asked)) /\ p \notin ToSet(Tail(l.asked))
        /\ Distinct(Tail(l.asked))
    BY <1>1, <1>3, <1>4, DistinctTail
  <2> QED BY <1>4, <2>1
<1>6. ToSet(q) \subseteq Held(c)
  BY <1>1, <1>2, <1>3 DEF Good, PickingRacks
<1>7. p \in Products /\ r.units[p] \in Nat /\ Units(c) = r.units
  BY <1>1, <1>5, OrderFacts
<1>8. \A k \in RackRows : k[1] = p => l.change[k] = 0
  BY <1>1, <1>5 DEF Good, Ordering
<1>9. \A k \in ToSet(q) : k \in RackRows /\ k \in Rows /\ k[1] = p /\ l.change[k] = 0
                          /\ l.seen[k] \in Int /\ l.seen[k] >= 0
  <2>1. \A k \in ToSet(q) : k \in RackRows /\ k \in Rows /\ k[1] = p /\ l.change[k] = 0
    BY <1>1, <1>3, <1>8, RowFacts
  <2>2. \A k \in ToSet(q) : l.seen[k] + l.change[k] >= 0
    BY <1>1, <1>6, <2>1 DEF Good, Covered, Ended
  <2>3. \A k \in ToSet(q) : l.seen[k] \in Int
    BY <1>1, <2>1 DEF Counts
  <2> QED BY <2>1, <2>2, <2>3
<1> DEFINE n == Len(q)
           h == [j \in DOMAIN q |-> l.seen[q[j]]]
<1>10. n \in Nat /\ DOMAIN q = 1 .. n /\ IsFiniteSet(1 .. n)
  <2>1. q \in Seq(RackRows)
    BY <1>1
  <2>2. n \in Nat /\ DOMAIN q = 1 .. n
    BY <2>1, LenProperties
  <2> QED BY <2>2, FS_Interval
<1>11. h \in [1 .. n -> Nat] /\ \A j \in 1 .. n : h[j] = l.seen[q[j]]
  BY <1>9, <1>10 DEF ToSet
<1>12. DOMAIN take = 1 .. n /\ IsGreedy(take, h, r.units[p], n)
  BY <1>7, <1>10 DEF Picks, HeldBefore, IsGreedy
<1> HIDE DEF n, h, take, p, q
<1>13. /\ \A i \in 1 .. n : take[i] \in Nat /\ take[i] <= h[i]
       /\ \/ SumFunctionOnSet(take, 1 .. n) = r.units[p]
          \/ /\ SumFunctionOnSet(take, 1 .. n) < r.units[p]
             /\ \A i \in 1 .. n : take[i] = h[i]
       /\ \A i, j \in 1 .. n : i < j /\ take[j] # 0 => take[i] = h[i]
  BY <1>7, <1>10, <1>11, <1>12, Greedy
<1>14. ASSUME NEW j \in 1 .. n PROVE of(q[j]) = {j} /\ SumFunctionOnSet(take, of(q[j])) = take[j]
  <2>1. of(q[j]) = {j}
    BY <1>3, <1>10, <1>12 DEF Distinct
  <2>2. take[j] \in Int
    BY <1>13
  <2>3. SumFunctionOnSet(take, {j}) = take[j]
    BY <2>2, SumOne
  <2> QED BY <2>1, <2>3
<1>15. ASSUME NEW k \in Rows, k \notin ToSet(q) PROVE SumFunctionOnSet(take, of(k)) = 0
  <2>1. of(k) = {}
    BY <1>10, <1>12, <1>15 DEF ToSet
  <2> QED BY <2>1, SumUnfold, FS_EmptySet
<1>16. \A k \in ToSet(q) : \E j \in 1 .. n : k = q[j]
  BY <1>10 DEF ToSet
<1>17. \A k \in Rows : l.change[k] \in Int
  BY <1>1 DEF Counts
<1>18. \A k \in Rows \ ToSet(q) : ch[k] = l.change[k]
  BY <1>15, <1>17
<1>19. ASSUME NEW j \in 1 .. n PROVE q[j] \in ToSet(q) /\ ch[q[j]] = -take[j]
  <2>1. q[j] \in ToSet(q)
    BY <1>10 DEF ToSet
  <2> QED BY <1>9, <1>13, <1>14, <2>1
<1>20. ASSUME NEW k \in ToSet(q)
       PROVE  /\ ch[k] <= 0 /\ ch[k] \in Int /\ l.seen[k] + ch[k] >= 0
              /\ (\A i \in 1 .. n : take[i] = h[i]) => l.seen[k] + ch[k] = 0
  <2>1. PICK j \in 1 .. n : k = q[j]
    BY <1>16
  <2>2. ch[k] = -take[j] /\ l.seen[k] = h[j] /\ take[j] \in Nat /\ take[j] <= h[j] /\ h[j] \in Nat
    BY <1>11, <1>13, <1>19, <2>1
  <2> HIDE DEF ch
  <2> QED BY <2>2
<1>21. ch \in Counts
  <2>1. \A k \in Rows : ch[k] \in Int
    BY <1>17, <1>18, <1>20
  <2> HIDE DEF of
  <2>2. ch = [k \in Rows |-> ch[k]]
    OBVIOUS
  <2> HIDE DEF ch
  <2> QED BY <2>1, <2>2 DEF Counts
<1>22. -SumFunctionOnSet(ch, RacksOf(p)) = SumFunctionOnSet(take, 1 .. n)
  <2> DEFINE R == RacksOf(p)
             G == [k \in R |-> of(k)]
             part == [k \in R |-> SumFunctionOnSet(take, G[k])]
             zero == [k \in R |-> 0]
  <2>1. IsFiniteSet(R) /\ R \subseteq RackRows
    BY <1>7, RowFacts
  <2>2. \A k \in R : k \in Rows /\ k[1] = p /\ k \in RackRows
    BY <2>1, RowFacts DEF RacksOf
  <2>3. G \in [R -> SUBSET (1 .. n)]
    BY <1>12
  <2>4. \A i, j \in R : i # j => G[i] \cap G[j] = {}
    OBVIOUS
  <2>5. UNION {G[k] : k \in R} = 1 .. n
    <3>1. \A j \in 1 .. n : q[j] \in R /\ j \in G[q[j]]
      <4>1. \A j \in 1 .. n : q[j] \in RackRows /\ q[j][1] = p
        BY <1>9, <1>19
      <4>2. \A j \in 1 .. n : q[j] \in R
        BY <4>1 DEF RackRows, RacksOf
      <4> QED BY <1>12, <4>2
    <3>2. \A k \in R : G[k] \subseteq 1 .. n
      BY <2>3
    <3> HIDE DEF G
    <3> QED BY <3>1, <3>2
  <2>6. \A x \in 1 .. n : take[x] \in Int
    BY <1>13
  <2>7. SumFunctionOnSet(take, UNION {G[k] : k \in R}) = SumFunctionOnSet(part, R)
    <3> DEFINE S == 1 .. n
    <3>1. G \in [R -> SUBSET S] /\ IsFiniteSet(S) /\ \A x \in S : take[x] \in Int
      BY <1>10, <2>3, <2>6
    <3> HIDE DEF G, S, R
    <3> QED BY <2>1, <2>4, <3>1, SumGroups
  <2>8. ASSUME NEW k \in R PROVE part[k] \in Int /\ ch[k] \in Int /\ zero[k] = part[k] + ch[k]
    <3>1. part[k] = SumFunctionOnSet(take, of(k)) /\ k \in Rows
      BY <2>2, <2>8
    <3>2. l.change[k] = 0
      BY <1>8, <2>2, <2>8
    <3>3. part[k] \in Int
      <4>1. CASE k \in ToSet(q)
        BY <1>13, <1>14, <1>16, <3>1, <4>1
      <4>2. CASE k \notin ToSet(q)
        BY <1>15, <3>1, <4>2
      <4> QED BY <4>1, <4>2
    <3>4. ch[k] = l.change[k] - part[k]
      BY <3>1
    <3>5. zero[k] = 0
      BY <2>8
    <3> HIDE DEF zero, part, ch
    <3> QED BY <3>2, <3>3, <3>4, <3>5
  <2>9. SumFunctionOnSet(zero, R) = 0
    BY <2>1, SumZero
  <2> HIDE DEF zero, part, ch, R, G
  <2>10. SumFunctionOnSet(zero, R) = SumFunctionOnSet(part, R) + SumFunctionOnSet(ch, R)
    BY <2>1, <2>8, SumAdd
  <2>11. SumFunctionOnSet(part, R) \in Int /\ SumFunctionOnSet(ch, R) \in Int
    BY <2>1, <2>8, SumRemove
  <2>12. SumFunctionOnSet(part, R) = SumFunctionOnSet(take, 1 .. n)
    BY <2>5, <2>7
  <2>13. -SumFunctionOnSet(ch, R) = SumFunctionOnSet(take, 1 .. n)
    BY <2>9, <2>10, <2>11, <2>12
  <2> QED BY <2>13 DEF R
<1>23. \/ -SumFunctionOnSet(ch, RacksOf(p)) = r.units[p]
       \/ /\ -SumFunctionOnSet(ch, RacksOf(p)) < r.units[p]
          /\ \A k \in ToSet(q) : l.seen[k] + ch[k] = 0
  BY <1>13, <1>20, <1>22
<1> HIDE DEF ch
<1>24. \A k \in ToSet(q) : /\ k \in RackRows /\ k[1] = p /\ l.change[k] = 0
                           /\ ch[k] <= 0 /\ l.seen[k] + ch[k] >= 0
  BY <1>9, <1>20
<1>25. \A i, j \in DOMAIN q : i < j /\ ch[q[j]] # 0 => ch[q[i]] = -l.seen[q[i]]
  <2> SUFFICES ASSUME NEW i \in 1 .. n, NEW j \in 1 .. n, i < j, ch[q[j]] # 0
               PROVE  ch[q[i]] = -l.seen[q[i]]
    BY <1>10
  <2>1. ch[q[j]] = -take[j] /\ ch[q[i]] = -take[i] /\ take[j] \in Nat
    BY <1>13, <1>19
  <2>2. take[i] = h[i]
    BY <1>13, <2>1
  <2> QED BY <1>11, <2>1, <2>2
<1> QED BY <1>1, <1>3, <1>5, <1>6, <1>18, <1>21, <1>23, <1>24, <1>25 DEF ch, p, q, take

LEMMA TakeFromRacksStep ==
  ASSUME IInv, NEW c \in Calls, TakeFromRacks(c)
  PROVE  IInv'
<1> DEFINE r == request[c]
           l == call[c]
           H == Held(c)
           p == Head(l.asked)
           q == l.queue
           take == Picks(c, p)
           ch == [k \in Rows |-> l.change[k] - SumFunctionOnSet(take,
                                                  {i \in DOMAIN take : q[i] = k})]
           m == [l EXCEPT !.phase = "pick", !.asked = Tail(l.asked), !.queue = <<>>,
                          !.change = ch]
<1>1. /\ l \in Locals /\ l.phase = "picking" /\ l.todo = <<>> /\ r.kind = "order"
      /\ l.asked \in Seq(Products) /\ l.asked # <<>> /\ p \in OrderedIn(r)
      /\ ToSet(l.asked) = {p} \cup ToSet(Tail(l.asked)) /\ p \notin ToSet(Tail(l.asked))
      /\ Distinct(Tail(l.asked))
      /\ ToSet(q) = {k \in l.found : k[1] = p} /\ ToSet(q) \subseteq H
      /\ ch \in Counts
      /\ \A k \in Rows \ ToSet(q) : ch[k] = l.change[k]
      /\ \A k \in ToSet(q) : /\ k \in RackRows /\ k[1] = p /\ l.change[k] = 0
                             /\ ch[k] <= 0 /\ l.seen[k] + ch[k] >= 0
      /\ \/ -SumFunctionOnSet(ch, RacksOf(p)) = r.units[p]
         \/ /\ -SumFunctionOnSet(ch, RacksOf(p)) < r.units[p]
            /\ \A k \in ToSet(q) : l.seen[k] + ch[k] = 0
  BY TakeEffect
<1>2. /\ UNCHANGED <<committed, holder, request>>
      /\ call' = [call EXCEPT ![c].phase = "pick", ![c].asked = Tail(@), ![c].queue = <<>>,
                       ![c].change = [k \in Rows |-> @[k] - SumFunctionOnSet(take,
                           {i \in DOMAIN take : call[c].queue[i] = k})]]
  BY DEF TakeFromRacks
<1>3. call' = [call EXCEPT ![c] = m]
  BY <1>1, <1>2 DEF IInv, TypeOK, Locals
<1> HIDE DEF ch, take, p, q
<1>4. /\ m \in Locals /\ m.phase = "pick" /\ m.asked = Tail(l.asked) /\ m.change = ch
      /\ m.todo = <<>> /\ m.seen = l.seen /\ m.found = l.found
  <2>1. Tail(l.asked) \in Seq(Products) /\ <<>> \in Seq(RackRows)
    BY <1>1, HeadAndTail, EmptySeq
  <2> QED BY <1>1, <2>1 DEF Locals, Phases
<1> HIDE DEF m
<1>5. Good(r, l, H)
  BY DEF IInv
<1>6. DOMAIN m.todo = {} /\ TodoRows(m) = {} /\ TodoRows(l) = {} /\ DOMAIN l.todo = {}
  BY <1>1, <1>4 DEF TodoRows, RowsIn
<1>7. /\ \A k \in Rows : l.change[k] # 0 => k \in H
      /\ \A k \in H \cap RackRows : l.seen[k] + l.change[k] >= 0
  BY <1>1, <1>5 DEF Good, Covered, Ended
<1>8. Covered(m, H)
  <2>1. \A k \in Rows : ch[k] # 0 => k \in H
    BY <1>1, <1>7
  <2>2. \A k \in H \cap RackRows : k \in Rows /\ l.seen[k] + ch[k] >= 0
    BY <1>1, <1>7, RowFacts
  <2> QED BY <1>4, <2>1, <2>2 DEF Covered
<1>9. Quiet(m, H) /\ PhaseOfKind(r, m)
  BY <1>1, <1>4, <1>6 DEF Quiet, PhaseOfKind, Ended, DistinctRows
<1>10. /\ ToSet(l.asked) \subseteq OrderedIn(r)
       /\ \A k \in RackRows : /\ l.change[k] <= 0
                              /\ l.change[k] # 0 => k[1] \in OrderedIn(r) \ ToSet(l.asked)
  BY <1>1, <1>5 DEF Good, Ordering
<1>11. Ordering(r, m)
  <2>1. ASSUME NEW k \in RackRows
        PROVE  ch[k] <= 0 /\ (ch[k] # 0 => k[1] \in OrderedIn(r) \ ToSet(Tail(l.asked)))
    <3>1. k \in Rows
      BY RowFacts
    <3>2. CASE k \in ToSet(q)
      BY <1>1, <3>2
    <3>3. CASE k \notin ToSet(q)
      BY <1>1, <1>10, <3>1, <3>3
    <3> QED BY <3>2, <3>3
  <2> QED BY <1>1, <1>4, <1>6, <1>10, <2>1 DEF Ordering
<1>12. /\ \A j \in Products : l.change[State(j)] = -r.units[j]
       /\ \A j \in OrderedIn(r) : State(j) \in H
       /\ \A k \in H : k[1] \in OrderedIn(r)
       /\ l.found \subseteq H
       /\ \A j \in OrderedIn(r) \ ToSet(l.asked) : Settled(r, l, j)
  BY <1>1, <1>5, <1>6 DEF Good, PickingRacks
<1>13. \A k \in l.found : k[1] \notin ToSet(Tail(l.asked))
  BY <1>1, <1>5 DEF Good, PickingProduct
<1>14. \A j \in Products : ch[State(j)] = -r.units[j]
  <2>1. \A j \in Products : State(j) \in Rows \ ToSet(q)
    BY <1>1, RowFacts
  <2> QED BY <1>1, <1>12, <2>1
<1>15. ASSUME NEW j \in OrderedIn(r) \ ToSet(Tail(l.asked)) PROVE Settled(r, m, j)
  <2>1. CASE j = p
    BY <1>1, <1>4, <2>1 DEF Settled
  <2>2. CASE j # p
    <3>1. Settled(r, l, j)
      BY <1>1, <1>12, <1>15, <2>2
    <3>2. j \in Products
      BY DEF OrderedIn
    <3>3. \A k \in RacksOf(j) : k \in Rows /\ k \notin ToSet(q) /\ ch[k] = l.change[k] /\ ch[k] \in Int
      <4>1. \A k \in RacksOf(j) : k \in Rows /\ k[1] = j
        BY <3>2, RowFacts DEF RacksOf
      <4> QED BY <1>1, <2>2, <4>1 DEF Counts
    <3>4. SumFunctionOnSet(ch, RacksOf(j)) = SumFunctionOnSet(l.change, RacksOf(j))
      BY <3>2, <3>3, RowFacts, SumCongruent
    <3>5. \A k \in l.found : k[1] = j => ch[k] = l.change[k]
      <4>1. \A k \in l.found : k \in Rows
        BY <1>12 DEF Held
      <4> QED BY <1>1, <2>2, <4>1
    <3> QED BY <1>4, <3>1, <3>4, <3>5 DEF Settled
  <2> QED BY <2>1, <2>2
<1>16. PickingRacks(r, m, H)
  BY <1>4, <1>6, <1>12, <1>13, <1>14, <1>15 DEF PickingRacks
<1>17. /\ LockingStates(r, m, H) /\ PickingProduct(m) /\ Counting(m, H) /\ Legs(r, m, H)
       /\ RacksInOrder(r, m, H)
  BY <1>1, <1>4 DEF LockingStates, PickingProduct, Counting, Legs, RacksInOrder
<1>18. StatesFirst(r, m, H)
  <2>1. \A k \in RackRows : k \in H => State(k[1]) \in H
    BY <1>12
  <2> QED BY <1>6, <2>1 DEF StatesFirst
<1>19. Good(r, m, H)
  BY <1>8, <1>9, <1>11, <1>16, <1>17, <1>18 DEF Good
<1> QED BY <1>2, <1>3, <1>4, <1>19, LocalStep

-----------------------------------------------------------------------------
(* Stock-takes                                                              *)

LEMMA BeginCountStep ==
  ASSUME IInv, NEW c \in Calls, BeginCount(c)
  PROVE  IInv'
<1> DEFINE r == request[c]
           S == rows \cap ({k[1] : k \in DOMAIN Counted(c)} \X {k[2] : k \in DOMAIN Counted(c)})
<1>1. r.kind = "count" /\ call[c].phase = "ready" /\ UNCHANGED <<committed, holder, request>>
  BY DEF BeginCount, Is
<1>2. PICK existing \in SetToSeqs(S) :
         call' = [call EXCEPT ![c].phase = "counting", ![c].todo = Plain(existing),
                              ![c].found = ToSet(existing)]
  BY DEF BeginCount
<1>3. /\ call[c] = Fresh /\ Fresh \in Locals /\ Held(c) = {}
      /\ \A k \in Rows : Fresh.change[k] = 0
  BY <1>1, ReadyFacts
<1>4. S \subseteq RackRows /\ S \in SUBSET Rows
  BY RowFacts DEF IInv, TypeOK
<1> HIDE DEF S
<1> DEFINE t == Plain(existing)
           m == [Fresh EXCEPT !.phase = "counting", !.todo = t, !.found = S]
<1>5. /\ t \in Seq(Rows \X Int) /\ RowsIn(t) = S /\ DistinctRows(t)
      /\ \A i \in DOMAIN t : t[i][2] = 0
  BY <1>4, PlainSeq
<1>6. ToSet(existing) = S
  BY <1>4, InSeqs, RowFacts, FS_Subset
<1> HIDE DEF t
<1>7. call' = [call EXCEPT ![c] = m]
  <2>1. call' = [call EXCEPT ![c].phase = "counting", ![c].todo = t, ![c].found = S]
    BY <1>2, <1>6 DEF t
  <2> QED BY <1>3, <2>1 DEF IInv, TypeOK
<1>8. /\ m \in Locals /\ m.phase = "counting" /\ m.todo = t /\ m.found = S
      /\ m.seen = Fresh.seen /\ m.change = Fresh.change /\ TodoRows(m) = S
  BY <1>3, <1>4, <1>5 DEF Locals, Phases, TodoRows
<1> HIDE DEF m
<1>9. Quiet(m, {}) /\ PhaseOfKind(r, m) /\ Covered(m, {})
  BY <1>1, <1>3, <1>5, <1>8 DEF Quiet, PhaseOfKind, Covered, Ended
<1>10. Counting(m, {})
  BY <1>3, <1>5, <1>8 DEF Counting
<1>11. /\ Ordering(r, m) /\ LockingStates(r, m, {}) /\ PickingRacks(r, m, {})
       /\ PickingProduct(m) /\ Legs(r, m, {}) /\ RacksInOrder(r, m, {}) /\ StatesFirst(r, m, {})
  BY <1>1, <1>8
     DEF Ordering, LockingStates, PickingRacks, PickingProduct, Legs, RacksInOrder, StatesFirst
<1>12. Good(r, m, Held(c))
  BY <1>3, <1>9, <1>10, <1>11 DEF Good
<1> QED BY <1>1, <1>3, <1>7, <1>8, <1>12, LocalStep

LEMMA DiffCountsStep ==
  ASSUME IInv, NEW c \in Calls, DiffCounts(c)
  PROVE  IInv'
<1> DEFINE r == request[c]
           l == call[c]
           H == Held(c)
           d == Lines(r, l)
           e == PerProduct(d)
           A == NonZero(e)
           B == NonZero(d)
<1>1. /\ r.kind = "count" /\ l.phase = "counting" /\ l.todo = <<>>
      /\ UNCHANGED <<committed, holder, request>>
  BY DEF DiffCounts, Is, Idle
<1>2. l \in Locals /\ l.found \subseteq RackRows /\ Good(r, l, H) /\ IsRequest(r)
  BY RequestFacts DEF IInv, TypeOK, Locals
<1>3. Delta(c) = d
  BY <1>1 DEF Delta, Counted, Lines
<1>4. PICK states \in SetToSeqs(A), lines \in SetToSeqs(B) :
         call' = [call EXCEPT ![c].phase = "legs", ![c].todo = With(states, e) \o With(lines, d)]
  BY <1>3 DEF DiffCounts
<1>5. /\ DOMAIN e \subseteq StateRows /\ DOMAIN d \subseteq RackRows
      /\ \A k \in DOMAIN d : d[k] \in Int
      /\ \A k \in DOMAIN e : e[k] \in Int
  <2>1. IsPerRow(d, Int)
    BY <1>1, <1>2, WantedFacts
  <2> QED BY <2>1, PerProductFacts DEF IsPerRow
<1>6. /\ A \in SUBSET StateRows /\ B \in SUBSET RackRows
      /\ \A k \in A : e[k] \in Int
      /\ \A k \in B : d[k] \in Int
  BY <1>5 DEF NonZero
<1>7. \A k : Wanted(r, l, k) = IF k \in DOMAIN d THEN d[k] ELSE IF k \in DOMAIN e THEN e[k] ELSE 0
  BY <1>1 DEF Wanted
<1>8. DOMAIN d \cap StateRows = {}
  BY <1>5, RowFacts
<1>9. /\ \A k \in A : Wanted(r, l, k) = e[k]
      /\ \A k \in B : Wanted(r, l, k) = d[k]
      /\ \A k \in Rows \ (A \cup B) : Wanted(r, l, k) = 0
  BY <1>5, <1>6, <1>7, <1>8 DEF NonZero
<1> HIDE DEF d, e, A, B
<1> DEFINE t == With(states, e) \o With(lines, d)
           m == [l EXCEPT !.phase = "legs", !.todo = t]
<1>10. /\ t \in Seq(Rows \X Int) /\ RowsIn(t) = A \cup B /\ DistinctRows(t)
       /\ \A i \in DOMAIN t : \/ t[i][1] \in A /\ t[i][2] = e[t[i][1]]
                              \/ t[i][1] \in B /\ t[i][2] = d[t[i][1]]
       /\ \A i, j \in DOMAIN t : i < j /\ t[j][1] \in A => t[i][1] \in A
  BY <1>6, StatesThenRacks
<1>11. call' = [call EXCEPT ![c] = m]
  <2>1. call' = [call EXCEPT ![c].phase = "legs", ![c].todo = t]
    BY <1>4
  <2> HIDE DEF t
  <2> QED BY <1>2, <2>1 DEF IInv, TypeOK
<1> HIDE DEF t
<1>12. /\ m \in Locals /\ m.phase = "legs" /\ m.todo = t /\ m.found = l.found
       /\ m.seen = l.seen /\ m.change = l.change /\ TodoRows(m) = A \cup B
  BY <1>2, <1>10 DEF Locals, Phases, TodoRows
<1> HIDE DEF m
<1>13. TodoRows(l) = {}
  BY <1>1 DEF TodoRows, RowsIn
<1>14. (\A k \in Rows : l.change[k] = 0) /\ l.found \subseteq H
  BY <1>1, <1>2, <1>13 DEF Good, Counting
<1>15. Quiet(m, H) /\ PhaseOfKind(r, m) /\ Covered(m, H)
  BY <1>1, <1>2, <1>10, <1>12 DEF Good, Quiet, PhaseOfKind, Covered, Ended
<1>16. Legs(r, m, H)
  <2>1. \A k : Wanted(r, m, k) = Wanted(r, l, k)
    BY <1>12, WantedKept
  <2>2. ASSUME NEW i \in DOMAIN t
        PROVE  m.change[t[i][1]] = 0 /\ t[i][2] = Wanted(r, m, t[i][1])
    <3>1. t[i][1] \in Rows
      BY <1>6, <1>10, RowFacts
    <3> QED BY <1>9, <1>10, <1>12, <1>14, <2>1, <3>1
  <2>3. \A k \in Rows \ (A \cup B) : m.change[k] = Wanted(r, m, k)
    BY <1>9, <1>12, <1>14, <2>1
  <2> QED BY <1>1, <1>12, <1>14, <2>2, <2>3 DEF Legs
<1>17. /\ Ordering(r, m) /\ LockingStates(r, m, H) /\ PickingRacks(r, m, H)
       /\ PickingProduct(m) /\ Counting(m, H) /\ RacksInOrder(r, m, H) /\ StatesFirst(r, m, H)
  BY <1>1, <1>12
     DEF Ordering, LockingStates, PickingRacks, PickingProduct, Counting, RacksInOrder, StatesFirst
<1>18. Good(r, m, H)
  BY <1>15, <1>16, <1>17 DEF Good
<1> QED BY <1>1, <1>11, <1>12, <1>18, LocalStep

\* A session is canceled without a row being locked.
LEMMA BeginDiscardStep ==
  ASSUME IInv, NEW c \in Calls, BeginDiscard(c)
  PROVE  IInv'
<1> DEFINE r == request[c]
<1>1. r.kind = "discard" /\ call[c].phase = "ready" /\ BeginLegs(c, <<>>)
  BY DEF BeginDiscard, Is
<1>2. <<>> \in Seq(Rows \X Int) /\ DOMAIN <<>> = {} /\ RowsIn(<<>>) = {} /\ DistinctRows(<<>>)
  BY DEF RowsIn, DistinctRows
<1>3. \A k \in Rows : Wanted(r, Fresh, k) = 0
  <2>1. DOMAIN Lines(r, Fresh) = {}
    BY <1>1 DEF Lines
  <2>2. DOMAIN PerProduct(Lines(r, Fresh)) = {}
    BY <2>1 DEF PerProduct
  <2> QED BY <2>1, <2>2 DEF Wanted
<1> QED BY <1>1, <1>2, <1>3, BeginLegsStep

-----------------------------------------------------------------------------
(* Every step keeps the invariant                                           *)

LEMMA EndingSteps ==
  ASSUME IInv, NEW c \in Calls,
         RejectMove(c) \/ RefuseDeadRack(c) \/ SessionEnded(c) \/ RackDelete(c) \/ Abort(c)
  PROVE  IInv'
<1>1. /\ UNCHANGED <<count, rows, logged, session, request>> /\ live' \subseteq Racks
      /\ \E ph \in Ended : End(c, ph)
  BY DEF RejectMove, RefuseDeadRack, SessionEnded, RackDelete, Abort, committed, Ended,
         IInv, TypeOK
<1> QED BY <1>1, EndStep

LEMMA StutterStep ==
  ASSUME IInv, UNCHANGED vars
  PROVE  IInv'
<1>1. /\ count' = count /\ rows' = rows /\ logged' = logged /\ live' = live
      /\ session' = session /\ holder' = holder /\ request' = request /\ call' = call
  BY DEF vars, committed
<1>2. TypeOK'
  BY <1>1 DEF IInv, TypeOK
<1>3. BalancesKept'
  BY <1>1, <1>2 DEF IInv, BalancesKept
<1>4. \A c \in Calls : Held(c)' = Held(c)
  BY <1>1 DEF Held
<1>5. SeenIsFresh'
  BY <1>1, <1>4 DEF IInv, SeenIsFresh
<1>6. ASSUME NEW c \in Calls PROVE Good(request[c], call[c], Held(c))'
  <2>1. Good(request[c], call[c], Held(c))
    BY DEF IInv
  <2>2. request'[c] = request[c] /\ call'[c] = call[c] /\ Held(c)' = Held(c)
    BY <1>1, <1>4
  <2> QED BY <2>1, <2>2
<1> QED BY <1>2, <1>3, <1>5, <1>6 DEF IInv

LEMMA NextIInv == IInv /\ [Next]_vars => IInv'
<1> SUFFICES ASSUME IInv, [Next]_vars PROVE IInv'
  OBVIOUS
<1>1. ASSUME NEW c \in Calls, Step(c) PROVE IInv'
  <2>1. CASE Lock(c)
    BY <2>1, LockStep
  <2>2. CASE Commit(c)
    BY <2>2, CommitStep
  <2>3. CASE RejectMove(c) \/ RefuseDeadRack(c) \/ SessionEnded(c) \/ RackDelete(c) \/ Abort(c)
    BY <2>3, EndingSteps
  <2>4. CASE BeginOrder(c)
    BY <2>4, BeginOrderStep
  <2>5. CASE CheckStock(c)
    BY <2>5, CheckStockStep
  <2>6. CASE FindRacks(c)
    BY <2>6, FindRacksStep
  <2>7. CASE TakeFromRacks(c)
    BY <2>7, TakeFromRacksStep
  <2>8. CASE BeginMove(c)
    BY <2>8, BeginMoveStep
  <2>9. CASE BeginPlace(c)
    BY <2>9, BeginPlaceStep
  <2>10. CASE BeginCancel(c)
    BY <2>10, BeginCancelStep
  <2>11. CASE BeginCount(c)
    BY <2>11, BeginCountStep
  <2>12. CASE DiffCounts(c)
    BY <2>12, DiffCountsStep
  <2>13. CASE BeginDiscard(c)
    BY <2>13, BeginDiscardStep
  <2> QED BY <1>1, <2>1, <2>2, <2>3, <2>4, <2>5, <2>6, <2>7, <2>8, <2>9, <2>10, <2>11, <2>12,
             <2>13 DEF Step
<1> QED BY <1>1, StutterStep DEF Next

\* Whatever overlaps, every balance stays the running total of its log and no
\* rack is overdrawn: for any number of calls, products and racks.
THEOREM BalancesAreKept == Spec => []BalancesKept
<1>1. IInv => BalancesKept
  BY DEF IInv
<1> QED BY InitIInv, NextIInv, <1>1, PTL DEF Spec

-----------------------------------------------------------------------------
(* Circles                                                                  *)

\* ByRack is a strict order, so a finite set of rows has a last one in it.
LEMMA LastRow ==
  ASSUME NEW R \in SUBSET Rows, R # {}
  PROVE  \E k \in R : \A j \in R : ~ByRack(k, j)
<1> DEFINE Bad == {s \in SUBSET R : s # {} /\ \A k \in s : \E j \in s : ByRack(k, j)}
<1> SUFFICES ASSUME ~ \E k \in R : \A j \in R : ~ByRack(k, j) PROVE FALSE
  OBVIOUS
<1>1. IsFiniteSet(R)
  BY RowFacts, FS_Subset
<1>2. R \in Bad /\ Bad \in SUBSET (SUBSET R)
  OBVIOUS
<1>3. PICK s \in Bad : \A t \in SUBSET s : t # s => t \notin Bad
  <2> HIDE DEF Bad
  <2> QED BY <1>1, <1>2, MinimalSubset
<1>4. \A k, j, i \in Rows : /\ ~ByRack(k, k)
                            /\ ByRack(k, j) /\ ByRack(j, i) => ByRack(k, i)
  <2>1. \A k \in Rows : k[1] \in Int /\ k[2] \in Int
    BY RowFacts
  <2> QED BY <2>1 DEF ByRack
<1>5. PICK k \in s : TRUE
  BY <1>3
<1> DEFINE t == {j \in s : ByRack(k, j)}
<1>6. t \in SUBSET s /\ t # s /\ t # {}
  BY <1>3, <1>4, <1>5
<1>7. t \in Bad
  <2>1. ASSUME NEW j \in t PROVE \E i \in t : ByRack(j, i)
    <3>1. PICK i \in s : ByRack(j, i)
      BY <1>3
    <3>2. k \in Rows /\ j \in Rows /\ i \in Rows
      BY <1>3, <1>5
    <3>3. ByRack(k, i)
      BY <1>4, <3>1, <3>2
    <3> QED BY <3>1, <3>3
  <2> QED BY <1>3, <1>6, <2>1
<1> QED BY <1>3, <1>6, <1>7

\* What a waiting call waits for, and what it holds.
LEMMA WaitingFacts ==
  ASSUME IInv, NEW c \in Calls, ~Idle(c)
  PROVE  /\ 1 \in DOMAIN call[c].todo /\ Row(c) = call[c].todo[1][1] /\ Row(c) \in Rows
         /\ Row(c) \in TodoRows(call[c])
         /\ request[c].kind \in Kinds \ {"delete"}
<1>1. call[c].todo \in Seq(Rows \X Int) /\ call[c].todo # <<>> /\ call[c].phase \in Phases
  BY DEF IInv, TypeOK, Locals, Idle
<1>2. /\ 1 \in DOMAIN call[c].todo /\ Head(call[c].todo) = call[c].todo[1]
      /\ call[c].todo[1] \in Rows \X Int
  BY <1>1, HeadAndTail
<1>3. Quiet(call[c], Held(c)) /\ PhaseOfKind(request[c], call[c])
  BY DEF IInv, Good
<1>4. request[c].kind \in Kinds \ {"delete"}
  BY <1>1, <1>3 DEF Quiet, PhaseOfKind, Phases, Ended, Kinds
<1> QED BY <1>2, <1>4 DEF Row, TodoRows, RowsIn

LEMMA NoCircleOfMoves ==
  ASSUME IInv, NEW S \in SUBSET Calls, Deadlocked(S), \A c \in S : request[c].kind = "move"
  PROVE  FALSE
<1> DEFINE R == {Row(c) : c \in S}
<1>1. \A c \in S : ~Idle(c) /\ \E d \in S \ {c} : d \in holder[Row(c)]
  BY DEF Deadlocked
<1>2. R \in SUBSET Rows /\ R # {}
  BY <1>1, WaitingFacts DEF Deadlocked
<1>3. PICK k \in R : \A j \in R : ~ByRack(k, j)
  <2> HIDE DEF R
  <2> QED BY <1>2, LastRow
<1>4. PICK c \in S : k = Row(c)
  BY <1>3
<1>5. PICK d \in S : d \in holder[Row(c)]
  BY <1>1
<1>6. Row(c) \in Held(d)
  BY <1>1, <1>5, WaitingFacts DEF Held
<1>7. RacksInOrder(request[d], call[d], Held(d))
  BY DEF IInv, Good
<1>8. ByRack(Row(c), Row(d))
  BY <1>1, <1>6, <1>7, WaitingFacts DEF RacksInOrder
<1> QED BY <1>3, <1>4, <1>8

LEMMA TwoStates ==
  ASSUME NEW T \in SUBSET Rows, NEW j \in T, NEW k \in T, j # k
  PROVE  Cardinality(T) > 1
<1>1. IsFiniteSet(T)
  BY RowFacts, FS_Subset
<1>2. IsFiniteSet({k}) /\ Cardinality({k}) = 1 /\ {k} \in SUBSET T /\ {k} # T
  BY FS_Singleton
<1>3. Cardinality({k}) <= Cardinality(T) /\ Cardinality(T) # Cardinality({k})
  BY <1>1, <1>2, FS_Subset
<1>4. Cardinality(T) \in Nat
  BY <1>1, FS_CardinalityType
<1> QED BY <1>2, <1>3, <1>4

\* Calls that lock the states first, of one product each, do not meet in a circle.
LEMMA NoCircleOfStatesFirst ==
  ASSUME IInv, NEW S \in SUBSET Calls, Deadlocked(S),
         \A c \in S : request[c].kind \in {"order", "place", "cancel", "discard"},
         \A c \in S : ~(Cardinality({k \in Rows : k[2] = 0 /\ c \in holder[k]}
                                       \cup {k \in {Row(c)} : k[2] = 0}) > 1)
  PROVE  FALSE
<1>1. \A c \in S : ~Idle(c) /\ \E d \in S \ {c} : d \in holder[Row(c)]
  BY DEF Deadlocked
<1>2. \A c \in S : StatesFirst(request[c], call[c], Held(c))
  BY DEF IInv, Good
<1>3. \A k \in Rows : \A c, d \in holder[k] : c = d
  BY DEF IInv, TypeOK
<1>4. ASSUME NEW c \in S, Row(c) \in RackRows PROVE FALSE
  <2> DEFINE s == State(Row(c)[1])
  <2>1. PICK d \in S \ {c} : d \in holder[Row(c)]
    BY <1>1
  <2>2. Row(c) \in Rows /\ s \in StateRows /\ s \in Rows
    BY <1>4, RowFacts
  <2>3. Row(c) \in Held(d) \cap RackRows
    BY <1>4, <2>1, <2>2 DEF Held
  <2>4. s \in Held(d)
    <3>1. s \in TodoRows(call[d]) \cup Held(d)
      BY <1>2, <1>4, <2>3 DEF StatesFirst
    <3>2. s \notin TodoRows(call[d])
      BY <1>2, <2>2, <2>3 DEF StatesFirst, TodoRows, RowsIn
    <3> QED BY <3>1, <3>2
  <2>5. s \in Held(c)
    <3>1. Row(c) \in TodoRows(call[c]) /\ 1 \in DOMAIN call[c].todo
          /\ Row(c) = call[c].todo[1][1]
      BY <1>1, WaitingFacts
    <3>2. s \in TodoRows(call[c]) \cup Held(c)
      BY <1>2, <1>4, <3>1 DEF StatesFirst
    <3>3. ASSUME NEW i \in DOMAIN call[c].todo, call[c].todo[i][1] \in StateRows PROVE FALSE
      <4>1. call[c].todo \in Seq(Rows \X Int) /\ call[c].todo # <<>>
        BY <1>1 DEF IInv, TypeOK, Locals, Idle
      <4>2. DOMAIN call[c].todo = 1 .. Len(call[c].todo)
        BY <4>1, LenProperties
      <4>3. i = 1 \/ 1 < i
        BY <4>2
      <4>4. call[c].todo[1][1] \in StateRows
        BY <1>2, <3>1, <3>3, <4>3 DEF StatesFirst
      <4> QED BY <1>4, <3>1, <4>4, RowFacts
    <3>4. s \notin TodoRows(call[c])
      BY <2>2, <3>3 DEF TodoRows, RowsIn
    <3> QED BY <3>2, <3>4
  <2>6. c \in holder[s] /\ d \in holder[s] /\ c # d
    BY <2>1, <2>4, <2>5 DEF Held
  <2> QED BY <1>3, <2>2, <2>6
<1>5. PICK c \in S : TRUE
  BY DEF Deadlocked
<1>6. \A b \in S : Row(b) \in StateRows /\ Row(b) \in Rows /\ Row(b)[2] = 0
  <2>1. \A b \in S : Row(b) \in Rows /\ Row(b) \notin RackRows
    BY <1>1, <1>4, WaitingFacts
  <2>2. \A b \in S : Row(b) \in StateRows
    BY <2>1, RowFacts
  <2> QED BY <2>1, <2>2 DEF StateRows, State
<1>7. PICK d \in S \ {c} : d \in holder[Row(c)]
  BY <1>1
<1>8. PICK e \in S \ {d} : e \in holder[Row(d)]
  BY <1>1
<1>9. Row(c) # Row(d)
  BY <1>3, <1>6, <1>7, <1>8
<1> DEFINE T == {k \in Rows : k[2] = 0 /\ d \in holder[k]} \cup {k \in {Row(d)} : k[2] = 0}
<1>10. T \in SUBSET Rows /\ Row(c) \in T /\ Row(d) \in T
  BY <1>6, <1>7
<1>11. Cardinality(T) > 1
  <2> HIDE DEF T
  <2> QED BY <1>9, <1>10, TwoStates
<1> QED BY <1>7, <1>11

\* No circle consists of moves alone: they lock their racks in one order.  And
\* in every circle there is a call that locks racks before states, or none, or
\* one that holds or awaits the states of two products.
THEOREM CirclesHaveTheirShape == Spec => []DeadlockShape
<1>1. ASSUME IInv PROVE DeadlockShape
  <2> SUFFICES ASSUME NEW S \in SUBSET Calls, Deadlocked(S)
               PROVE  /\ \E c \in S : request[c].kind # "move"
                      /\ \/ \E c \in S : request[c].kind \in {"move", "count"}
                         \/ \E c \in S : Cardinality({k \in Rows : k[2] = 0 /\ c \in holder[k]}
                                            \cup {k \in {Row(c)} : k[2] = 0}) > 1
    BY DEF DeadlockShape
  <2>1. \E c \in S : request[c].kind # "move"
    BY <1>1, NoCircleOfMoves
  <2>2. ASSUME ~ \E c \in S : request[c].kind \in {"move", "count"},
               ~ \E c \in S : Cardinality({k \in Rows : k[2] = 0 /\ c \in holder[k]}
                                            \cup {k \in {Row(c)} : k[2] = 0}) > 1
        PROVE  FALSE
    <3>1. \A c \in S : request[c].kind \in {"order", "place", "cancel", "discard"}
      BY <1>1, <2>2, WaitingFacts DEF Deadlocked, Kinds
    <3> QED BY <1>1, <2>2, <3>1, NoCircleOfStatesFirst
  <2> QED BY <2>1, <2>2
<1>2. IInv => DeadlockShape
  BY <1>1
<1> QED BY InitIInv, NextIInv, <1>2, PTL DEF Spec

-----------------------------------------------------------------------------
(* Nobody is forgotten                                                      *)

Waits(c) == ~Idle(c) /\ \E d \in Calls \ {c} : d \in holder[Row(c)]

\* Calls each of which waits for one of them.
Entangled(S) == S # {} /\ \A c \in S : Waits(c) /\ \E d \in S \ {c} : d \in holder[Row(c)]

\* A call that has ended holds nothing, so what others wait for is held by a
\* call on its way or by one that waits itself; and calls that only wait for
\* each other contain a circle, which is what the detector looks for.
SomeoneCanGoOn ==
    (\E c \in Calls : Waits(c)) =>
        \/ \E S \in SUBSET Calls : Deadlocked(S)
        \/ \E d \in Calls : /\ call[d].phase \notin Ended \cup {"ready"}
                            /\ ~Waits(d) /\ Held(d) # {}

\* Of entangled calls, the fewest are a circle: with the calls that nobody of
\* them waits for removed they would be entangled still.
LEMMA EntangledCircle ==
  ASSUME NEW S \in SUBSET Calls, IsFiniteSet(S), Entangled(S)
  PROVE  \E T \in SUBSET S : Deadlocked(T)
<1> DEFINE Bad == {s \in SUBSET S : Entangled(s)}
<1>1. Bad \in SUBSET (SUBSET S) /\ S \in Bad
  OBVIOUS
<1>2. PICK s \in Bad : \A t \in SUBSET s : t # s => t \notin Bad
  <2> HIDE DEF Bad
  <2> QED BY <1>1, MinimalSubset
<1> DEFINE t == {d \in s : \E c \in s \ {d} : d \in holder[Row(c)]}
<1>3. \A c \in s : Waits(c) /\ \E d \in s \ {c} : d \in holder[Row(c)]
  BY <1>2 DEF Entangled
<1>4. \A c \in s : \E d \in t \ {c} : d \in holder[Row(c)]
  BY <1>3
<1>5. Entangled(t)
  BY <1>2, <1>3, <1>4 DEF Entangled
<1>6. t = s
  BY <1>2, <1>5
<1>7. Deadlocked(s)
  <2>1. \A d \in s : d \in t
    BY <1>6
  <2>2. \A d \in s : \E c \in s \ {d} : d \in holder[Row(c)]
    BY <2>1
  <2>3. s # {}
    BY <1>2 DEF Entangled
  <2> QED BY <1>3, <2>2, <2>3 DEF Deadlocked, Waits
<1> QED BY <1>2, <1>7

LEMMA WaitersAreServed ==
  ASSUME IInv, IsFiniteSet(Calls)
  PROVE  SomeoneCanGoOn
<1> DEFINE W == {c \in Calls : Waits(c)}
<1> SUFFICES ASSUME W # {},
                    \A d \in Calls : call[d].phase \notin Ended \cup {"ready"}
                                     /\ Held(d) # {} => Waits(d)
             PROVE  \E S \in SUBSET Calls : Deadlocked(S)
  BY DEF SomeoneCanGoOn
<1>1. \A c \in W : Row(c) \in Rows
  <2>1. ASSUME NEW c \in W PROVE Row(c) \in Rows
    <3>1. call[c].todo \in Seq(Rows \X Int) /\ call[c].todo # <<>>
      BY DEF IInv, TypeOK, Locals, Waits, Idle
    <3>2. Head(call[c].todo) \in Rows \X Int
      BY <3>1
    <3> QED BY <3>2 DEF Row
  <2> QED BY <2>1
<1>2. ASSUME NEW c \in W PROVE \E d \in W \ {c} : d \in holder[Row(c)]
  <2>1. PICK d \in Calls \ {c} : d \in holder[Row(c)]
    BY DEF Waits
  <2>2. Held(d) # {}
    BY <1>1, <2>1 DEF Held
  <2>3. call[d].phase \notin Ended \cup {"ready"}
    BY <2>2 DEF IInv, Good, Quiet
  <2> QED BY <2>1, <2>2, <2>3
<1>3. Entangled(W)
  BY <1>2 DEF Entangled
<1>4. IsFiniteSet(W) /\ W \in SUBSET Calls
  BY FS_Subset
<1>5. PICK T \in SUBSET W : Deadlocked(T)
  <2> HIDE DEF W
  <2> QED BY <1>3, <1>4, EntangledCircle
<1> QED BY <1>4, <1>5

\* Whenever calls wait there is a circle to abort, or a call that holds rows
\* and waits for nobody: for any finite number of calls.
THEOREM NobodyIsForgotten == ASSUME IsFiniteSet(Calls) PROVE Spec => []SomeoneCanGoOn
<1>1. IInv => SomeoneCanGoOn
  BY WaitersAreServed
<1> QED BY InitIInv, NextIInv, <1>1, PTL DEF Spec

-----------------------------------------------------------------------------
(* What a commit writes                                                     *)

LEMMA StepEffect ==
  ASSUME TypeOK, NEW c \in Calls, Step(c)
  PROVE  /\ \A d \in Calls \ {c} : call'[d] = call[d]
         /\ Commit(c) \/ (count' = count /\ (JustEnded(c) => call[c].phase = "ready"))
<1>1. DOMAIN call = Calls /\ call[c] \in Locals
  BY DEF TypeOK
<1>2. CASE Lock(c)
  BY <1>1, <1>2 DEF Lock, committed, JustEnded, Locals
<1>3. CASE RejectMove(c) \/ RefuseDeadRack(c) \/ Abort(c)
  BY <1>1, <1>3 DEF RejectMove, RefuseDeadRack, Abort, committed, JustEnded, Locals, End
<1>4. CASE SessionEnded(c) \/ RackDelete(c)
  BY <1>1, <1>4 DEF SessionEnded, RackDelete, committed, JustEnded, Locals, End, Is
<1>5. CASE Commit(c)
  BY <1>1, <1>5 DEF Commit, End
<1>6. CASE BeginOrder(c)
  BY <1>1, <1>6 DEF BeginOrder, committed, JustEnded, Locals
<1>7. CASE CheckStock(c)
  BY <1>1, <1>7 DEF CheckStock, committed, JustEnded, Locals, End
<1>8. CASE FindRacks(c)
  BY <1>1, <1>8 DEF FindRacks, committed, JustEnded, Locals
<1>9. CASE TakeFromRacks(c)
  BY <1>1, <1>9 DEF TakeFromRacks, committed, JustEnded, Locals
<1>10. CASE BeginMove(c)
  BY <1>1, <1>10 DEF BeginMove, BeginLegs, committed, JustEnded, Locals
<1>11. CASE BeginPlace(c)
  BY <1>1, <1>11 DEF BeginPlace, BeginLegs, committed, JustEnded, Locals
<1>12. CASE BeginCancel(c)
  BY <1>1, <1>12 DEF BeginCancel, BeginLegs, committed, JustEnded, Locals
<1>13. CASE BeginCount(c)
  BY <1>1, <1>13 DEF BeginCount, committed, JustEnded, Locals
<1>14. CASE DiffCounts(c)
  BY <1>1, <1>14 DEF DiffCounts, committed, JustEnded, Locals
<1>15. CASE BeginDiscard(c)
  BY <1>1, <1>15 DEF BeginDiscard, BeginLegs, committed, JustEnded, Locals
<1> QED BY <1>2, <1>3, <1>4, <1>5, <1>6, <1>7, <1>8, <1>9, <1>10, <1>11, <1>12, <1>13, <1>14,
           <1>15 DEF Step

\* Counts change, and calls with rows end well, by commits only, one at a time.
LEMMA CommitOrNot ==
  ASSUME IInv, [Next]_vars
  PROVE  \/ /\ count' = count
            /\ \A c \in Calls : JustEnded(c) => call[c].phase = "ready"
         \/ \E c \in Calls : /\ Commit(c) /\ JustEnded(c)
                             /\ \A d \in Calls : JustEnded(d) => d = c
<1>1. CASE UNCHANGED vars
  BY <1>1 DEF vars, committed, JustEnded
<1>2. ASSUME NEW c \in Calls, Step(c)
      PROVE  \/ /\ count' = count
                /\ \A d \in Calls : JustEnded(d) => call[d].phase = "ready"
             \/ Commit(c) /\ JustEnded(c) /\ \A d \in Calls : JustEnded(d) => d = c
  <2>1. /\ \A d \in Calls \ {c} : call'[d] = call[d]
        /\ Commit(c) \/ (count' = count /\ (JustEnded(c) => call[c].phase = "ready"))
    BY <1>2, StepEffect DEF IInv
  <2>2. \A d \in Calls : JustEnded(d) => d = c
    BY <2>1 DEF JustEnded
  <2>3. ASSUME Commit(c) PROVE JustEnded(c)
    <3>1. call[c] \in Locals /\ DOMAIN call = Calls
      BY DEF IInv, TypeOK
    <3> QED BY <2>3, <3>1 DEF Commit, End, JustEnded, Locals
  <2> QED BY <2>1, <2>2, <2>3
<1> QED BY <1>1, <1>2 DEF Next

\* What a call with legs commits is what it wanted since it looked.
LEMMA LegsCommit ==
  ASSUME IInv, NEW c \in Calls, Commit(c), call[c].phase = "legs"
  PROVE  /\ request[c].kind \in {"move", "place", "cancel", "count", "discard"}
         /\ IsRequest(request[c]) /\ call[c] \in Locals
         /\ \A k \in Rows : /\ call[c].change[k] = Wanted(request[c], call[c], k)
                            /\ count'[k] = count[k] + Wanted(request[c], call[c], k)
<1>1. Good(request[c], call[c], Held(c)) /\ call[c] \in Locals
  BY DEF IInv, TypeOK
<1>2. TodoRows(call[c]) = {}
  BY DEF Commit, Idle, TodoRows, RowsIn
<1>3. \A k \in Rows : call[c].change[k] = Wanted(request[c], call[c], k)
  BY <1>1, <1>2 DEF Good, Legs
<1>4. request[c].kind \in {"move", "place", "cancel", "count", "discard"}
  BY <1>1 DEF Good, PhaseOfKind
<1>5. \A k \in Rows : count'[k] = count[k] + call[c].change[k]
  BY CommitStep
<1>6. IsRequest(request[c])
  BY RequestFacts DEF IInv
<1> QED BY <1>1, <1>3, <1>4, <1>5, <1>6

\* A completed count leaves every counted row with what was counted; a row
\* that did not exist when it looked keeps what others put there meanwhile.
THEOREM CountsHoldTruth == Spec => CountedRowsHoldTruth
<1>1. ASSUME IInv, [Next]_vars, NEW c \in Calls, JustEnded(c), Is(c, "count", "legs"),
             NEW k \in DOMAIN Counted(c)
      PROVE  count'[k] = Counted(c)[k] + (IF k \in call[c].found THEN 0 ELSE count[k])
  <2>1. Commit(c)
    BY <1>1, CommitOrNot DEF Is
  <2>2. request[c].kind = "count" /\ call[c].phase = "legs" /\ Counted(c) = request[c].counted
    BY <1>1 DEF Is, Counted
  <2>3. /\ IsRequest(request[c]) /\ call[c] \in Locals
        /\ \A j \in Rows : count'[j] = count[j] + Wanted(request[c], call[c], j)
    BY <1>1, <2>1, <2>2, LegsCommit
  <2>4. k \in Rows /\ Counted(c)[k] \in Nat /\ count[k] \in Int
    <3>1. IsPerRow(Counted(c), Nat)
      BY <2>2, <2>3 DEF IsRequest
    <3> QED BY <1>1, <3>1, RowFacts DEF IsPerRow, IInv, TypeOK, Counts
  <2>5. Wanted(request[c], call[c], k)
           = Counted(c)[k] - (IF k \in call[c].found THEN call[c].seen[k] ELSE 0)
    BY <1>1, <2>2 DEF Wanted, Lines
  <2>6. k \in call[c].found => call[c].seen[k] = count[k]
    <3>1. call[c].found \subseteq Held(c)
      BY <1>1, <2>2 DEF IInv, Good, Legs
    <3> QED BY <1>1, <3>1 DEF IInv, SeenIsFresh
  <2> QED BY <2>3, <2>4, <2>5, <2>6
<1>2. IInv /\ [Next]_vars =>
        [\A c \in Calls : JustEnded(c) /\ Is(c, "count", "legs") =>
           \A k \in DOMAIN Counted(c) :
              count'[k] = Counted(c)[k] + (IF k \in call[c].found THEN 0 ELSE count[k])]_vars
  BY <1>1
<1> QED BY InitIInv, NextIInv, <1>2, PTL DEF Spec, CountedRowsHoldTruth

\* Goods arrive on a deleted rack only by a cancel or a count, or by a call
\* that looked before the rack was deleted.
THEOREM DeadRacksGainLate == Spec => DeadRackGainsLate
<1>1. ASSUME IInv, [Next]_vars, NEW k \in RackRows, count'[k] > count[k]
      PROVE  \E c \in Calls : /\ JustEnded(c)
                              /\ \/ request[c].kind \in {"cancel", "count"}
                                 \/ k[2] \in call[c].checked
  <2>1. k \in Rows /\ count[k] \in Int
    BY <1>1, RowFacts DEF IInv, TypeOK, Counts
  <2>2. PICK c \in Calls : Commit(c) /\ JustEnded(c)
    BY <1>1, <2>1, CommitOrNot
  <2>3. /\ Good(request[c], call[c], Held(c)) /\ call[c].change[k] \in Int
        /\ count'[k] = count[k] + call[c].change[k]
    <3>1. call[c] \in Locals
      BY <1>1 DEF IInv, TypeOK
    <3> QED BY <1>1, <2>1, <2>2, <3>1, CommitStep DEF IInv, Locals, Counts
  <2>4. call[c].change[k] > 0
    BY <1>1, <2>1, <2>3
  <2>5. call[c].phase = "legs"
    <3>1. call[c].phase = "pick" => call[c].change[k] <= 0
      BY <1>1, <2>3 DEF Good, Ordering
    <3> QED BY <2>2, <2>3, <2>4, <3>1 DEF Commit
  <2>6. /\ request[c].kind \in {"move", "place", "cancel", "count", "discard"}
        /\ IsRequest(request[c]) /\ call[c] \in Locals
        /\ call[c].change[k] = Wanted(request[c], call[c], k)
    BY <1>1, <2>1, <2>2, <2>5, LegsCommit
  <2>7. ASSUME request[c].kind \in {"move", "place"} PROVE k[2] \in call[c].checked
    <3>1. k \in DOMAIN Lines(request[c], call[c])
      BY <1>1, <2>4, <2>6, WantedFacts
    <3>2. k \in DOMAIN request[c].change
      BY <2>7, <3>1 DEF Lines
    <3> QED BY <2>3, <2>5, <2>7, <3>2 DEF Good, Legs
  <2>8. ASSUME request[c].kind = "discard" PROVE FALSE
    <3>1. DOMAIN Lines(request[c], call[c]) = {}
      BY <2>8 DEF Lines
    <3> QED BY <1>1, <2>4, <2>6, <3>1, WantedFacts
  <2> QED BY <2>2, <2>6, <2>7, <2>8
<1>2. IInv /\ [Next]_vars =>
        [\A k \in RackRows : k[2] \notin live /\ count'[k] > count[k] =>
           \E c \in Calls : /\ JustEnded(c)
                            /\ \/ request[c].kind \in {"cancel", "count"}
                               \/ k[2] \in call[c].checked]_vars
  BY <1>1
<1> QED BY InitIInv, NextIInv, <1>2, PTL DEF Spec, DeadRackGainsLate

\* The state's change and the racks' changes are what opens a gap.
LEMMA GapChange ==
  ASSUME IInv, NEW c \in Calls, Commit(c), NEW p \in Products
  PROVE  /\ Gap(p)' = Gap(p) + (call[c].change[State(p)]
                                  - SumFunctionOnSet(call[c].change, RacksOf(p)))
         /\ Gap(p) \in Int /\ call[c].change[State(p)] \in Int
         /\ SumFunctionOnSet(call[c].change, RacksOf(p)) \in Int
<1> DEFINE T == RacksOf(p)
           new == call[c].change
<1>1. IsFiniteSet(T) /\ T \subseteq Rows /\ State(p) \in Rows
  BY RowFacts
<1>2. \A k \in Rows : /\ count[k] \in Int /\ count'[k] \in Int /\ new[k] \in Int
                      /\ count'[k] = count[k] + new[k]
  <2>1. call[c] \in Locals /\ IInv'
    BY CommitStep DEF IInv, TypeOK
  <2> QED BY <2>1, CommitStep DEF Locals, Counts, IInv, TypeOK
<1> HIDE DEF T, new
<1>3. SumFunctionOnSet(count', T) = SumFunctionOnSet(count, T) + SumFunctionOnSet(new, T)
  BY <1>1, <1>2, SumAdd
<1>4. SumFunctionOnSet(count, T) \in Int
  BY <1>1, <1>2, SumRemove
<1>5. SumFunctionOnSet(new, T) \in Int
  BY <1>1, <1>2, SumRemove
<1>6. /\ Gap(p) = count[State(p)] - SumFunctionOnSet(count, T)
      /\ Gap(p)' = count'[State(p)] - SumFunctionOnSet(count', T)
  BY DEF Gap, T, RacksOf
<1> QED BY <1>1, <1>2, <1>3, <1>4, <1>5, <1>6 DEF T, new

\* Moves, accepts, cancels and counts change a state by what they change on
\* the racks of its product.
LEMMA LegsLeaveNoGap ==
  ASSUME IInv, NEW c \in Calls, Commit(c), call[c].phase = "legs", NEW p \in Products
  PROVE  Gap(p)' = Gap(p)
<1> DEFINE r == request[c]
           l == call[c]
           d == Lines(r, l)
           T == {k \in DOMAIN d : k[1] = p}
           U == RacksOf(p) \ T
<1>1. /\ r.kind \in {"move", "place", "cancel", "count", "discard"} /\ IsRequest(r) /\ l \in Locals
      /\ \A k \in Rows : l.change[k] = Wanted(r, l, k)
  BY LegsCommit
<1>2. /\ IsPerRow(d, Int)
      /\ \A k \in RackRows : Wanted(r, l, k) = IF k \in DOMAIN d THEN d[k] ELSE 0
  BY <1>1, WantedFacts
<1>3. /\ DOMAIN d \subseteq RackRows /\ IsFiniteSet(T)
      /\ State(p) \in DOMAIN PerProduct(d) => PerProduct(d)[State(p)] = SumFunctionOnSet(d, T)
      /\ State(p) \notin DOMAIN PerProduct(d) => T = {}
  BY <1>2, PerProductFacts
<1>4. T \subseteq RacksOf(p) /\ IsFiniteSet(U) /\ U \subseteq RackRows /\ RackRows \subseteq Rows
  <2>1. \A k \in RackRows : k[1] = p => k \in RacksOf(p)
    BY DEF RackRows, RacksOf
  <2>2. RacksOf(p) \subseteq RackRows /\ IsFiniteSet(RacksOf(p)) /\ RackRows \subseteq Rows
    BY RowFacts
  <2> QED BY <1>3, <2>1, <2>2, FS_Subset
<1>5. /\ \A k \in T : l.change[k] = d[k] /\ d[k] \in Int
      /\ \A k \in U : l.change[k] = 0
  <2>1. \A k \in U : k \notin DOMAIN d
    BY DEF RacksOf
  <2> HIDE DEF d
  <2> QED BY <1>1, <1>2, <1>3, <1>4, <2>1 DEF IsPerRow
<1>6. l.change[State(p)] = SumFunctionOnSet(d, T)
  <2>1. State(p) \in Rows /\ State(p) \notin DOMAIN d
    BY <1>3, RowFacts
  <2>2. SumFunctionOnSet(d, {}) = 0
    BY SumZero, FS_EmptySet
  <2>3. CASE r.kind # "move"
    BY <1>1, <1>3, <2>1, <2>2, <2>3 DEF Wanted
  <2>4. CASE r.kind = "move"
    <3>1. l.change[State(p)] = 0
      BY <1>1, <2>1, <2>4 DEF Wanted
    <3>2. d = r.change /\ \A s \in DOMAIN PerProduct(r.change) : PerProduct(r.change)[s] = 0
      BY <1>1, <2>4 DEF Lines, IsRequest
    <3> HIDE DEF d, T
    <3> QED BY <1>3, <2>2, <3>1, <3>2
  <2> QED BY <2>3, <2>4
<1> HIDE DEF d, T
<1>7. SumFunctionOnSet(l.change, T) = SumFunctionOnSet(d, T)
  BY <1>3, <1>5, SumCongruent
<1>8. SumFunctionOnSet(l.change, U) = 0
  BY <1>4, <1>5, SumZero
<1>9. SumFunctionOnSet(l.change, RacksOf(p))
        = SumFunctionOnSet(l.change, T) + SumFunctionOnSet(l.change, U)
  <2>1. RacksOf(p) = T \cup U /\ T \cap U = {}
    BY <1>4
  <2>2. \A k \in T \cup U : l.change[k] \in Int
    BY <1>5
  <2> HIDE DEF U, l
  <2>3. SumFunctionOnSet(l.change, T \cup U)
          = SumFunctionOnSet(l.change, T) + SumFunctionOnSet(l.change, U)
    BY <1>3, <1>4, <2>1, <2>2, SumDisjoint
  <2> QED BY <2>1, <2>3
<1> HIDE DEF U
<1> QED BY <1>6, <1>7, <1>8, <1>9, GapChange

\* An order opens a gap only when it picked too little from racks it emptied.
LEMMA OrderLeavesGap ==
  ASSUME IInv, NEW c \in Calls, Commit(c), call[c].phase = "pick",
         NEW p \in Products, Gap(p)' # Gap(p)
  PROVE  /\ request[c].kind = "order"
         /\ Picked(c, p) < Units(c)[p]
         /\ \A r \in Racks : count'[<<p, r>>] > 0 => <<p, r>> \notin call[c].found
<1> DEFINE l == call[c]
           picked == SumFunctionOnSet(l.change, RacksOf(p))
<1>1. Good(request[c], l, Held(c)) /\ l \in Locals /\ l.asked = <<>> /\ l.todo = <<>>
  BY DEF IInv, TypeOK, Commit, Idle
<1>2. request[c].kind = "order"
  BY <1>1 DEF Good, PhaseOfKind
<1>3. request[c].units \in [Products -> Nat] /\ Units(c) = request[c].units
  BY <1>2, OrderFacts
<1>4. ToSet(l.asked) = {} /\ TodoRows(l) = {}
  BY <1>1 DEF ToSet, TodoRows, RowsIn
<1>5. l.change[State(p)] = -request[c].units[p] /\ picked \in Int
  BY <1>1, GapChange DEF Good, PickingRacks
<1>6. request[c].units[p] + picked # 0
  <2>1. l.change[State(p)] - picked # 0
    BY GapChange
  <2>2. request[c].units[p] \in Int
    BY <1>3
  <2> HIDE DEF l, picked
  <2> QED BY <1>5, <2>1, <2>2
<1>7. p \in OrderedIn(request[c])
  <2> SUFFICES ASSUME p \notin OrderedIn(request[c]) PROVE FALSE
    OBVIOUS
  <2>1. request[c].units[p] = 0
    BY <1>3 DEF OrderedIn
  <2>2. \A k \in RacksOf(p) : l.change[k] = 0
    <3>1. \A k \in RacksOf(p) : k \in RackRows /\ k[1] = p
      BY RowFacts DEF RacksOf
    <3> QED BY <1>1, <3>1 DEF Good, Ordering
  <2>3. picked = 0
    <3>1. IsFiniteSet(RacksOf(p))
      BY RowFacts
    <3> QED BY <2>2, <3>1, SumZero
  <2> QED BY <1>6, <2>1, <2>3
<1>8. Settled(request[c], l, p)
  BY <1>1, <1>4, <1>7 DEF Good, PickingRacks
<1> HIDE DEF picked
<1>9. /\ -picked < request[c].units[p]
      /\ \A k \in l.found : k[1] = p => l.seen[k] + l.change[k] = 0
  <2>1. \/ -picked = request[c].units[p]
        \/ /\ -picked < request[c].units[p]
           /\ \A k \in l.found : k[1] = p => l.seen[k] + l.change[k] = 0
    BY <1>8 DEF Settled, picked
  <2> QED BY <1>3, <1>5, <1>6, <2>1
<1>10. Picked(c, p) < Units(c)[p]
  BY <1>3, <1>9 DEF Picked, picked, RacksOf
<1>11. ASSUME NEW r \in Racks, count'[<<p, r>>] > 0, <<p, r>> \in l.found PROVE FALSE
  <2>1. <<p, r>> \in Held(c) /\ <<p, r>> \in Rows
    <3>1. l.found \subseteq Held(c)
      BY <1>1, <1>4 DEF Good, PickingRacks
    <3> QED BY <1>11, <3>1 DEF Held
  <2>2. count'[<<p, r>>] = count[<<p, r>>] + l.change[<<p, r>>]
    BY <2>1, CommitStep
  <2>3. l.seen[<<p, r>>] = count[<<p, r>>]
    BY <2>1 DEF IInv, SeenIsFresh
  <2>4. l.seen[<<p, r>>] + l.change[<<p, r>>] = 0
    BY <1>9, <1>11
  <2> QED BY <1>11, <2>2, <2>3, <2>4
<1> QED BY <1>2, <1>10, <1>11

\* State and racks of a product part only when an order finds too little, and
\* then every rack that holds the product afterwards was not among those found.
THEOREM DriftNeedsLateGoods == Spec => DriftOnlyByLateGoods
<1>1. ASSUME IInv, [Next]_vars, NEW p \in Products, Gap(p)' # Gap(p)
      PROVE  \E c \in Calls :
                /\ JustEnded(c) /\ request[c].kind = "order"
                /\ Picked(c, p) < Units(c)[p]
                /\ \A r \in Racks : count'[<<p, r>>] > 0 => <<p, r>> \notin call[c].found
  <2>1. count' # count
    BY <1>1 DEF Gap
  <2>2. PICK c \in Calls : Commit(c) /\ JustEnded(c)
    BY <1>1, <2>1, CommitOrNot
  <2>3. call[c].phase = "pick"
    BY <1>1, <2>2, LegsLeaveNoGap DEF Commit
  <2> QED BY <1>1, <2>2, <2>3, OrderLeavesGap
<1>2. IInv /\ [Next]_vars =>
        [\A p \in Products : Gap(p)' # Gap(p) =>
           \E c \in Calls :
             /\ JustEnded(c) /\ request[c].kind = "order"
             /\ Picked(c, p) < Units(c)[p]
             /\ \A r \in Racks : count'[<<p, r>>] > 0 => <<p, r>> \notin call[c].found]_vars
  BY <1>1
<1> QED BY InitIInv, NextIInv, <1>2, PTL DEF Spec, DriftOnlyByLateGoods

-----------------------------------------------------------------------------
(* The order of the picks                                                   *)

\* Only an order in the middle of a pick, or a call that has ended, has a queue.
NoQueue == \A c \in Calls : call[c].phase \notin Ended \cup {"picking"} => call[c].queue = <<>>

\* A step keeps the queues, but for the query and the pick of an order.
LEMMA QueueStep ==
  ASSUME TypeOK, NEW c \in Calls, Step(c)
  PROVE  /\ \A d \in Calls \ {c} : call'[d] = call[d]
         /\ \/ FindRacks(c) /\ call'[c].phase = "picking"
            \/ TakeFromRacks(c) /\ call'[c].queue = <<>>
            \/ /\ call'[c].queue = call[c].queue
               /\ call'[c].phase \in Ended \/ call[c].phase # "picking"
               /\ call[c].phase \in Ended => call'[c].phase \in Ended
            \/ Lock(c) /\ call'[c].queue = call[c].queue /\ call'[c].phase = call[c].phase
<1>1. DOMAIN call = Calls /\ call[c] \in Locals /\ DOMAIN call[c] = DOMAIN Fresh
  BY DEF TypeOK, Locals, Fresh
<1>2. CASE Lock(c)
  BY <1>1, <1>2 DEF Lock, Locals
<1>3. CASE RejectMove(c) \/ RefuseDeadRack(c) \/ Abort(c) \/ SessionEnded(c) \/ RackDelete(c) \/ Commit(c)
  <2>1. PICK phase \in Ended : call' = [call EXCEPT ![c].phase = phase, ![c].todo = <<>>]
    BY <1>3 DEF RejectMove, RefuseDeadRack, Abort, SessionEnded, RackDelete, Commit, End, Ended
  <2> QED BY <1>1, <2>1 DEF Locals
<1>4. CASE BeginOrder(c)
  BY <1>1, <1>4 DEF BeginOrder, Is, Locals, Ended
<1>5. CASE CheckStock(c)
  <2>1. call[c].phase = "states"
    BY <1>5 DEF CheckStock, Is
  <2>2. CASE call' = [call EXCEPT ![c].phase = "pick", ![c].change = [k \in Rows |->
                 IF k[2] = 0 THEN -Units(c)[k[1]] ELSE 0]]
    BY <1>1, <2>1, <2>2 DEF Locals, Ended
  <2>3. CASE call' = [call EXCEPT ![c].phase = "refused", ![c].todo = <<>>]
    BY <1>1, <2>3 DEF Locals, Ended
  <2> QED BY <1>5, <2>2, <2>3 DEF CheckStock, End
<1>6. CASE FindRacks(c)
  <2>1. PICK q : call' = [call EXCEPT ![c].phase = "picking", ![c].todo = Plain(q),
                                      ![c].queue = q, ![c].found = @ \cup ToSet(q)]
    BY <1>6 DEF FindRacks
  <2>2. call'[c].phase = "picking"
    BY <1>1, <2>1 DEF Locals
  <2>3. \A d \in Calls \ {c} : call'[d] = call[d]
    BY <1>1, <2>1
  <2> QED BY <1>6, <2>2, <2>3
<1>7. CASE TakeFromRacks(c)
  BY <1>1, <1>7 DEF TakeFromRacks, Locals
<1>8. CASE BeginMove(c) \/ BeginPlace(c) \/ BeginCancel(c) \/ BeginDiscard(c)
  <2>1. call[c].phase = "ready"
    BY <1>8 DEF BeginMove, BeginPlace, BeginCancel, BeginDiscard, Is
  <2>2. PICK todo : call' = [call EXCEPT ![c].phase = "legs", ![c].todo = todo, ![c].checked = live]
    BY <1>8 DEF BeginMove, BeginPlace, BeginCancel, BeginDiscard, BeginLegs
  <2> QED BY <1>1, <2>1, <2>2 DEF Locals, Ended
<1>9. CASE BeginCount(c)
  BY <1>1, <1>9 DEF BeginCount, Is, Locals, Ended
<1>10. CASE DiffCounts(c)
  BY <1>1, <1>10 DEF DiffCounts, Is, Locals, Ended
<1> QED BY <1>2, <1>3, <1>4, <1>5, <1>6, <1>7, <1>8, <1>9, <1>10 DEF Step

LEMMA NextNoQueue == TypeOK /\ NoQueue /\ [Next]_vars => NoQueue'
<1> SUFFICES ASSUME TypeOK, NoQueue, [Next]_vars PROVE NoQueue'
  OBVIOUS
<1>1. CASE UNCHANGED vars
  BY <1>1 DEF vars, NoQueue
<1>2. ASSUME NEW c \in Calls, Step(c) PROVE NoQueue'
  <2>1. \A d \in Calls \ {c} : call'[d] = call[d]
    BY <1>2, QueueStep
  <2>2. call'[c].phase \notin Ended \cup {"picking"} => call'[c].queue = <<>>
    BY <1>2, QueueStep DEF NoQueue
  <2> QED BY <2>1, <2>2 DEF NoQueue
<1> QED BY <1>1, <1>2 DEF Next

\* Which racks are out of order is read off the queue and the counts: they can
\* be where they were not only if the count of one of the two is another.
LEMMA OutOfOrderCounts ==
  ASSUME TypeOK, TypeOK', NEW c \in Calls, call'[c].queue = call[c].queue,
         NEW x \in OutOfOrder(c)' \ OutOfOrder(c)
  PROVE  \E k \in {x[1], x[2]} : k \in Rows /\ count'[k] # count[k]
<1> DEFINE q == call[c].queue
<1>1. q \in Seq(RackRows)
  BY DEF TypeOK, Locals
<1>2. PICK i, j \in DOMAIN q : /\ i < j /\ x = <<q[i], q[j]>>
                               /\ PickedBefore(count', q[j], q[i])
  BY DEF OutOfOrder
<1>3. q[i] \in RackRows /\ q[j] \in RackRows /\ q[i] \in ToSet(q) /\ q[j] \in ToSet(q)
  BY <1>1, <1>2, ElementOfSeq, LenProperties DEF ToSet
<1>4. ~PickedBefore(count, q[j], q[i])
  BY <1>2, <1>3 DEF OutOfOrder
<1>5. count'[q[i]] # count[q[i]] \/ count'[q[j]] # count[q[j]]
  BY <1>2, <1>4 DEF PickedBefore
<1> QED BY <1>2, <1>3, <1>5, RowFacts

\* What the query returns is in order.
LEMMA FoundInOrder ==
  ASSUME IInv, NEW c \in Calls, FindRacks(c)
  PROVE  OutOfOrder(c)' = {}
<1> DEFINE S == {k \in rows : k[1] = Head(call[c].asked) /\ count[k] > 0}
<1>1. PICK q \in SetToSeqs(S) :
         /\ IsSorted(q, ByCount)
         /\ call' = [call EXCEPT ![c].phase = "picking", ![c].todo = Plain(q),
                                 ![c].queue = q, ![c].found = @ \cup ToSet(q)]
  BY DEF FindRacks
<1>2. call'[c].queue = q /\ count' = count
  BY <1>1 DEF FindRacks, committed, IInv, TypeOK, Locals
<1>3. S \subseteq RackRows /\ IsFiniteSet(S)
  BY RowFacts, FS_Subset DEF IInv, TypeOK
<1> HIDE DEF S
<1>4. q \in Seq(S) /\ DOMAIN q = 1 .. Len(q)
  BY <1>3, InSeqs
<1>5. ASSUME NEW i \in DOMAIN q, NEW j \in DOMAIN q, i < j, PickedBefore(count, q[j], q[i])
      PROVE  FALSE
  <2>1. PickedBefore(count, q[i], q[j])
    BY <1>1, <1>4, <1>5 DEF IsSorted, ByCount
  <2>2. q[i] \in RackRows /\ q[j] \in RackRows
    BY <1>3, <1>4, ElementOfSeq
  <2>3. /\ count[q[i]] \in Int /\ count[q[j]] \in Int /\ q[i][2] \in Int /\ q[j][2] \in Int
        /\ q[i] = <<q[i][1], q[i][2]>> /\ q[j] = <<q[j][1], q[j][2]>>
    BY <2>2, RowFacts DEF IInv, TypeOK, Counts
  <2>4. q[i][1] = q[j][1]
    BY <1>4, ElementOfSeq DEF S
  <2> QED BY <1>5, <2>1, <2>3, <2>4 DEF PickedBefore
<1> QED BY <1>2, <1>5 DEF OutOfOrder

\* An order drains racks in the order of the picking policy; two racks are taken
\* the wrong way round only if one changed before the order had locked it.
THEOREM PicksFollowPolicy == Spec => DrainsByPolicy
<1>1. ASSUME IInv, IInv', NoQueue, [Next]_vars, NEW c \in Calls, NEW x \in OutOfOrder(c)' \ OutOfOrder(c)
      PROVE  \E k \in {x[1], x[2]} : c \notin holder[k] /\ count'[k] # count[k]
  <2>1. PICK d \in Calls : Step(d)
    BY <1>1 DEF Next, vars, committed, OutOfOrder
  <2>2. ~FindRacks(c)
    BY <1>1, FoundInOrder
  <2>3. call'[c].queue # <<>>
    BY <1>1 DEF OutOfOrder
  <2>4. call'[c].queue = call[c].queue
    BY <1>1, <2>1, <2>2, <2>3, QueueStep DEF IInv
  <2>5. PICK k \in {x[1], x[2]} : k \in Rows /\ count'[k] # count[k]
    BY <1>1, <2>4, OutOfOrderCounts DEF IInv
  <2>6. Commit(d)
    BY <1>1, <2>1, <2>5, StepEffect DEF IInv
  <2>7. d \in holder[k]
    <3>1. /\ count'[k] = count[k] + call[d].change[k]
          /\ call[d].change[k] # 0 => k \in Held(d)
      BY <1>1, <2>5, <2>6, CommitStep
    <3>2. count[k] \in Int
      BY <1>1, <2>5 DEF IInv, TypeOK, Counts
    <3> QED BY <2>5, <3>1, <3>2 DEF Held
  <2>8. d # c
    <3>1. call[d].phase \in {"legs", "pick"}
      BY <2>6 DEF Commit
    <3>2. call[d].queue = <<>>
      BY <1>1, <3>1 DEF NoQueue, Ended
    <3> QED BY <2>3, <2>4, <3>2
  <2>9. c \notin holder[k]
    BY <1>1, <2>5, <2>7, <2>8 DEF IInv, TypeOK
  <2> QED BY <2>5, <2>9
<1>2. ASSUME IInv, [Next]_vars, NEW c \in Calls, Is(c, "order", "picking"),
             call'[c].phase = "pick", NEW j \in ToSet(call[c].queue), NEW k \in ToSet(call[c].queue),
             PickedBefore(count, j, k), <<k, j>> \notin OutOfOrder(c),
             call'[c].change[k] # call[c].change[k]
      PROVE  call'[c].change[j] = call[c].change[j] - call[c].seen[j]
  <2> DEFINE l == call[c]
             q == l.queue
             take == Picks(c, Head(l.asked))
             ch == [r \in Rows |-> l.change[r] - SumFunctionOnSet(take,
                                                    {i \in DOMAIN take : q[i] = r})]
  <2>1. TakeFromRacks(c)
    <3>1. PICK d \in Calls : Step(d)
      BY <1>2 DEF Next, vars, Is
    <3> QED BY <1>2, <3>1, QueueStep DEF IInv, Is, Ended
  <2>2. call'[c].change = ch
    BY <1>2, <2>1 DEF TakeFromRacks, IInv, TypeOK, Locals
  <2>3. /\ l \in Locals /\ ch \in Counts
        /\ \A r \in ToSet(q) : r \in RackRows /\ l.change[r] = 0
        /\ \A a, b \in DOMAIN q : a < b /\ ch[q[b]] # 0 => ch[q[a]] = -l.seen[q[a]]
    BY <1>2, <2>1, TakeEffect
  <2> HIDE DEF ch
  <2>4. PICK a, b \in DOMAIN q : j = q[a] /\ k = q[b]
    BY DEF ToSet
  <2>5. a \in Int /\ b \in Int
    BY <2>3, <2>4, LenProperties DEF Locals
  <2>6. ~(b < a)
    BY <1>2, <2>4 DEF OutOfOrder
  <2>7. j # k
    <3>1. j \in Rows
      BY <2>3, RowFacts
    <3> QED BY <1>2, <3>1, RowFacts DEF PickedBefore, IInv, TypeOK, Counts
  <2>8. a < b
    BY <2>4, <2>5, <2>6, <2>7
  <2>9. ch[j] = -l.seen[j]
    BY <1>2, <2>2, <2>3, <2>4, <2>8
  <2>10. l.seen[j] \in Int /\ l.change[j] = 0
    BY <2>3, RowFacts DEF Locals, Counts
  <2> QED BY <2>2, <2>9, <2>10
<1>3. Init => NoQueue
  BY DEF Init, NoQueue, Fresh
<1>4. IInv /\ NoQueue /\ [Next]_vars => NoQueue'
  BY NextNoQueue DEF IInv
<1>5. IInv /\ IInv' /\ NoQueue /\ [Next]_vars =>
        [\A c \in Calls :
           /\ \A x \in OutOfOrder(c)' \ OutOfOrder(c) :
                 \E k \in {x[1], x[2]} : c \notin holder[k] /\ count'[k] # count[k]
           /\ Is(c, "order", "picking") /\ call'[c].phase = "pick" =>
              \A j, k \in ToSet(call[c].queue) :
                 /\ PickedBefore(count, j, k) /\ <<k, j>> \notin OutOfOrder(c)
                 /\ call'[c].change[k] # call[c].change[k]
                 => call'[c].change[j] = call[c].change[j] - call[c].seen[j]]_vars
  BY <1>1, <1>2
<1> QED BY InitIInv, NextIInv, <1>3, <1>4, <1>5, PTL DEF Spec, DrainsByPolicy
=============================================================================
