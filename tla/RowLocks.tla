------------------------------ MODULE RowLocks ------------------------------
(***************************************************************************)
(* Calls that lock several rows of one warehouse, and what the order of    *)
(* their locks leads to.  Under READ COMMITTED a statement finds its rows  *)
(* in the last commit, then locks them one after the other in the order it *)
(* found them, waiting for each, and goes on with their newest version.    *)
(* PostgreSQL aborts a call that waits in a circle.                        *)
(*                                                                         *)
(* A row <<p, 0>> is product p's stock_states row, <<p, r>> its            *)
(* stock_placements row on rack r, which need not exist yet: a call that   *)
(* inserts a row holds its key like a lock.  What a call writes others see *)
(* when it commits.  Batches and the logs' own rows are never waited for.  *)
(***************************************************************************)
EXTENDS Integers, FiniteSets, SequencesExt

CONSTANTS
    Products, Racks,    \* numbers, because calls sort by them
    Bigger,             \* products whose ProductConfig picks big racks first
    Calls,              \* the calls, each made by one client
    Scenarios,          \* bound: what the calls of one behaviour ask for
    InitCount,          \* counts when the behaviour starts
    InitRows            \* stock_placements rows that exist by then

State(p) == <<p, 0>>
RackRows == Products \X Racks
Rows     == RackRows \cup {State(p) : p \in Products}
Counts   == [Rows -> Int]

\* Order: units of each product.  Move, place (the accept of a transfer or a
\* restock) and cancel (of an order): a change per rack row.  Count: an
\* OpnameComplete with its counted lines.  Discard: the OpnameCancel of the
\* same session.  Delete: a rack.
Kinds == {"order", "move", "place", "cancel", "count", "discard", "delete"}

\* The sum of a change over the racks of each product.
PerProduct(change) ==
    [s \in {State(k[1]) : k \in DOMAIN change} |->
        SumFunctionOnSet(change, {k \in DOMAIN change : k[1] = s[1]})]

IsPerRow(change, S) ==
    DOMAIN change \subseteq RackRows /\ \A k \in DOMAIN change : change[k] \in S

\* A move takes from a rack what it puts on another.
IsRequest(r) ==
    \/ r.kind = "order"  /\ r.units \in [Products -> Nat]
    \/ r.kind = "move"   /\ IsPerRow(r.change, Int)
                         /\ \A s \in DOMAIN PerProduct(r.change) : PerProduct(r.change)[s] = 0
    \/ r.kind = "place"  /\ IsPerRow(r.change, Nat)
    \/ r.kind = "cancel" /\ IsPerRow(r.change, Nat)
    \/ r.kind = "count"  /\ IsPerRow(r.counted, Nat)
    \/ r.kind = "discard"
    \/ r.kind = "delete" /\ r.rack \in Racks

ASSUME RowLocksAssumption ==
    /\ Products \subseteq Nat \ {0} /\ IsFiniteSet(Products) /\ Bigger \subseteq Products
    /\ Racks \subseteq Nat \ {0} /\ IsFiniteSet(Racks)
    /\ InitCount \in Counts /\ \A k \in RackRows : InitCount[k] >= 0
    /\ InitRows \subseteq RackRows
    /\ \A s \in Scenarios : DOMAIN s = Calls /\ \A c \in Calls : IsRequest(s[c])

VARIABLES
    count,      \* committed stock_ready and count columns
    rows,       \* committed stock_placements rows
    logged,     \* committed SUM(change) of the log rows of each row
    live,       \* racks that are not deleted
    session,    \* status of the stock-take session
    holder,     \* per row: the calls that hold it, at most one
    request,    \* what each call asks for
    call        \* the locals of each call's handler

committed == <<count, rows, logged, live, session>>
vars == <<committed, holder, request, call>>

\* phase; todo: <<row, change>>, rows to be locked and changed next; seen: what
\* it read under the locks; change: what it writes on top of that; asked:
\* products still to be picked; queue: placement rows the query for one of them
\* returned, in its order; found: all that its queries returned; checked: the
\* racks that were live when it looked.
Fresh == [phase |-> "ready", todo |-> <<>>, seen |-> [k \in Rows |-> 0],
          change |-> [k \in Rows |-> 0], asked |-> <<>>, queue |-> <<>>,
          found |-> {}, checked |-> {}]

Phases == {"ready", "states", "pick", "picking", "counting", "legs",
           "ok", "refused", "aborted"}
Ended  == {"ok", "refused", "aborted"}

Locals == [phase : Phases, todo : Seq(Rows \X Int), seen : Counts, change : Counts,
           asked : Seq(Products), queue : Seq(RackRows),
           found : SUBSET RackRows, checked : SUBSET Racks]

Is(c, kind, phase) == request[c].kind = kind /\ call[c].phase = phase
Idle(c) == call[c].todo = <<>>

End(c, phase) ==
    /\ holder' = [k \in Rows |-> holder[k] \ {c}]
    /\ call' = [call EXCEPT ![c].phase = phase, ![c].todo = <<>>]

-----------------------------------------------------------------------------
(* Orders of locking                                                        *)

ByProduct(j, k)   == j[1] < k[1]
ByRack(j, k)      == j[2] < k[2] \/ (j[2] = k[2] /\ j[1] < k[1])

\* The order the picking policy gives two racks of a product.
PickedBefore(counts, j, k) ==
    IF counts[j] = counts[k] THEN j[2] < k[2]
    ELSE IF j[1] \in Bigger THEN counts[j] > counts[k] ELSE counts[j] < counts[k]

\* Mutant of ByCount: the ProductConfig is not looked at.
ByCountSmallest(j, k) == count[j] < count[k] \/ (count[j] = count[k] /\ j[2] < k[2])

ByCount(j, k) == PickedBefore(count, j, k)

Plain(seq)           == [i \in DOMAIN seq |-> <<seq[i], 0>>]
With(seq, change)    == [i \in DOMAIN seq |-> <<seq[i], change[seq[i]]>>]

NonZero(change) == {k \in DOMAIN change : change[k] # 0}

-----------------------------------------------------------------------------
(* One lock: SELECT ... FOR UPDATE of a row, or its insertion               *)

Row(c)  == Head(call[c].todo)[1]
Read(c) == IF c \in holder[Row(c)] THEN call[c].seen[Row(c)] ELSE count[Row(c)]
Left(c) == Read(c) + call[c].change[Row(c)] + Head(call[c].todo)[2]

\* Mutant of Overdraws: looks at what is there before the leg.
OverdrawsEmpty(c) == /\ request[c].kind = "move"
                     /\ Head(call[c].todo)[2] < 0 /\ Read(c) < 0

\* ApplyPlacementMove's guard on what leaves a rack.
Overdraws(c) == /\ request[c].kind = "move"
                /\ Head(call[c].todo)[2] < 0 /\ Left(c) < 0

Lock(c) ==
    /\ ~Idle(c)
    /\ holder[Row(c)] \subseteq {c}
    /\ ~Overdraws(c)
    /\ holder' = [holder EXCEPT ![Row(c)] = {c}]
    /\ call' = [call EXCEPT ![c].todo = Tail(@), ![c].seen[Row(c)] = Read(c),
                            ![c].change[Row(c)] = @ + Head(call[c].todo)[2]]
    /\ UNCHANGED <<committed, request>>

RejectMove(c) ==
    /\ ~Idle(c)
    /\ holder[Row(c)] \subseteq {c}
    /\ Overdraws(c)
    /\ End(c, "refused")
    /\ UNCHANGED <<committed, request>>

\* What an OpnameComplete or OpnameCancel writes, whatever the status is by
\* then: it was read at the start.
SessionAfter(c) == IF request[c].kind = "count" THEN "completed"
                   ELSE IF request[c].kind = "discard" THEN "canceled"
                   ELSE session

Commit(c) ==
    /\ Idle(c)
    /\ call[c].phase = "legs" \/ (call[c].phase = "pick" /\ call[c].asked = <<>>)
    /\ LET new == call[c].change
           wrote == NonZero(new)
       IN  /\ count' = [k \in Rows |->
                  IF k \in wrote THEN call[c].seen[k] + new[k] ELSE count[k]]
           /\ logged' = [k \in Rows |-> logged[k] + new[k]]
           /\ rows' = rows \cup (wrote \cap RackRows)
    /\ session' = SessionAfter(c)
    /\ End(c, "ok")
    /\ UNCHANGED <<live, request>>

-----------------------------------------------------------------------------
(* applyOrderOutbound                                                       *)

Units(c) == request[c].units
Ordered(c) == {p \in Products : Units(c)[p] > 0}

\* The states in no particular order; the products in the request's.
BeginOrder(c) ==
    /\ Is(c, "order", "ready")
    /\ \E states \in SetToSeqs({State(p) : p \in Ordered(c)}), asked \in SetToSeqs(Ordered(c)) :
          call' = [call EXCEPT ![c].phase = "states", ![c].todo = Plain(states),
                               ![c].asked = asked]
    /\ UNCHANGED <<committed, holder, request>>

CheckStock(c) ==
    /\ Is(c, "order", "states") /\ Idle(c)
    /\ \/ /\ \A p \in Ordered(c) : call[c].seen[State(p)] >= Units(c)[p]
          /\ call' = [call EXCEPT ![c].phase = "pick", ![c].change = [k \in Rows |->
                 IF k[2] = 0 THEN -Units(c)[k[1]] ELSE 0]]
          /\ UNCHANGED holder
       \/ /\ \E p \in Ordered(c) : call[c].seen[State(p)] < Units(c)[p]
          /\ End(c, "refused")
    /\ UNCHANGED <<committed, request>>

\* applyOrderPlacements: the racks that hold the next product, by count as of
\* now: the query sorts before it waits for its locks.
FindRacks(c) ==
    /\ Is(c, "order", "pick") /\ Idle(c)
    /\ call[c].asked # <<>>
    /\ \E holding \in SetToSeqs({k \in rows : k[1] = Head(call[c].asked) /\ count[k] > 0}) :
          /\ IsSorted(holding, ByCount)
          /\ call' = [call EXCEPT ![c].phase = "picking", ![c].todo = Plain(holding),
                                  ![c].queue = holding, ![c].found = @ \cup ToSet(holding)]
    /\ UNCHANGED <<committed, holder, request>>

\* What the racks before the i-th of the queue held.
HeldBefore(c, i) ==
    SumFunctionOnSet([j \in DOMAIN call[c].queue |-> call[c].seen[call[c].queue[j]]],
                     1 .. (i - 1))

\* Mutant of Picks: the loop stops one rack early.
PicksAllButLast(c, p) ==
    [i \in 1 .. (Len(call[c].queue) - 1) |->
        LET open == Units(c)[p] - HeldBefore(c, i)
            here == call[c].seen[call[c].queue[i]]
        IN  IF open <= 0 THEN 0 ELSE IF here < open THEN here ELSE open]

\* The greedy loop, over what is left in the racks that were found.
Picks(c, p) ==
    [i \in DOMAIN call[c].queue |->
        LET open == Units(c)[p] - HeldBefore(c, i)
            here == call[c].seen[call[c].queue[i]]
        IN  IF open <= 0 THEN 0 ELSE IF here < open THEN here ELSE open]

TakeFromRacks(c) ==
    /\ Is(c, "order", "picking") /\ Idle(c)
    /\ LET take == Picks(c, Head(call[c].asked))
       IN  call' = [call EXCEPT ![c].phase = "pick", ![c].asked = Tail(@), ![c].queue = <<>>,
                       ![c].change = [k \in Rows |-> @[k] - SumFunctionOnSet(take,
                           {i \in DOMAIN take : call[c].queue[i] = k})]]
    /\ UNCHANGED <<committed, holder, request>>

-----------------------------------------------------------------------------
(* Moves, accepts, cancels                                                  *)

Change(c) == request[c].change
OnLiveRacks(c) == \A k \in DOMAIN Change(c) : k[2] \in live

BeginLegs(c, todo) ==
    /\ call' = [call EXCEPT ![c].phase = "legs", ![c].todo = todo, ![c].checked = live]
    /\ UNCHANGED <<committed, holder, request>>

\* Mutant of BeginMove: legs in the order of the request.
BeginMoveUnsorted(c) ==
    /\ Is(c, "move", "ready") /\ OnLiveRacks(c)
    /\ \E legs \in SetToSeqs(DOMAIN Change(c)) : BeginLegs(c, With(legs, Change(c)))

\* PlacementMove: the legs by rack and product.
BeginMove(c) ==
    /\ Is(c, "move", "ready") /\ OnLiveRacks(c)
    /\ \E legs \in SetToSeqs(DOMAIN Change(c)) :
          IsSorted(legs, ByRack) /\ BeginLegs(c, With(legs, Change(c)))

\* Mutant of BeginPlace: the racks may be deleted.
BeginPlaceAnywhere(c) ==
    /\ Is(c, "place", "ready")
    /\ \E states \in SetToSeqs(DOMAIN PerProduct(Change(c))), legs \in SetToSeqs(DOMAIN Change(c)) :
          BeginLegs(c, With(states, PerProduct(Change(c))) \o With(legs, Change(c)))

\* TransferAccept and acceptRestock: states and racks in the request's order.
BeginPlace(c) ==
    /\ Is(c, "place", "ready") /\ OnLiveRacks(c)
    /\ \E states \in SetToSeqs(DOMAIN PerProduct(Change(c))), legs \in SetToSeqs(DOMAIN Change(c)) :
          BeginLegs(c, With(states, PerProduct(Change(c))) \o With(legs, Change(c)))

RefuseDeadRack(c) ==
    /\ Is(c, "move", "ready") \/ Is(c, "place", "ready")
    /\ ~OnLiveRacks(c)
    /\ End(c, "refused")
    /\ UNCHANGED <<committed, request>>

\* TransactionCancel: the states by product, the racks in no particular order;
\* whether a rack still exists is not asked.
BeginCancel(c) ==
    /\ Is(c, "cancel", "ready")
    /\ \E states \in SetToSeqs(DOMAIN PerProduct(Change(c))), legs \in SetToSeqs(DOMAIN Change(c)) :
          /\ IsSorted(states, ByProduct)
          /\ BeginLegs(c, With(states, PerProduct(Change(c))) \o With(legs, Change(c)))

RackDelete(c) ==
    /\ Is(c, "delete", "ready")
    /\ \/ /\ request[c].rack \in live
          /\ live' = live \ {request[c].rack}
          /\ End(c, "ok")
       \/ /\ request[c].rack \notin live
          /\ End(c, "refused")
          /\ UNCHANGED live
    /\ UNCHANGED <<count, rows, logged, session, request>>

-----------------------------------------------------------------------------
(* OpnameComplete and OpnameCancel                                          *)

Counted(c) == request[c].counted

\* Mutant of BeginCount: the placements are read without a lock.
BeginCountUnlocked(c) ==
    /\ Is(c, "count", "ready") /\ session = "pending"
    /\ call' = [call EXCEPT ![c].phase = "counting", ![c].seen = count,
                            ![c].found = rows \cap DOMAIN Counted(c)]
    /\ UNCHANGED <<committed, holder, request>>

\* lockCountedPlacements: every row of a counted rack and a counted product.
BeginCount(c) ==
    /\ Is(c, "count", "ready") /\ session = "pending"
    /\ LET racks    == {k[2] : k \in DOMAIN Counted(c)}
           products == {k[1] : k \in DOMAIN Counted(c)}
       IN  \E existing \in SetToSeqs(rows \cap (products \X racks)) :
              /\ IsSorted(existing, ByRack)
              /\ call' = [call EXCEPT ![c].phase = "counting", ![c].todo = Plain(existing),
                                      ![c].found = ToSet(existing)]
    /\ UNCHANGED <<committed, holder, request>>

\* OpnameCancel: it touches no stock, and writes the status when it commits.
BeginDiscard(c) ==
    /\ Is(c, "discard", "ready") /\ session = "pending"
    /\ BeginLegs(c, <<>>)

\* Done already, or refused because it ended the other way.
SessionEnded(c) ==
    /\ Is(c, "count", "ready") \/ Is(c, "discard", "ready")
    /\ session # "pending"
    /\ End(c, IF session = SessionAfter(c) THEN "ok" ELSE "refused")
    /\ UNCHANGED <<committed, request>>

\* Counted minus current; a pair without a row counts as 0.
Delta(c) == [k \in DOMAIN Counted(c) |->
    Counted(c)[k] - (IF k \in call[c].found THEN call[c].seen[k] ELSE 0)]

\* applyOpnameAdjustment: the states by product, then the lines that differ.
DiffCounts(c) ==
    /\ Is(c, "count", "counting") /\ Idle(c)
    /\ LET variance == PerProduct(Delta(c))
       IN  \E states \in SetToSeqs(NonZero(variance)), lines \in SetToSeqs(NonZero(Delta(c))) :
              /\ IsSorted(states, ByProduct) /\ IsSorted(lines, ByRack)
              /\ call' = [call EXCEPT ![c].phase = "legs",
                             ![c].todo = With(states, variance) \o With(lines, Delta(c))]
    /\ UNCHANGED <<committed, holder, request>>

-----------------------------------------------------------------------------
(* external: PostgreSQL's deadlock detector                                 *)

\* Each waits for a row that another of them holds, and each is waited for.
Deadlocked(S) ==
    /\ S # {}
    /\ \A c \in S : ~Idle(c) /\ \E d \in S \ {c} : d \in holder[Row(c)]
    /\ \A d \in S : \E c \in S \ {d} : d \in holder[Row(c)]

\* Mutant of Abort: a circle of two is all it finds.
AbortPair(c) ==
    /\ \E d \in Calls \ {c} : Deadlocked({c, d})
    /\ End(c, "aborted")
    /\ UNCHANGED <<committed, request>>

Abort(c) ==
    /\ \E S \in SUBSET Calls : c \in S /\ Deadlocked(S)
    /\ End(c, "aborted")
    /\ UNCHANGED <<committed, request>>

-----------------------------------------------------------------------------
Init ==
    /\ count = InitCount
    /\ rows = InitRows
    /\ logged = [k \in Rows |-> 0]
    /\ live = Racks
    /\ session = "pending"
    /\ holder = [k \in Rows |-> {}]
    /\ request \in Scenarios
    /\ call = [c \in Calls |-> Fresh]

Step(c) ==
    \/ Lock(c) \/ RejectMove(c) \/ Commit(c)
    \/ BeginOrder(c) \/ CheckStock(c) \/ FindRacks(c) \/ TakeFromRacks(c)
    \/ BeginMove(c) \/ BeginPlace(c) \/ RefuseDeadRack(c) \/ BeginCancel(c)
    \/ BeginCount(c) \/ DiffCounts(c) \/ BeginDiscard(c) \/ SessionEnded(c)
    \/ RackDelete(c)
    \/ Abort(c)

Next == \E c \in Calls : Step(c)

Spec == Init /\ [][Next]_vars

\* A handler that can go on does, and the detector finds every circle.
FairSpec == Spec /\ \A c \in Calls : WF_vars(Step(c))

-----------------------------------------------------------------------------
TypeOK ==
    /\ count \in Counts /\ logged \in Counts
    /\ rows \subseteq RackRows /\ live \subseteq Racks
    /\ session \in {"pending", "completed", "canceled"}
    /\ holder \in [Rows -> SUBSET Calls]
    /\ \A k \in Rows : \A c, d \in holder[k] : c = d
    /\ request \in Scenarios
    /\ call \in [Calls -> Locals]

\* Every balance is the running total of its log, and no rack is overdrawn,
\* whatever overlaps: each handler computes an absolute count, or what it may
\* take, from a value another call could have changed meanwhile.
BalancesKept ==
    /\ TypeOK
    /\ \A k \in Rows : count[k] = InitCount[k] + logged[k]
    /\ \A k \in RackRows : count[k] >= 0

\* placement_move.go: "lock-ordered ... so concurrent moves cannot deadlock
\* each other".  In every circle there is a call of another kind; and a call
\* that takes rack rows before a state row, or none, or one that takes the
\* states of several products: with one product the state row keeps orders,
\* accepts and cancels apart.
DeadlockShape ==
    \A S \in SUBSET Calls : Deadlocked(S) =>
        /\ \E c \in S : request[c].kind # "move"
        /\ \/ \E c \in S : request[c].kind \in {"move", "count"}
           \/ \E c \in S : Cardinality({k \in Rows : k[2] = 0 /\ c \in holder[k]}
                              \cup {k \in {Row(c)} : k[2] = 0}) > 1

Gap(p) == count[State(p)] - SumFunctionOnSet(count, {p} \X Racks)

JustEnded(c) == call[c].phase # "ok" /\ call'[c].phase = "ok"

Picked(c, p) == -SumFunctionOnSet(call[c].change, {p} \X Racks)

\* transaction_order.go calls an order's unpicked remainder "pre-existing"
\* drift.  State and racks of a product part only when an order finds too
\* little, and then every rack that holds the product afterwards held none
\* when the order looked: goods on the move between racks are missed.
DriftOnlyByLateGoods ==
    [][\A p \in Products : Gap(p)' # Gap(p) =>
          \E c \in Calls :
             /\ JustEnded(c) /\ request[c].kind = "order"
             /\ Picked(c, p) < Units(c)[p]
             /\ \A r \in Racks : count'[<<p, r>>] > 0 => <<p, r>> \notin call[c].found]_vars

\* "The COUNTED lines as the absolute truth": a completed count leaves every
\* counted row with what was counted, whatever changed it before.  Only a row
\* that did not exist when it looked keeps what others put there meanwhile,
\* another completion of the same session included.
CountedRowsHoldTruth ==
    [][\A c \in Calls : JustEnded(c) /\ Is(c, "count", "legs") =>
          \A k \in DOMAIN Counted(c) :
             count'[k] = Counted(c)[k]
                 + (IF k \in call[c].found THEN 0 ELSE count[k])]_vars

\* Two racks in an order's queue of which the second is to be picked before the
\* first, by the counts they have now.
OutOfOrder(c) ==
    LET queue == call[c].queue
    IN  {x \in ToSet(queue) \X ToSet(queue) :
            \E i, j \in DOMAIN queue :
               /\ i < j /\ x = <<queue[i], queue[j]>>
               /\ PickedBefore(count, queue[j], queue[i])}

\* transaction_order.go: an order drains racks "per the ProductConfig placement
\* policy".  It takes from a rack only when all that are to be picked before it,
\* by their counts under the lock, are drained.  It takes two racks the wrong way
\* round only if one of them changed while the order had not locked it yet.
DrainsByPolicy ==
    [][\A c \in Calls :
          /\ \A x \in OutOfOrder(c)' \ OutOfOrder(c) :
                \E k \in {x[1], x[2]} : c \notin holder[k] /\ count'[k] # count[k]
          /\ Is(c, "order", "picking") /\ call'[c].phase = "pick" =>
             \A j, k \in ToSet(call[c].queue) :
                /\ PickedBefore(count, j, k) /\ <<k, j>> \notin OutOfOrder(c)
                /\ call'[c].change[k] # call[c].change[k]
                => call'[c].change[j] = call[c].change[j] - call[c].seen[j]]_vars

\* opname_cancel.go: "A completed session cannot be canceled", and a cancel
\* touches no stock; opname_complete.go refuses a canceled one.  Once a
\* session has ended, it keeps that status.
SessionSettledOnce == [][session # "pending" => session' = session]_vars

\* Goods arrive on a deleted rack only by a cancel or a stock-take, or by a
\* call that looked before the rack was deleted.
DeadRackGainsLate ==
    [][\A k \in RackRows : k[2] \notin live /\ count'[k] > count[k] =>
          \E c \in Calls : /\ JustEnded(c)
                           /\ \/ request[c].kind \in {"cancel", "count"}
                              \/ k[2] \in call[c].checked]_vars

\* Every call ends: whatever the order of locks, the detector breaks every
\* circle, and aborting one call is enough for the others to go on.
EveryCallEnds == \A c \in Calls : <>(call[c].phase \in Ended)
=============================================================================
