----------------------------- MODULE Placements -----------------------------
(***************************************************************************)
(* Racks (RackCreate, RackDelete) and the rack-to-rack PlacementMove.      *)
(***************************************************************************)
EXTENDS StockLedger

CONSTANT InitRacks   \* the racks that are live when the behaviour starts

ASSUME RacksAssumption == InitRacks \subseteq Racks

VARIABLE rackState   \* no row yet, live, or soft-deleted

RackStates == {"absent", "live", "deleted"}

LiveRack(w, r) == RackHome[r] = w /\ rackState[r] = "live"

\* The placements of an accept: live racks of the warehouse, every unit placed.
FullyPlaced(w, count, placed) ==
    /\ \A p \in Products, r \in Racks : placed[p][r] > 0 => LiveRack(w, r)
    /\ \A p \in Products : SumFunction(placed[p]) = count[p]

RackCreate(r) ==
    /\ rackState[r] = "absent"
    /\ rackState' = [rackState EXCEPT ![r] = "live"]
    /\ UNCHANGED ledgerVars

\* The rack goes whatever stands on it.
RackDelete(r) ==
    /\ rackState[r] = "live"
    /\ rackState' = [rackState EXCEPT ![r] = "deleted"]
    /\ UNCHANGED ledgerVars

-----------------------------------------------------------------------------
(* A request moves one or two items; the legs of one rack and product run   *)
(* in request order (the sort is stable), so the second item may spend what *)
(* the first one brought.                                                   *)

MoveItems == {m \in [product : Products, from : Racks, to : Racks,
                     count : 1 .. MaxCount] : m.from # m.to}

\* Mutant of Leg: the goods arrive and do not leave.
LegIn(m) == [p \in Products |-> [r \in Racks |->
                IF p = m.product /\ r = m.to THEN m.count ELSE 0]]

Leg(m) == [p \in Products |-> [r \in Racks |->
              CASE p = m.product /\ r = m.to   -> m.count
                [] p = m.product /\ r = m.from -> -m.count
                [] OTHER -> 0]]

LiveEnds(w, m) == LiveRack(w, m.from) /\ LiveRack(w, m.to)

SameRoute(m, n) == m.product = n.product /\ m.from = n.from /\ m.to = n.to

MoveOne(w, m) ==
    /\ LiveEnds(w, m)
    /\ m.count <= place[w][m.product][m.from]
    /\ place' = AddMove(place, AtRacks(w, Leg(m)))
    /\ UNCHANGED <<logVars, placeNet, trx, batches, rackState>>

\* Mutant of MoveTwo: both items are held against the counts read first.
MoveTwoUnseen(w, m, n) ==
    /\ LiveEnds(w, m) /\ LiveEnds(w, n)
    /\ ~SameRoute(m, n)
    /\ m.count <= place[w][m.product][m.from]
    /\ n.count <= place[w][n.product][n.from]
    /\ place' = AddMove(AddMove(place, AtRacks(w, Leg(m))), AtRacks(w, Leg(n)))
    /\ UNCHANGED <<logVars, placeNet, trx, batches, rackState>>

MoveTwo(w, m, n) ==
    /\ LiveEnds(w, m) /\ LiveEnds(w, n)
    /\ ~SameRoute(m, n)
    /\ m.count <= place[w][m.product][m.from]
    /\ n.count <= place[w][n.product][n.from] + Leg(m)[n.product][n.from]
    /\ place' = AddMove(AddMove(place, AtRacks(w, Leg(m))), AtRacks(w, Leg(n)))
    /\ UNCHANGED <<logVars, placeNet, trx, batches, rackState>>

PlacementMove(w) ==
    \/ \E m \in MoveItems : MoveOne(w, m)
    \/ \E m, n \in MoveItems : MoveTwo(w, m, n)

-----------------------------------------------------------------------------
PlacementsInit ==
    rackState = [r \in Racks |-> IF r \in InitRacks THEN "live" ELSE "absent"]

PlacementsNext ==
    \/ \E r \in Racks : RackCreate(r) \/ RackDelete(r)
    \/ \E w \in Warehouses : PlacementMove(w)

PlacementsTypeOK == rackState \in [Racks -> RackStates]
=============================================================================
