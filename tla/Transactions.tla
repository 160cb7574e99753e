---------------------------- MODULE Transactions ----------------------------
(***************************************************************************)
(* TransactionCreate (its five kinds), TransactionCancel and the rack      *)
(* picking policy of ProductConfig.                                        *)
(***************************************************************************)
EXTENDS StockLedger

VARIABLE picking    \* product_configs.placement_picking; no row means smaller

Policies     == {"smaller", "bigger"}
InboundKinds == {"restock", "return", "found_back"}
PlainKinds   == InboundKinds \cup {"problem"}

-----------------------------------------------------------------------------
(* applyOrderPlacements: racks are drained greedily, in the order of the    *)
(* policy; what the racks do not hold stays unpicked.                       *)

Pickable(w, p) == {r \in Racks : place[w][p][r] > 0}

PickedBefore(w, p, r, q) ==
    LET a == place[w][p][r]
        b == place[w][p][q]
    IN  \/ a = b /\ r < q
        \/ a < b /\ picking[w][p] = "smaller"
        \/ a > b /\ picking[w][p] = "bigger"

\* Mutant of IsPick: one rack has to do.
IsPickOfOneRack(w, p, need, take) ==
    \A r \in Racks :
        take[r] = IF /\ r \in Pickable(w, p)
                     /\ \A q \in Pickable(w, p) \ {r} : PickedBefore(w, p, r, q)
                  THEN IF need < place[w][p][r] THEN need ELSE place[w][p][r]
                  ELSE 0

IsPick(w, p, need, take) ==
    LET racks == Pickable(w, p)
        held  == SumFunctionOnSet(place[w][p], racks)
    IN  /\ \A r \in Racks \ racks : take[r] = 0
        /\ \A r \in racks : take[r] <= place[w][p][r]
        /\ \A r, q \in racks :
              PickedBefore(w, p, r, q) /\ take[q] > 0 => take[r] = place[w][p][r]
        /\ SumFunction(take) = IF need < held THEN need ELSE held

\* Mutant of OrderCreate: only what was picked leaves the stock.
OrderPicked(w, items) ==
    \E tx \in TxIds, picks \in RackCounts :
        /\ IsNextId(tx)
        /\ \A p \in Products : items[p] > 0 => items[p] <= stock[w][p]
        /\ \A p \in Products : IsPick(w, p, items[p], picks[p])
        /\ InsertTransaction(tx, w, "order", items)
        /\ ProcessStockBatchLog(tx, At(w, [p \in Products |-> -SumFunction(picks[p])]))
        /\ ApplyPlacements(tx, NegMove(AtRacks(w, picks)))
        /\ UNCHANGED <<batches, picking>>

OrderCreate(w, items) ==
    \E tx \in TxIds, picks \in RackCounts :
        /\ IsNextId(tx)
        /\ \A p \in Products : items[p] > 0 => items[p] <= stock[w][p]
        /\ \A p \in Products : IsPick(w, p, items[p], picks[p])
        /\ InsertTransaction(tx, w, "order", items)
        /\ ProcessStockBatchLog(tx, At(w, Signed(Direction("order"), items)))
        /\ ApplyPlacements(tx, NegMove(AtRacks(w, picks)))
        /\ UNCHANGED <<batches, picking>>

\* The other kinds never touch a rack and never look at the stock.
PlainCreate(w, type, items) ==
    \E tx \in TxIds :
        /\ IsNextId(tx)
        /\ InsertTransaction(tx, w, type, items)
        /\ ProcessStockBatchLog(tx, At(w, Signed(Direction(type), items)))
        /\ IF type \in InboundKinds THEN MintBatches(tx, items) ELSE UNCHANGED batches
        /\ UNCHANGED <<placeVars, picking>>

\* Mutant of TransactionCancel: without batch-log rows only the status changes.
CancelUnlogged(tx) ==
    /\ Exists(tx)
    /\ trx[tx].status = "active"
    /\ \/ /\ tx \in logged
          /\ ReconstructCancel(tx)
          /\ ApplyPlacements(tx, CancelMove(tx))
       \/ /\ tx \notin logged
          /\ UNCHANGED <<logVars, placeVars>>
    /\ VoidBatches(tx)
    /\ trx' = [trx EXCEPT ![tx].status = "canceled"]
    /\ UNCHANGED picking

\* The transaction's type is not looked at: any id the table holds will do.
TransactionCancel(tx) ==
    /\ Exists(tx)
    /\ trx[tx].status = "active"
    /\ ReconstructCancel(tx)
    /\ ApplyPlacements(tx, CancelMove(tx))
    /\ VoidBatches(tx)
    /\ trx' = [trx EXCEPT ![tx].status = "canceled"]
    /\ UNCHANGED picking

ProductConfigUpdate(w, p, policy) ==
    /\ picking' = [picking EXCEPT ![w][p] = policy]
    /\ UNCHANGED ledgerVars

-----------------------------------------------------------------------------
TransactionsInit == picking = [w \in Warehouses |-> [p \in Products |-> "smaller"]]

TransactionsNext ==
    \/ \E w \in Warehouses, items \in Requests : OrderCreate(w, items)
    \/ \E w \in Warehouses, type \in PlainKinds, items \in Requests :
          PlainCreate(w, type, items)
    \/ \E tx \in TxIds : TransactionCancel(tx)
    \/ \E w \in Warehouses, p \in Products, policy \in Policies :
          ProductConfigUpdate(w, p, policy)

TransactionsTypeOK == picking \in [Warehouses -> [Products -> Policies]]
=============================================================================
