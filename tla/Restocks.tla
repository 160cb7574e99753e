------------------------------ MODULE Restocks ------------------------------
(***************************************************************************)
(* Supplier restock documents: RestockCreate and the actions of            *)
(* RestockUpdate.  A request with several actions is a sequence of these   *)
(* steps: each sees the document the one before left, in one transaction.  *)
(***************************************************************************)
EXTENDS Placements

CONSTANTS
    RestockIds,   \* ids inventory_restocks may hand out, in order
    Lines         \* line numbers a document may use for one product

ASSUME RestocksAssumption ==
    RestockIds \subseteq Nat /\ Lines \subseteq Nat /\ IsFiniteSet(Lines)

VARIABLE restocks     \* inventory_restocks with their item rows

NoRestock == [status |-> "none"]

\* rows[p][i] is the count of the i-th row of product p, 0 when there is none;
\* the rows of one product are not merged.
RowCounts == [Products -> [Lines -> Nat]]

Restock == [warehouse : Warehouses, rows : RowCounts, problem : [Products -> Nat],
            status : {"pending", "problem", "accepted", "canceled"},
            tx : SUBSET TxIds]

Rows == {rows \in [Products -> [Lines -> 0 .. MaxCount]] :
            \E p \in Products, i \in Lines : rows[p][i] > 0}

IsNextRestock(d) == /\ restocks[d] = NoRestock
                    /\ \A e \in RestockIds : e < d => restocks[e] # NoRestock

\* requireEditable
Editable(d) == restocks[d].status \in {"pending", "problem"}

-----------------------------------------------------------------------------
RestockCreate(d, w, rows) ==
    /\ IsNextRestock(d)
    /\ restocks' = [restocks EXCEPT ![d] =
           [warehouse |-> w, rows |-> rows, problem |-> NoItems,
            status |-> "pending", tx |-> {}]]
    /\ UNCHANGED <<ledgerVars, rackState>>

\* change_status: the marker only, in either direction.
ChangeStatus(d, status) ==
    /\ Editable(d)
    /\ restocks' = [restocks EXCEPT ![d].status = status]
    /\ UNCHANGED <<ledgerVars, rackState>>

\* update_items: the new rows start without problem counts.
UpdateItems(d, rows) ==
    /\ Editable(d)
    /\ restocks' = [restocks EXCEPT ![d].rows = rows, ![d].problem = NoItems]
    /\ UNCHANGED <<ledgerVars, rackState>>

\* restock_cancel: a status flip.
RestockCancel(d) ==
    /\ Editable(d)
    /\ restocks' = [restocks EXCEPT ![d].status = "canceled"]
    /\ UNCHANGED <<ledgerVars, rackState>>

-----------------------------------------------------------------------------
(* restock_accept.  The maps of the code are keyed by product: the last row *)
(* of a product is the one problem and placement counts are compared with,  *)
(* while every row of it enters the stock, less the problem count.          *)

Ordered(rows, p) == {i \in Lines : rows[p][i] > 0}

LastRow(rows, p) ==
    LET used == Ordered(rows, p)
    IN  IF used = {} THEN 0 ELSE rows[p][CHOOSE i \in used : \A j \in used : j <= i]

Positive(n) == IF n > 0 THEN n ELSE 0

\* Mutant of Entering: the broken goods enter the stock too.
EnteringAll(rows, problem, p) == SumFunction(rows[p])

Entering(rows, problem, p) ==
    SumFunction([i \in Lines |-> Positive(rows[p][i] - problem[p])])

RestockAccept(d, problem, placed) ==
    LET rows  == restocks[d].rows
        w     == restocks[d].warehouse
        last  == [p \in Products |-> LastRow(rows, p) - problem[p]]
        items == [p \in Products |-> Entering(rows, problem, p)]
    IN  /\ Editable(d)
        /\ \A p \in Products : problem[p] <= LastRow(rows, p)
        /\ items # NoItems
        /\ FullyPlaced(w, last, placed)
        /\ \E tx \in TxIds :
              /\ IsNextId(tx)
              /\ InsertTransaction(tx, w, "restock", items)
              /\ ProcessStockBatchLog(tx, At(w, items))
              /\ MintBatches(tx, items)
              /\ ApplyPlacements(tx, AtRacks(w, placed))
              /\ restocks' = [restocks EXCEPT ![d].problem = problem,
                     ![d].status = "accepted", ![d].tx = {tx}]
        /\ UNCHANGED rackState

-----------------------------------------------------------------------------
RestocksInit == restocks = [d \in RestockIds |-> NoRestock]

RestocksNext ==
    \E d \in RestockIds :
        \/ \E w \in Warehouses, rows \in Rows : RestockCreate(d, w, rows)
        \/ \E status \in {"pending", "problem"} : ChangeStatus(d, status)
        \/ \E rows \in Rows : UpdateItems(d, rows)
        \/ RestockCancel(d)
        \/ \E problem \in [Products -> 0 .. MaxCount], placed \in RackCounts :
              RestockAccept(d, problem, placed)

RestocksTypeOK == restocks \in [RestockIds -> Restock \cup {NoRestock}]
=============================================================================
