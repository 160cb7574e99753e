------------------------------ MODULE Transfers ------------------------------
(***************************************************************************)
(* Warehouse-to-warehouse transfers: TransferCreate takes the goods out of *)
(* the source, TransferAccept brings them into the destination,            *)
(* TransferCancel gives them back to the source.                           *)
(***************************************************************************)
EXTENDS Placements

CONSTANT TransferIds   \* ids inventory_transfers may hand out, in order

ASSUME TransfersAssumption == TransferIds \subseteq Nat /\ IsFiniteSet(TransferIds)

VARIABLE transfers     \* inventory_transfers with their items

NoTransfer == [status |-> "none"]

\* in = {} until the IN leg is linked; the code leaves the column empty.
Transfer == [from : Warehouses, to : Warehouses, items : [Products -> Nat],
             status : {"pending", "accepted", "canceled"},
             out : TxIds, in : SUBSET TxIds]

IsNextTransfer(t) == /\ transfers[t] = NoTransfer
                     /\ \A u \in TransferIds : u < t => transfers[u] # NoTransfer

\* Mutant of ApplyTransferLeg: the sign is forgotten.
UnsignedLeg(tx, type, w, items) ==
    /\ InsertTransaction(tx, w, type, items)
    /\ ProcessStockBatchLog(tx, At(w, items))

\* applyTransferLeg: the caller signs the counts.
ApplyTransferLeg(tx, type, w, items) ==
    /\ InsertTransaction(tx, w, type, items)
    /\ ProcessStockBatchLog(tx, At(w, Signed(Direction(type), items)))

\* No look at the stock, no rack touched.
TransferCreate(t, from, to, items) ==
    \E tx \in TxIds :
        /\ IsNextTransfer(t) /\ IsNextId(tx)
        /\ from # to
        /\ ApplyTransferLeg(tx, "transfer_out", from, items)
        /\ transfers' = [transfers EXCEPT ![t] =
               [from |-> from, to |-> to, items |-> items,
                status |-> "pending", out |-> tx, in |-> {}]]
        /\ UNCHANGED <<placeVars, batches, rackState>>

\* An accepted transfer is left alone, a canceled one refused.
TransferAccept(t, placed) ==
    \E tx \in TxIds :
        /\ transfers[t].status = "pending"
        /\ IsNextId(tx)
        /\ FullyPlaced(transfers[t].to, transfers[t].items, placed)
        /\ ApplyTransferLeg(tx, "transfer_in", transfers[t].to, transfers[t].items)
        /\ MintBatches(tx, transfers[t].items)
        /\ ApplyPlacements(tx, AtRacks(transfers[t].to, placed))
        /\ transfers' = [transfers EXCEPT ![t].status = "accepted", ![t].in = {tx}]
        /\ UNCHANGED rackState

\* Mutants of TransferCancel: an accepted transfer is canceled too; only the
\* document is canceled.
CancelAnyTransfer(t) ==
    /\ transfers[t].status \in {"pending", "accepted"}
    /\ LET out == transfers[t].out IN
          /\ ReconstructCancel(out)
          /\ ApplyPlacements(out, RestoredRacks(out))
          /\ trx' = [trx EXCEPT ![out].status = "canceled"]
    /\ transfers' = [transfers EXCEPT ![t].status = "canceled"]
    /\ UNCHANGED <<batches, rackState>>

CancelDocument(t) ==
    /\ transfers[t].status = "pending"
    /\ transfers' = [transfers EXCEPT ![t].status = "canceled"]
    /\ UNCHANGED <<ledgerVars, rackState>>

\* A canceled transfer is left alone, an accepted one refused.
TransferCancel(t) ==
    /\ transfers[t].status = "pending"
    /\ LET out == transfers[t].out IN
          /\ ReconstructCancel(out)
          /\ ApplyPlacements(out, RestoredRacks(out))
          /\ trx' = [trx EXCEPT ![out].status = "canceled"]
    /\ transfers' = [transfers EXCEPT ![t].status = "canceled"]
    /\ UNCHANGED <<batches, rackState>>

-----------------------------------------------------------------------------
TransfersInit == transfers = [t \in TransferIds |-> NoTransfer]

TransfersNext ==
    \E t \in TransferIds :
        \/ \E from, to \in Warehouses, items \in Requests :
              TransferCreate(t, from, to, items)
        \/ \E placed \in RackCounts : TransferAccept(t, placed)
        \/ TransferCancel(t)

TransfersTypeOK == transfers \in [TransferIds -> Transfer \cup {NoTransfer}]
=============================================================================
