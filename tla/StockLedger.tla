----------------------------- MODULE StockLedger -----------------------------
(***************************************************************************)
(* The tables every stock operation of the service writes, and the         *)
(* engines that write them (src/inventory_mutations).  One step of a       *)
(* module that extends this one is one committed database transaction.     *)
(*                                                                         *)
(* The two append-only logs are represented by what the code reads back    *)
(* from them: the SUM(change) of a transaction's rows, per product and     *)
(* warehouse (and rack).  Quantities are modelled, money is not.           *)
(***************************************************************************)
EXTENDS Integers, FiniteSets, Functions

CONSTANTS
    Warehouses,   \* warehouse ids; numbers, because cancels sort by them
    Products,
    Racks,        \* rack ids; numbers, because picks break ties by them
    TxIds,        \* ids inventory_transactions may hand out, in order
    RackHome,     \* RackHome[r]: the warehouse rack r belongs to
    InitStock,    \* on-hand counts when the behaviour starts
    InitPlace,    \* per-rack counts when the behaviour starts
    Histories,    \* legacy invertory_histories rows, summed per tx_id
    MaxCount      \* bound on a count a request asks for

Grid     == [Warehouses -> [Products -> Int]]
RackGrid == [Warehouses -> [Products -> [Racks -> Int]]]

ASSUME LedgerAssumption ==
    /\ Warehouses \subseteq Nat /\ Racks \subseteq Nat /\ TxIds \subseteq Nat
    /\ IsFiniteSet(Warehouses) /\ IsFiniteSet(Racks) /\ IsFiniteSet(TxIds)
    /\ RackHome \in [Racks -> Warehouses]
    /\ InitStock \in Grid
    /\ InitPlace \in RackGrid
    /\ Histories \in [TxIds -> [Warehouses -> [Products -> [Racks -> Nat]]]]
    /\ MaxCount \in Nat

VARIABLES
    stock,      \* stock_states.stock_ready
    logTotal,   \* SUM(change) over all of stock_batch_logs
    batchNet,   \* SUM(change) of stock_batch_logs per transaction
    logged,     \* the transactions with at least one stock_batch_logs row
    place,      \* stock_placements.count
    placeNet,   \* SUM(change) of stock_placement_logs per transaction
    trx,        \* inventory_transactions with their items
    batches     \* stock_batches: start_count per inbound_id and product

logVars    == <<stock, logTotal, batchNet, logged>>
placeVars  == <<place, placeNet>>
ledgerVars == <<logVars, placeVars, trx, batches>>

-----------------------------------------------------------------------------
(* Transactions *)

Kinds == {"order", "restock", "return", "found_back", "problem",
          "transfer_out", "transfer_in", "opname"}

NoTx == [status |-> "none"]

Transaction == [warehouse : Warehouses, type : Kinds,
                status : {"active", "canceled"}, items : [Products -> Int]]

\* The sign the reason gives the item counts.
Direction(type) == IF type \in {"order", "problem", "transfer_out"} THEN -1 ELSE 1

\* The next id of the inventory_transactions sequence.
IsNextId(tx) == /\ trx[tx] = NoTx
                /\ \A t \in TxIds : t < tx => trx[t] # NoTx

Exists(tx) == trx[tx] # NoTx

InsertTransaction(tx, w, type, items) ==
    trx' = [trx EXCEPT ![tx] = [warehouse |-> w, type |-> type,
                                status |-> "active", items |-> items]]

-----------------------------------------------------------------------------
(* Vectors of counts *)

NoItems  == [p \in Products |-> 0]
NoRacks  == [p \in Products |-> [r \in Racks |-> 0]]
NoChange == [w \in Warehouses |-> NoItems]
NoMove   == [w \in Warehouses |-> NoRacks]

\* What a request may ask for: lines of one product count together.
Requests   == [Products -> 0 .. MaxCount] \ {NoItems}
RackCounts == [Products -> [Racks -> 0 .. MaxCount]]

Signed(sign, items) == [p \in Products |-> sign * items[p]]

\* A change (a move) that concerns one warehouse only.
At(w, items)     == [v \in Warehouses |-> IF v = w THEN items ELSE NoItems]
AtRacks(w, take) == [v \in Warehouses |-> IF v = w THEN take ELSE NoRacks]

Neg(change)   == [w \in Warehouses |-> [p \in Products |-> -change[w][p]]]
NegMove(move) == [w \in Warehouses |-> [p \in Products |->
                     [r \in Racks |-> -move[w][p][r]]]]
AddMove(a, b) == [w \in Warehouses |-> [p \in Products |->
                     [r \in Racks |-> a[w][p][r] + b[w][p][r]]]]

-----------------------------------------------------------------------------
(* NewProcessStockBatchLog: the state row of a product is cached by product *)
(* id alone, so when one handler serves several warehouses every change of *)
(* the product lands on the row of the first of them.                       *)

Touched(change, p) == {w \in Warehouses : change[w][p] # 0}

\* Mutant of IsCachedRow: the cache outlives the handler.
CachedForGood(change, p, w) ==
    Touched(change, p) # {} /\ \A v \in Warehouses : w <= v

IsCachedRow(change, p, w) ==
    /\ w \in Touched(change, p)
    /\ \A v \in Touched(change, p) : w <= v

CachedDelta(change, p) ==
    SumFunctionOnSet([w \in Warehouses |-> change[w][p]], Touched(change, p))

ProcessStockBatchLog(tx, change) ==
    /\ stock' = [w \in Warehouses |-> [p \in Products |->
                    IF IsCachedRow(change, p, w)
                    THEN stock[w][p] + CachedDelta(change, p)
                    ELSE stock[w][p]]]
    /\ logTotal' = [w \in Warehouses |-> [p \in Products |->
                       logTotal[w][p] + change[w][p]]]
    /\ batchNet' = [batchNet EXCEPT ![tx] =
                       [w \in Warehouses |-> [p \in Products |->
                           @[w][p] + change[w][p]]]]
    /\ logged' = IF change = NoChange THEN logged ELSE logged \cup {tx}

-----------------------------------------------------------------------------
(* Placements *)

\* ApplyExplicitPlacements, and the loop body of NewProcessStockPlacementLog.
ApplyPlacements(tx, move) ==
    /\ place' = AddMove(place, move)
    /\ placeNet' = [placeNet EXCEPT ![tx] = AddMove(@, move)]

\* Mutant of ReconstructCancel: reverses the items, not what is left of them.
ReverseItems(tx) ==
    /\ tx \in logged
    /\ ProcessStockBatchLog(tx, Neg(At(trx[tx].warehouse,
           Signed(Direction(trx[tx].type), trx[tx].items))))

\* reconstructCancel: nothing to do once every group of the transaction nets
\* to zero, else the reversing rows ...
ReconstructCancel(tx) ==
    /\ tx \in logged
    /\ ProcessStockBatchLog(tx, Neg(batchNet[tx]))

\* ... and the racks of the legacy transaction that carries the same id.
RestoredRacks(tx) == IF batchNet[tx] = NoChange THEN NoMove ELSE Histories[tx]

\* Mutant of CancelMove: the cancel forgets ReverseTransactionPlacements.
KeepPlacements(tx) == RestoredRacks(tx)

\* ReverseTransactionPlacements, run after those racks were restored.
CancelMove(tx) ==
    AddMove(RestoredRacks(tx), NegMove(AddMove(placeNet[tx], RestoredRacks(tx))))

-----------------------------------------------------------------------------
(* mintTransactionBatches: one batch per product of an inbound transaction. *)
MintBatches(tx, items) ==
    batches' = [batches EXCEPT ![tx] =
                   [p \in Products |-> IF @[p] = 0 THEN items[p] ELSE @[p]]]

\* Mutants of VoidBatches: the batches survive, or shrink by the items.
KeepBatches(tx) == UNCHANGED batches
ShrinkBatches(tx) ==
    batches' = [batches EXCEPT ![tx] = [p \in Products |-> @[p] - trx[tx].items[p]]]

VoidBatches(tx) == batches' = [batches EXCEPT ![tx] = NoItems]

-----------------------------------------------------------------------------
LedgerInit ==
    /\ stock = InitStock
    /\ logTotal = NoChange
    /\ batchNet = [tx \in TxIds |-> NoChange]
    /\ logged = {}
    /\ place = InitPlace
    /\ placeNet = [tx \in TxIds |-> NoMove]
    /\ trx = [tx \in TxIds |-> NoTx]
    /\ batches = [tx \in TxIds |-> NoItems]

\* The tables hold what their columns allow.
LedgerTypeOK ==
    /\ stock \in Grid
    /\ logTotal \in Grid
    /\ batchNet \in [TxIds -> Grid]
    /\ logged \subseteq TxIds
    /\ place \in RackGrid
    /\ placeNet \in [TxIds -> RackGrid]
    /\ trx \in [TxIds -> Transaction \cup {NoTx}]
    /\ batches \in [TxIds -> [Products -> Nat]]
-----------------------------------------------------------------------------
(* What the rows of the ledger say of each other, whatever handler runs     *)

\* What a transaction is worth to the stock.
Effect(tx) ==
    IF trx[tx].status = "active"
    THEN At(trx[tx].warehouse, Signed(Direction(trx[tx].type), trx[tx].items))
    ELSE NoChange

\* The batch-log rows of a transaction net to exactly what the transaction
\* says it moved, in its own warehouse, and to nothing once it is canceled:
\* reconstructCancel computes its reversal from these rows alone, and the
\* product-keyed cache of NewProcessStockBatchLog is sound only because no
\* transaction has rows in two warehouses.
TransactionNet == \A tx \in TxIds : batchNet[tx] = Effect(tx)

\* stock_states is the running total of stock_batch_logs: the engine updates
\* both, but the state through its per-handler cache.
LedgerBalanced ==
    \A w \in Warehouses, p \in Products :
        stock[w][p] = InitStock[w][p] + logTotal[w][p]

\* The on-hand count is what it started at plus the active transactions, each
\* counted once: no create, accept, cancel or completion posts twice, none is
\* forgotten, whichever order the calls come in.
StockIsActiveTransactions ==
    \A w \in Warehouses, p \in Products :
        stock[w][p] = InitStock[w][p]
                      + SumFunction([tx \in TxIds |-> Effect(tx)[w][p]])
=============================================================================
