----------------------------- MODULE StockEvents -----------------------------
(***************************************************************************)
(* The stock events of the older warehouse service, and ProductReconcile,  *)
(* over the ledger of StockLedger.  The older service is external: it      *)
(* commits its transactions in its own tables, publishes an event for each,*)
(* and its on-hand rows are what a reconcile copies.  An event reaches     *)
(* ProcessStockEvent through the push handler, which remembers it, or      *)
(* through the RPC PushStockEvent, which does not.                         *)
(*                                                                         *)
(* One step is one committed transaction, except that ProductReconcile is  *)
(* two of them and reads the on-hand total before it locks the state row.  *)
(* Rows with transaction id 0 are those a reconcile writes.                *)
(***************************************************************************)
EXTENDS StockLedger

CONSTANTS
    LegacyIds,  \* inv_transactions ids the older service hands out
    Legacy,     \* Legacy[tx]: kind, warehouse, items, problems, lot, partner
    OldLot,     \* the batch code of on-hand rows without an in_tx_id
    OldRacks,   \* on-hand per rack before the first of those transactions
    Scenarios,  \* bound: of which of them, and of reconciles of which
                \* warehouses and products, one behaviour is about
    MaxPushes   \* bound: how often PushStockEvent may apply one event

Lots == LegacyIds \cup {OldLot}
Keys == Warehouses \X Products

\* The warehouse kinds an event brings in: these mint batches.
Inbound == {"restock", "return", "found_back", "transfer_in"}

\* external: an inbound starts the lot of its own id, and the older rows have
\* codes that are no id.
ASSUME LegacyAssumption ==
    /\ LegacyIds \subseteq TxIds \ {0} /\ 0 \in TxIds /\ OldLot \notin LegacyIds
    /\ Legacy \in [LegacyIds -> [kind : Kinds, warehouse : Warehouses,
                                 items : [Products -> Nat],
                                 problems : [Products -> Nat],
                                 lot : Lots, partner : LegacyIds]]
    /\ Scenarios \subseteq [ids : SUBSET LegacyIds, keys : SUBSET Keys]
    /\ OldRacks \in RackGrid /\ MaxPushes \in Nat
    /\ \A tx \in LegacyIds :
          /\ Legacy[tx].kind \in Inbound => Legacy[tx].lot = tx
          /\ \A p \in Products : Legacy[tx].problems[p] <= Legacy[tx].items[p]

VARIABLES
    legacy,     \* status of each transaction in the older service
    inbox,      \* messages the push handler has committed
    applied,    \* how many committed transactions applied a message
    lots,       \* stock_batches with inbound_id 0: counts per product and code
    phase,      \* ProductReconcile of a warehouse and product: where it is
    seen        \* ... and the legacy transactions its total was read from

eventVars == <<legacy, inbox, applied, lots, phase, seen>>
vars == <<ledgerVars, eventVars>>

\* "never": not in this behaviour's scenario.
Statuses == {"never", "none", "committed", "canceled"}

\* A transaction's own event, and that of its cancel.
Cancelable == {tx \in LegacyIds : Legacy[tx].kind \in {"order", "transfer_out"}}
Messages == ({"source"} \X LegacyIds) \cup ({"cancel"} \X Cancelable)

Published(m) == IF m[1] = "source" THEN legacy[m[2]] \in {"committed", "canceled"}
                                   ELSE legacy[m[2]] = "canceled"

-----------------------------------------------------------------------------
(* external: the tables of the older service                                *)

\* What a transaction does to the on-hand rows of its racks.
LegacyMove ==
    [tx \in LegacyIds |-> [w \in Warehouses |-> [p \in Products |-> [r \in Racks |->
        Direction(Legacy[tx].kind) * Histories[tx][w][p][r]]]]]

\* On-hand counts of a lot once the transactions in view are committed.
LotCount(view, lot, w, p) ==
    (IF lot = OldLot THEN SumFunction(OldRacks[w][p]) ELSE 0)
    + SumFunction([tx \in {t \in view : Legacy[t].lot = lot} |->
                      SumFunction(LegacyMove[tx][w][p])])

RackCount(view, w, p, r) ==
    OldRacks[w][p][r] + SumFunction([tx \in view |-> LegacyMove[tx][w][p][r]])

OnHand(view, w, p) == SumFunction([r \in Racks |-> RackCount(view, w, p, r)])

Committed == {tx \in LegacyIds : legacy[tx] = "committed"}

\* external: an order takes from a lot what is there; a transfer arrives
\* after it left.
LegacyCommit(tx) ==
    LET view == Committed \cup {tx} IN
    /\ legacy[tx] = "none"
    /\ Legacy[tx].kind = "transfer_in" => legacy[Legacy[tx].partner] = "committed"
    /\ \A lot \in Lots, k \in Keys : LotCount(view, lot, k[1], k[2]) >= 0
    /\ \A k \in Keys, r \in Racks : RackCount(view, k[1], k[2], r) >= 0
    /\ legacy' = [legacy EXCEPT ![tx] = "committed"]
    /\ UNCHANGED <<ledgerVars, inbox, applied, lots, phase, seen>>

\* external: an order may be canceled, and a transfer until it arrived.
LegacyCancel(tx) ==
    /\ tx \in Cancelable
    /\ legacy[tx] = "committed"
    /\ Legacy[tx].kind = "transfer_out" => legacy[Legacy[tx].partner] # "committed"
    /\ legacy' = [legacy EXCEPT ![tx] = "canceled"]
    /\ UNCHANGED <<ledgerVars, inbox, applied, lots, phase, seen>>

-----------------------------------------------------------------------------
(* ProcessStockEvent                                                        *)

\* expandTxItems: the items without the problems booked on them; the items of
\* a problem transaction are the problem.
ExpandTxItems(tx) ==
    IF Legacy[tx].kind = "problem" THEN Legacy[tx].items
    ELSE [p \in Products |-> Legacy[tx].items[p] - Legacy[tx].problems[p]]

\* external: the racks of a transaction hold its items without those booked as
\* problems.
ASSUME HistoriesAssumption ==
    \A tx \in LegacyIds, w \in Warehouses, p \in Products :
        SumFunction(Histories[tx][w][p]) = At(Legacy[tx].warehouse, ExpandTxItems(tx))[w][p]

\* Mutant of PlacementMove: a transfer's racks are all credited.
MoveUnsigned(tx) ==
    IF ExpandTxItems(tx) = NoItems THEN NoMove
    ELSE IF Legacy[tx].kind = "transfer_out" THEN Histories[tx] ELSE LegacyMove[tx]

\* NewProcessStockPlacementLog, run with the first change that has a count:
\* every rack row of the transaction moves the way of the reason, or for a
\* transfer the way of that change.
PlacementMove(tx) == IF ExpandTxItems(tx) = NoItems THEN NoMove ELSE LegacyMove[tx]

\* applyStockLogs.
ApplyStockLogs(tx) ==
    /\ ProcessStockBatchLog(tx, At(Legacy[tx].warehouse,
           Signed(Direction(Legacy[tx].kind), ExpandTxItems(tx))))
    /\ ApplyPlacements(tx, PlacementMove(tx))

\* What the inbound rows of a transaction sum to, per product.
InboundCount ==
    [tx \in LegacyIds |->
        [p \in Products |-> SumFunction(Histories[tx][Legacy[tx].warehouse][p])]]

\* Mutants of CreateStockBatches: an existing batch is topped up; any row a
\* reconcile left of the product is a conflict.
CreateAgain(tx) ==
    batches' = [batches EXCEPT ![tx] = [p \in Products |-> @[p] + InboundCount[tx][p]]]
CreateFirstLot(tx) ==
    /\ \A p \in Products, lot \in Lots : InboundCount[tx][p] > 0 => lots[p][lot] = 0
    /\ batches' = [batches EXCEPT ![tx] = InboundCount[tx]]

\* createStockBatches: done if the inbound has a batch; else one row per
\* product, and an error if the code is taken by a row of another origin.
CreateStockBatches(tx) ==
    IF batches[tx] # NoItems THEN UNCHANGED batches
    ELSE /\ \A p \in Products : InboundCount[tx][p] > 0 => lots[p][tx] = 0
         /\ batches' = [batches EXCEPT ![tx] = InboundCount[tx]]

\* applyTxItems, and applyTransfer for either leg.
ApplyTxItems(tx) ==
    /\ ApplyStockLogs(tx)
    /\ IF Legacy[tx].kind \in Inbound
       THEN CreateStockBatches(tx) ELSE UNCHANGED batches

\* Mutant of ApplyCancel: expands the items again instead of reading the log.
ExpandCancel(tx) ==
    /\ tx \in logged
    /\ ProcessStockBatchLog(tx, At(Legacy[tx].warehouse, ExpandTxItems(tx)))
    /\ ApplyPlacements(tx, Histories[tx])
    /\ UNCHANGED batches

\* applyOrderCancel and applyTransferCancel: an error while there are no rows,
\* nothing once they net to zero, else the reversal and every rack row once.
ApplyCancel(tx) ==
    /\ ReconstructCancel(tx)
    /\ ApplyPlacements(tx, RestoredRacks(tx))
    /\ UNCHANGED batches

ProcessStockEvent(m) ==
    /\ Published(m)
    /\ IF m[1] = "source" THEN ApplyTxItems(m[2]) ELSE ApplyCancel(m[2])
    /\ applied' = [applied EXCEPT ![m] = @ + 1]
    /\ UNCHANGED <<trx, legacy, lots, phase, seen>>

\* The push handler, whose inbox ExactlyOnce models in detail.
HandlePush(m) ==
    /\ m \notin inbox
    /\ inbox' = inbox \cup {m}
    /\ ProcessStockEvent(m)

\* The RPC: a client that lost the answer calls again.
PushStockEvent(m) ==
    /\ applied[m] < MaxPushes
    /\ ProcessStockEvent(m)
    /\ UNCHANGED inbox

-----------------------------------------------------------------------------
(* ProductReconcile                                                         *)

\* The query for the on-hand total: nothing is locked yet.
ReadOnHand(k) ==
    /\ phase[k] = "idle"
    /\ phase' = [phase EXCEPT ![k] = "read"]
    /\ seen' = [seen EXCEPT ![k] = Committed]
    /\ UNCHANGED <<ledgerVars, legacy, inbox, applied, lots>>

\* Mutant of RackDiff: only racks that hold something here.
RackDiffOfHeld(view, w, p, r) ==
    IF place[w][p][r] = 0 THEN 0 ELSE RackCount(view, w, p, r) - place[w][p][r]

\* ReconcileStockPlacement, for every rack that holds or held the product.
RackDiff(view, w, p, r) == RackCount(view, w, p, r) - place[w][p][r]

\* ReconcileStockState to the total that was read, then the racks to what the
\* older service has on them by now; the first transaction commits.
ReconcileStock(k) ==
    LET w == k[1]
        p == k[2]
    IN  /\ phase[k] = "read"
        /\ ProcessStockBatchLog(0, At(w, [q \in Products |->
               IF q = p THEN OnHand(seen[k], w, p) - stock[w][p] ELSE 0]))
        /\ ApplyPlacements(0, AtRacks(w, [q \in Products |-> [r \in Racks |->
               IF q = p THEN RackDiff(Committed, w, p, r) ELSE 0]]))
        /\ phase' = [phase EXCEPT ![k] = "batches"]
        /\ UNCHANGED <<trx, batches, legacy, inbox, applied, lots, seen>>

\* The unique index on product and batch code.
CodeTaken(p, lot) ==
    \/ lots[p][lot] # 0
    \/ lot # OldLot /\ batches[lot][p] # 0

\* The second transaction: a batch for every lot on hand, unless the code is
\* taken, by whatever warehouse.
SyncBatches(k) ==
    LET w == k[1]
        p == k[2]
    IN  /\ phase[k] = "batches"
        /\ lots' = [lots EXCEPT ![p] = [lot \in Lots |->
               IF LotCount(Committed, lot, w, p) > 0 /\ ~CodeTaken(p, lot)
               THEN LotCount(Committed, lot, w, p) ELSE @[lot]]]
        /\ phase' = [phase EXCEPT ![k] = "idle"]
        /\ UNCHANGED <<ledgerVars, legacy, inbox, applied, seen>>

\* An error or a crash: whichever transaction is open rolls back.
AbortReconcile(k) ==
    /\ phase[k] \in {"read", "batches"}
    /\ phase' = [phase EXCEPT ![k] = "idle"]
    /\ UNCHANGED <<ledgerVars, legacy, inbox, applied, lots, seen>>

-----------------------------------------------------------------------------
\* The ledger starts as the copy of what the older service had on hand.
Init ==
    /\ LedgerInit
    /\ \E scenario \in Scenarios :
          /\ legacy = [tx \in LegacyIds |->
                          IF tx \in scenario.ids THEN "none" ELSE "never"]
          /\ phase = [k \in Keys |-> IF k \in scenario.keys THEN "idle" ELSE "never"]
    /\ inbox = {}
    /\ applied = [m \in Messages |-> 0]
    /\ lots = [p \in Products |-> [lot \in Lots |-> 0]]
    /\ seen = [k \in Keys |-> {}]

OlderService == \E tx \in LegacyIds : LegacyCommit(tx) \/ LegacyCancel(tx)

Events == \E m \in Messages : HandlePush(m) \/ PushStockEvent(m)

Reconcile(k) ==
    ReadOnHand(k) \/ ReconcileStock(k) \/ SyncBatches(k) \/ AbortReconcile(k)

Next == OlderService \/ Events \/ \E k \in Keys : Reconcile(k)

Spec == Init /\ [][Next]_vars

\* The subscription delivers a message again until it is acknowledged: as long
\* as some message can be applied, one is.  Each is applied here only once, so
\* none is passed over forever.
FairSpec == Spec /\ WF_vars(\E m \in Messages : HandlePush(m))

-----------------------------------------------------------------------------
TypeOK ==
    /\ LedgerTypeOK
    /\ legacy \in [LegacyIds -> Statuses]
    /\ inbox \subseteq Messages
    /\ applied \in [Messages -> Nat]
    /\ lots \in [Products -> [Lots -> Nat]]
    /\ phase \in [Keys -> {"never", "idle", "read", "batches"}]
    /\ seen \in [Keys -> SUBSET LegacyIds]

\* The transactions that stand, as far as their events were applied.
Undone == {tx \in Cancelable : applied[<<"cancel", tx>>] > 0}
View   == {tx \in LegacyIds : applied[<<"source", tx>>] > 0} \ Undone

MirrorsAt(k) ==
    /\ stock[k[1]][k[2]] = OnHand(View, k[1], k[2])
    /\ \A r \in Racks : place[k[1]][k[2]][r] = RackCount(View, k[1], k[2], r)

\* "It reconciles one product to the legacy on-hand snapshot", the events
\* keep it there: state and racks are what the older service had, as of the
\* events that have been applied.
MirrorsLegacy == \A k \in Keys : MirrorsAt(k)

\* A source event applied a second time: by PushStockEvent, or after it.
AppliedAgain(m) == m[1] = "source" /\ applied[m] > 0 /\ applied'[m] > applied[m]

\* The cancel of an event that was applied twice.
CancelsBoth(tx) == /\ applied[<<"source", tx>>] > 1
                   /\ applied'[<<"cancel", tx>>] > applied[<<"cancel", tx>>]

Reconciled(k) == phase[k] = "read" /\ phase'[k] = "batches"

\* No event is lost, applied with the wrong sign or count, or undone twice, in
\* whatever order events, cancels and reconciles come: stock and racks part
\* from the older service only when a source event is applied twice through
\* the RPC, or canceled after that, or when a reconcile copies a state of the
\* older service some of whose events are still to be applied.
DriftHasACause ==
    [][MirrorsLegacy => \/ MirrorsLegacy'
                        \/ \E m \in Messages : AppliedAgain(m)
                        \/ \E tx \in Cancelable : CancelsBoth(tx)
                        \/ \E k \in Keys : /\ Reconciled(k)
                                           /\ ~(seen[k] = View /\ Committed = View)]_vars

\* A reconcile that nothing overtakes brings its product back in line,
\* whatever was wrong with state or racks before.
ReconcileHeals ==
    [][\A k \in Keys :
          Reconciled(k) /\ seen[k] = View /\ Committed = View => MirrorsAt(k)']_vars

RacksAgree == \A k \in Keys : stock[k[1]][k[2]] = SumFunction(place[k[1]][k[2]])

\* "A product's racks sum to its StockReady": events keep it so even when
\* applied twice; they part only when such an event is canceled, which puts
\* back twice the stock and once the racks, or when the older service commits
\* between the two queries of a reconcile.
RacksPartWithACause ==
    [][RacksAgree => \/ RacksAgree'
                     \/ \E tx \in Cancelable : CancelsBoth(tx)
                     \/ \E k \in Keys : Reconciled(k) /\ seen[k] # Committed]_vars

\* "A Pub/Sub redelivery or RPC retry doesn't duplicate": an inbound that was
\* applied has its batch with what came in, once, and no code is used twice.
InboundBatchedOnce ==
    /\ TypeOK
    /\ \A tx \in LegacyIds :
          /\ Legacy[tx].kind \in Inbound /\ applied[<<"source", tx>>] > 0
                => batches[tx] = InboundCount[tx]
          /\ \A p \in Products : batches[tx][p] = 0 \/ lots[p][tx] = 0

\* What can keep an event from ever being applied: a reconcile has taken the
\* batch code of its inbound, or a cancel finds that its source left no rows.
Stuck(tx) == /\ Legacy[tx].kind \in Inbound
             /\ batches[tx] = NoItems
             /\ \E p \in Products : InboundCount[tx][p] > 0 /\ lots[p][tx] # 0
Unloggable(tx) == applied[<<"source", tx>>] > 0 /\ tx \notin logged

Settled(m) == \/ applied[m] > 0
              \/ Stuck(m[2])
              \/ m[1] = "cancel" /\ Unloggable(m[2])

\* Every event is applied in the end unless it is stuck in one of these ways.
AppliedOrStuck == <>[](\A m \in Messages : Published(m) => Settled(m))

\* push_handler.go: if the work fails, the transaction rolls back "so a
\* redelivery reprocesses it": what was published is applied in the end.
EveryEventApplied == <>[](\A m \in Messages : Published(m) => applied[m] > 0)
=============================================================================
