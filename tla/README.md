# Verification of the inventory service

TLA+ modules, TLC configurations and TLAPS proofs for the inventory service
(`src/`): the Go service that keeps stock per warehouse and per rack, moves it
with documents (orders, transfers, restocks, stock-takes) and applies the stock
events of the older warehouse service.

## 1. The system

| Component | State (tables) | Operations | Source |
|---|---|---|---|
| Ledger engine | `stock_states`, `stock_batch_logs`, `stock_batches`, `stock_placements`, `stock_placement_logs` | `NewProcessStockBatchLog`, `NewProcessStockPlacementLog`, `ApplyExplicitPlacements`, `ReverseTransactionPlacements`, `ApplyPlacementMove` | `inventory_mutations/` |
| Transactions | `inventory_transactions` (+ items), `product_configs` | `TransactionCreate` (order, restock, return, found back, problem), `TransactionCancel`, `ProductConfigUpdate` | `inventory/transaction_*.go` |
| Racks | `racks` | `RackCreate`, `RackUpdate`, `RackDelete`, `PlacementMove` | `inventory/rack_*.go`, `placement_move.go` |
| Transfers | `inventory_transfers` (+ items) | `TransferCreate`, `TransferAccept`, `TransferCancel` | `inventory/transfer_*.go` |
| Restocks | `inventory_restocks` (+ items, logs) | `RestockCreate`, the actions of `RestockUpdate` | `inventory/restock_*.go` |
| Opnames (stock-takes) | `inventory_opnames` (+ lines, logs) | `OpnameCreate`, `OpnameLineCount`, `OpnameComplete`, `OpnameCancel` | `inventory/opname_*.go` |
| Event ingestion | `inventory_exactly_once_logs` | Pub/Sub push handler, `PushStockEvent`, `ProcessStockEvent` | `push_handler.go`, `inventory/process_stock_event.go` |
| Legacy reconcile | (writes the ledger) | `ProductReconcile`, the `sync-legacy` command | `inventory/product_reconcile.go`, `cmd/` |
| Read side | none | lists, details, movements | `inventory/*_list.go`, `*_detail.go`, ... |

**How they interact.** Nothing is kept in memory between calls: components meet
in the PostgreSQL tables. Every handler is one database transaction, except
`ProductReconcile`, which is two. Every handler that moves stock inserts an
`inventory_transactions` row (except events, whose transaction lives in the legacy
tables, and rack moves, which have none), calls the engine for the warehouse totals,
and writes racks explicitly.
A cancel computes what to undo from the logs. Isolation is PostgreSQL's default,
READ COMMITTED; the only protection among overlapping handlers is
`SELECT ... FOR UPDATE` on stock and placement rows, and the inbox's primary key.

**What is hard here.**

- *Overlap*: document and session status, the net a cancel reverses, average prices and the
  liveness of racks are read without a lock.
- *Sharing*: all documents use one table of transactions, and `TransactionCancel`
  takes any id of it.
- *Redundancy*: a count exists four times (state, log, racks, batches) and a
  handler that forgets one leaves them apart for good.
- *Delivery*: events are repeated, overlap, arrive in any order; a handler may
  die between commit and answer; the RPC that does the same work has no memory of
  what it did.
- *Two writers of one truth*: a reconcile copies the older service's on-hand
  while the events that lead there are still on their way.
- *Many rows*: handlers lock several rows, each kind in an order of its own.
- *Averages*: goods leave at an average that is computed from the row they change,
  under its lock or not.
- *Two id spaces*: legacy and own transaction ids share columns.

**What makes each part correct.** The ledger: state equals log equals active
transactions. Transactions: one effect, one reversal, nothing left behind.
Racks: moves conserve, picks never overdraw and never miss a rack. Transfers:
goods are conserved over warehouses and road. Restocks: what enters is placed.
Opnames: the count is the truth. Ingestion: each message works exactly once and
none is lost. Reconcile: what it leaves is what the older service has. Row locks:
balances are the totals of their logs, every circle of waiting calls is broken.
Value: worth equals active transactions, transfers conserve it. `sync-legacy`:
bounded calls, no send on a closed channel, it ends. The line of the source where
each of these is at risk is in the hazard list of `PROJECT.json`.

## 2. Modules

```
StockLedger ──┬── Transactions ──┐
              ├── Placements ──┬─ Transfers ─┐
              │                └─ Restocks ──┤
              ├── Opnames ───────────────────┴── Inventory ── refines ── StockBook
              └── StockEvents
ExactlyOnce ── refines ── EventEffects
ConcurrentCalls     RowLocks     StockValue     SyncLegacy
```

| Module | Models |
|---|---|
| `StockLedger` | the tables of the ledger, and as operators the engines that write them: the product-keyed cache, the log, placements, batches, `reconstructCancel` and the reversal of placements |
| `Transactions` | creating and canceling transactions, order picking |
| `Placements` | racks and rack moves, and the placement check that transfers and restocks share |
| `Transfers`, `Restocks`, `Opnames` | the documents |
| `Inventory` | all of the above over one ledger; the invariants that relate them |
| `StockBook` | what the service promises: a posting moves stock once, is voided at most once, and nothing else changes a count |
| `StockEvents` | the events of the older service over the same ledger, pushed or sent by RPC, and `ProductReconcile` |
| `ExactlyOnce`, `EventEffects` | the push handler step by step, and what it promises |
| `ConcurrentCalls` | handlers that overlap on one row, step by step |
| `RowLocks` | handlers that lock several rows one by one, stock-takes and the cancel of their session included, and the deadlock detector |
| `StockValue` | amounts beside counts: average cost, landed cost, what a cancel takes back |
| `SyncLegacy` | the command's goroutines and channels |
| `MC*` | values for the constants |
| `SumLemmas` | lemmas on sums over finite sets |
| `InventoryProofs` | theorems on the composed service, in three parts: what one step does to the ledger; the ledger and the refinement; racks, batches and documents |
| `StockEventsProofs`, `RowLocksProofs`, `ExactlyOnceProofs`, `ConcurrentCallsProofs`, `StockValueProofs`, `SyncLegacyProofs` | theorems on the module they are named after |

**Correspondence.** In the modules of the first group, and in `StockValue`, one
step is one committed database transaction: the guard is the conjunction of the
handler's checks, and a call that is refused, or is idempotent because the
document is final already, changes nothing and is a stuttering step. Where the
code's steps interleave, `ConcurrentCalls`, `RowLocks` and `ExactlyOnce` split the
handler at each read, lock and commit, `StockEvents` splits `ProductReconcile`,
`StockValue` the two calls that read an average without a lock, and `SyncLegacy`
has a step per operation on a channel.

- The append-only logs appear as what the code reads back from them: the sum of
  `change` per transaction (`batchNet`, `placeNet`), whether there are rows at
  all (`logged`), and the sum over everything (`logTotal`).
- Items of a document are a count per product. `Restocks` keeps the separate
  lines of a product, because `acceptRestock` does not merge them.
- `IsPick` says what the greedy loop of `applyOrderPlacements` results in; the
  order of `PickedBefore` is total, so there is one pick. `RowLocks` has the loop
  itself, on racks another call may change while the query waits for its locks.
- Ids come from sequences and are handed out in order; the gaps a rollback
  leaves are closed up, since nothing depends on them.
- `InitStock` and `InitPlace` are what a reconcile brought in. They need not
  agree: the core runs start with a unit in the state that is on no rack, as the
  code allows for.
- `Histories` are the rows of the legacy `invertory_histories` that carry a
  `tx_id`. In the core only the run `Transfers` has any; in `StockEvents` every
  transaction has.
- *The older service* is external: in `StockEvents` its transactions are
  constants (kind, warehouse, items, problems, the lot they draw on), it commits
  and cancels them when its own rules allow, and its on-hand rows are functions
  of those that stand. An item carries at most one problem row. Two assumptions
  say what its tables are like: the rack rows of a transaction hold its items less
  those booked as problems (`HistoriesAssumption`), and the codes of lots older than
  the scenario, which are `legacy-<sku>-<price>`, are no transaction id
  (`OldLot` in `LegacyAssumption`).
- *A row lock* in `RowLocks` is taken, its value read and the change noted in one
  step; the changes of a call become visible together when it commits. A
  `stock_placements` row that does not exist cannot be locked by a query, but the
  key a call inserts is held like a lock. What a query returns is a sequence of the
  rows, sorted where it says `ORDER BY` or the code sorts, any sequence where not.
- *Money.* The code divides floats. `StockValue` takes a step only when the
  average it computes is a whole number (`Whole`), so nothing depends on
  rounding; prices and fees are chosen divisible.

Names, notes, the documents' own logs and the per-batch columns of
`stock_batch_logs`, which the code leaves at zero, are left out.

## 3. What the runs show

| Run | Question | Result |
|---|---|---|
| `OneWarehouse` | do transactions, picks, moves, restocks, stock-takes and cancels in any order keep state and racks explained; does a cancel take back all a transaction did, is what enters placed, do batches follow their transaction, does a pick miss no rack, is a count the truth, does only a cancel overdraw a rack? | holds |
| `Transfers` | does the service keep its ledger, links, goods and promise with transfers and cancels by id? | holds |
| `ExactlyOnce` | does each message work once, under overlap, failure, crash, lost answers, and is it acknowledged in the end? | holds |
| `OverlappingCalls` | does the row lock protect the counts and the order guard, and is settling idempotent but for overlap? | holds |
| `StockEvents` | do events, RPC retries, cancels and reconciles keep the mirror of the older service, but for the causes named, and is every event applied unless it is stuck in a way named? | holds |
| `RowLocks` | what do several row locks per call lead to: balances, deadlocks, short picks, the order of drained racks, counts, deleted racks? | holds |
| `StockValue` | is stock worth what its transactions say, do transfers conserve value, what moves a unit cost? | holds |
| `SyncLegacy` | is nothing sent on a closed channel, does the command end, with each row reported once? | holds |
| `DuplicateLines` | is every accepted unit placed? | **no** |
| `AcceptMeetsCancel` | is a transfer either accepted or canceled? | **no**, when they overlap |
| `PoisonedEvent` | is every published event applied in the end? | **no** |
| `CompleteMeetsDiscard` | does a session that has ended stay as it ended? | **no**, when they overlap |

**Bounds of the core runs** (`OneWarehouse`, `Transfers`, `DuplicateLines`). They
have one product. `OneWarehouse` has one warehouse with up to three racks, the
others two warehouses with a rack each. The stock of warehouse 1 is one unit more
than stands on its racks. `MaxCount` bounds what one request asks for; `TxIds`,
`TransferIds`, `RestockIds`, `OpnameIds` bound how many there are. `OneWarehouse`
asks for up to two units, so that a piece of a restock can be a problem. Its state
constraint `OneDocument` keeps it in reach: a behaviour has a restock or a
stock-take or neither, and rack 3 is never deleted; with one, orders pick small
racks first and rack 3 stays absent; with a stock-take no rack is deleted, rack 1 is
counted zero or one and rack 2 one, and a session is canceled before it counts.
Without a document only the bound on deleting rack 3 holds. A unit counted away from
one rack and onto another is enough for a stock-take that nets to zero, whose
transaction has no batch-log rows.

Products do not interact within a handler other than by sharing its transaction, so
one is enough for the counts; two warehouses are needed for transfers and for the
cache; two racks for a pick that spreads, three for a move whose second item takes
from a rack what the first has taken already. Two transactions allow an inbound or a
stock-take, an order that uses it and the cancel of either; three a transfer with
both legs and one more. All kinds of documents at once are beyond what TLC explores
in minutes; the theorems hold for all at once.

**The other bounds.** `OverlappingCalls`: an accept and a cancel of one transfer,
three returns of one sale, two orders, on a row that holds nothing; calls that ask
for the same are interchangeable (`SYMMETRY Alike`, sound as no property tells
them apart and none is a liveness property). Three returns are the fewest with
which stock falls below zero: two give the sale back twice, the third takes one of
them out again. `StockEvents`: three scenarios (a restock with a problem piece and
an order; a transfer with both its warehouses reconciled; a problem, and an order
whose only item is a problem), each message pushed once and sent by RPC once
more (`MaxPushes`). `RowLocks`: fifteen scenarios of three calls each, chosen so
that each pair of kinds that can wait for each other meets, with rows missing,
racks deleted and one session completed twice or canceled meanwhile
(`CompleteMeetsDiscard` has the same); two products because a deadlock among
handlers of one product needs racks. `StockValue`: three transactions,
enough for both legs of a transfer and a change in between. `SyncLegacy`: four
rows, concurrency two: both channels fill and empty more than once.

**The runs that fail** are disagreements between the code and its own comments:

- **`DuplicateLines`.** `acceptRestock` compares placements with the last line
  of a product while all lines enter the stock. With one line per product
  (`OneWarehouse`) the property holds.
- **`AcceptMeetsCancel`.** The status is read before anything is locked, and
  written back without looking again. The same holds of the net a cancel
  reverses: two overlapping `TransactionCancel`s of one sale, or two cancel
  events of one source in different messages, both give the goods back.
  `SettledTwiceOnlyByOverlap` shows that nothing else does: not retries, not
  repeats, not any order of calls one after the other. `ExactlyOnce` has one
  cancel event for this reason.
- **`PoisonedEvent`.** An inbound of the older service commits; a reconcile copies
  its on-hand and inserts a batch under its id; the event then finds no batch *of
  its inbound* and inserts one under a code that is taken. Every delivery fails,
  so the stock the reconcile brought in stays right but the message is redelivered
  for good. `AppliedOrStuck` shows that this, and the cancel of a source that
  expanded to nothing, are the only ways an event is never applied.
- **`CompleteMeetsDiscard`.** As for transfers, the status of a session is read
  without a lock. An `OpnameComplete` and an `OpnameCancel` that overlap both
  commit: a session that says it is canceled has adjusted the stock. Without the
  overlap both are refused (`SessionEnded`).

**Known limits**, which the code allows and properties are stated around:

- A stock-take moves state and racks by the same variance (`CountedIsTruth`), so a
  difference between the two survives it even when every rack is counted, also the
  one a short pick leaves "as drift for Opname to correct"
  (`transaction_order.go:125-127`). `DriftOnlyByLateGoods` says when an order adds
  to the difference: too few units on the racks it found.
- `ORDER BY count ... FOR UPDATE` sorts before it waits, so an order that waited for
  a rack drains the racks in the order of counts that have changed meanwhile: it may
  take from the bigger rack first under the policy "smaller". `DrainsByPolicy` says
  that nothing else makes it.
- `TransactionCancel` finds a transaction by id whatever its type, so the leg of
  an accepted transfer can be canceled while the document stays accepted.
  `LegsFollowStatus` shows this is the only way the two part, and
  `TransfersConserve` and `TransfersConserveValue` that goods and value are
  conserved as long as they have not.
- `reconstructCancel` restores racks of a legacy transaction with the same id;
  `TransactionCancel` reverses them again, `TransferCancel` does not. `Transfers`
  starts with such a legacy transaction; `TransfersConserve`, `LedgerBalanced` and
  `ImplementsBook` hold regardless, as they are about stock, not about racks.
- `PushStockEvent` applies an event again each time it is called. `DriftHasACause`
  counts this among the causes of drift; `ReconcileHeals` says what removes it.
- A rack can be deleted with goods on it, and goods can still arrive on it by a
  cancel, a stock-take or a call that looked before (`DeadRackGainsLate`).
- `sync-legacy` with a concurrency of 0 waits forever; `SyncAssumption` excludes
  it.

Deadlock is checked except in `ExactlyOnce`, `RowLocks` and `SyncLegacy`, which end
when everything is acknowledged or every call is answered. A circle of locks in
`RowLocks` is no deadlock of the model, since the detector breaks it: that it
always can is `EveryCallEnds`. In `StockEvents` and the core runs something can
always be done.

**Fairness.**

- `ExactlyOnce`, for `EveryMessageAcked`: a request that was received goes on
  (weak fairness of its own steps); the subscription delivers a message again and
  again until it is acknowledged (strong fairness of its delivery); errors,
  crashes and lost answers, possible at every step, do not go on forever. A cancel
  that finds no source is not such an accident: it fails by the handler's own
  logic, as often as it is delivered too early. Nothing is assumed of the
  publisher: an acknowledgement is promised to a cancel only if the event it
  reverses is published.
- `StockEvents`, for `AppliedOrStuck` and `EveryEventApplied`: weak fairness of
  *some* message being applied by the push handler, since Pub/Sub delivers until
  it is acknowledged. Each can be applied there once, so none is passed over
  forever. Nothing is assumed of the older service, of RPC callers or reconciles.
- `RowLocks`, for `EveryCallEnds`: weak fairness of each call. A handler goes on
  when its lock is free, and PostgreSQL's detector aborts a call of each circle.
- `SyncLegacy`, for `CommandEnds`: weak fairness of each goroutine, and every call
  of the service is answered or fails. A panic need not happen.

## 4. What is proved

`tlapm` checks every proof; no assumption is used but those on the constants
(`LedgerAssumption` and its siblings, evaluated by the runs) and, where a theorem
says so in an `ASSUME` of its own, a hypothesis named below. The sets of
warehouses, racks, skus, transaction ids and transfer ids are finite but
arbitrary, and so are products where calls lock several rows; elsewhere products,
and restocks, stock-takes, calls and messages, are arbitrary sets.
TLC checked every inductive invariant below on the small instances before it was
proved.

**`InventoryProofs`** (all components, any interleaving of all RPCs).
The inductive invariant is

```
IInv == TypeOK /\ LedgerInv /\ OutExists
```

`LedgerInv` is `TransactionNet`, `LedgerBalanced`, that `logTotal` is the sum of
`batchNet`, and the types all of this needs; `OutExists` says that a transfer
refers to a transaction that exists. Neither `LedgerBalanced` nor
`StockIsActiveTransactions` is inductive alone: the engine adds the change of
*all* warehouses to the row of *one* (the cache), which is right only if a
transaction's rows are in one warehouse, and that is `TransactionNet`.

The argument: `StepMoves` shows that each of the actions is one of three
things to the ledger, a posting of one new transaction, the voiding of one
transaction, or quiet. Part 1 of the module shows that each of the three preserves
`LedgerInv`. `ActiveTransactionsAddUp` then gives `StockIsActiveTransactions`.
From it:

- `TypeCorrect`: `Spec => []TypeOK`
- `LedgerKept`: `Spec => [](TransactionNet /\ LedgerBalanced)`
- `StockExplained`: `Spec => []StockIsActiveTransactions`
- `InventoryImplementsBook`: `Spec => ImplementsBook`, step by step: posting maps
  to `Post`, voiding to `Void`, and the cancel of a canceled leg to a stutter

`SumLemmas` proves what sums over finite sets need (one term changed, terms
that are zero, naturals). Sums are folds, hence recursive, and induction is out of the
provers' reach; the lemmas choose a smallest counterexample among the subsets of
the finite set instead. For conservation they go on to sums of sums, sums over
disjoint sets and over groups of indices, and sums in either order of a table.

Part 3 goes on to racks, batches and documents, in the same generality. Two
inductive invariants stand on `IInv`:

```
LinksInv == TransfersLinked /\ RestocksLinked
RacksFollowStatus
```

`LinksInv` says that a transaction is linked by one document at most, that its
type, warehouse and items are those of the document, and that a document has its
IN leg or inbound exactly when it is accepted. `DocumentLinks` alone is not
inductive: an accept is the right one only because a pending document has no
IN leg yet, and disjointness of the links needs that a new transaction id is linked
by nobody (`OutExists`). `RacksFollowStatus` says what the placement log of a
transaction nets to in each status: nothing before it exists, nothing while it is
an active OUT leg, and after a cancel nothing or the legacy rows of its id.

`StepShapes` reduces every action to one of three things for racks and batches:
it *enters* one new transaction with its rack move, it *leaves* one canceled with the
reverse, or it *shuffles* goods between racks without changing a product's sum.
From these:

- `DocumentsLinked`: `Spec => []DocumentLinks`
- `RacksAreExplained`: `Spec => []RacksExplained`
- `BatchesFollow`: `Spec => []BatchesFollowStatus`
- `CanceledStaysAsIs`: `Spec => CanceledIsFinal`. The call to worry about is
  `TransferCancel`, which does not look at the status of the OUT leg.
- `CanceledLeavesRacks`: `Spec => []CanceledLeavesNoPlacement`, assuming that no
  legacy transaction shares an id (`Histories[tx] = NoMove`), as in the run
  `OneWarehouse`; with one, `TransferCancel` leaves its racks restored (see the limits
  above).
- `LegsKeepInStep`: `Spec => LegsFollowStatus`
- `TransfersKeepGoods`: `Spec => []TransfersConserve`. The sum of the active
  transactions (`StockExplained`) is split into that of the legs, grouped by their
  transfer, and the rest; the legs of a transfer sum to minus what is on the road.
- `AcceptedStands`: `Spec => []AcceptedPlaced`, assuming one row per product
  (`\A i, j \in Lines : i = j`), as in `OneWarehouse`; `DuplicateLines` shows
  that it is false with two.
- `RacksNotOverdrawn` (`OnlyCancelsOverdraw`), `CountsBecomeTruth`
  (`CountedIsTruth`), `ShortPicksEmpty` (`ShortPickEmptiesRacks`): action
  properties, one lemma per handler. The first is where the order of the rows in a
  request matters: a later item of a rack move may spend what an earlier one brought.

**`StockValueProofs`** (any warehouses, prices, fees, number of calls).

```
IInv == TypeOK /\ NetsFollow /\ OutExists /\ ReadsWhole /\ ValueIsActiveTransactions
```

`NetsFollow` says what the log of a transaction sums to: its item while it is
active, nothing before and after. With it the rule that a cancel skips a
transaction whose *counts* net to zero loses no value, since the worth is then
zero as well. `ReadsWhole` carries the bound on averages from the read to its use.
`ValueExplained` is `ValueIsActiveTransactions`. For `UnitCostStable` each action
either is one of the causes the property names or takes or adds units at the
average of the row, and then `amount' * count = amount * count'`; that is
arithmetic (`SameRatio`, `AverageOfAll`). `TransfersKeepValue`
(`TransfersConserveValue`) adds `LegsInv == LegsLinked /\ QuotesFresh`: every leg
belongs to one transfer and has its worth, and a create that still holds an average
has not written its transfer yet. Then the sum of the active transactions splits
as it does for counts. All three theorems are about the steps `Whole` admits:
averages without rounding.

**`ExactlyOnceProofs`** (any messages, any number of requests, cancels
included): `ExactlyOnceEffect` (`TypeOK /\ AtMostOnce /\ InboxIsTruth`),
`NothingLost` (`AckedIsApplied`), `HandlerImplementsEffects` (refinement of
`EventEffects`). The strengthening: requests past their insert work on messages
that are not in the inbox yet, no two on the same, and a cancel that has worked has
a source with rows. `SourceNetsOut` is `SourceNets`, by `NetInv`: a source nets to one
while its event is in the inbox and its cancel is not, and what a reversal read
before it held any lock is still what it undoes. It assumes `OneEventEach`, that
the publisher publishes one event of each kind for a source; two overlapping
cancel events would both undo the same net (see `AcceptMeetsCancel` above).

**`ConcurrentCallsProofs`** (any number of calls): `NoLostUpdateHolds`,
`LockProtectsRead`, `OnlyReturnsOversell` and `SettledTwiceByOverlap`. The
strengthening: a row's holder is exactly the call past its `FOR UPDATE`, and what
it read is still what is committed. Therefore an order's guard is still true when
it commits, and a fall below zero can only be a cancel whose net was positive. For
`SettledTwiceOnlyByOverlap`, `OpenIsUntouched` is added: a document that is still
open has its unit out and nothing arrived, and the cancels on their way have read
it so. Hence a commit on an open document settles it the first time.

**`StockEventsProofs`** (any warehouses, products, racks; any transactions of the
older service; any number of deliveries, RPC retries and reconciles).

```
IInv == TypeOK /\ OneWarehouse /\ LoggedApplied /\ NetOfApplied /\ BatchOnce
        /\ InboundBatchedOnce
```

A cancel reverses what the log of its source nets to, so what an event does to the
stock is known only while that net is. `NetOfApplied` says it: nothing before the
source was applied, its move once it was, nothing again after the cancel; and no
claim once it was applied twice, which is why `DriftHasACause` must name that case.
`OneWarehouse` is again what the product-keyed cache needs. `BatchOnce` makes
`InboundBatchedOnce` inductive: a batch that exists is the inbound's own, whole.

- `InboundsBatchedOnce`: `Spec => []InboundBatchedOnce`
- `ReconcilesHeal` (`ReconcileHeals`): `RackCount` sums to `OnHand`, so a total
  that was read before the racks were is the total of the racks if nothing
  committed meanwhile.
- `DriftHasOnlyTheseCauses` (`DriftHasACause`): an event applied the first time
  adds one transaction to the view, its cancel takes it out, and sums over the
  view change by just that.
- `RacksPartOnlyWithACause` (`RacksPartWithACause`): an event moves the state by its
  items and the racks by its histories, which agree by `HistoriesAssumption`.

**`RowLocksProofs`** (any number of calls, any products and racks, calls of all
kinds at once).

```
IInv == TypeOK /\ BalancesKept /\ SeenIsFresh
        /\ \A c \in Calls : Good(request[c], call[c], Held(c))
```

`BalancesKept` and the action properties speak of commits; that a commit is right
depends on all a handler did before, between which others run. `SeenIsFresh` says
that what a call read of a row it holds is what the row has still. `Good` says, of
one call alone, what its locals mean in each phase: it changes only rows it holds
(`Covered`), an order has taken all it wanted of a product or all that the racks it
found had (`Settled`), a stock-take means to write exactly its difference
(`Counting`, `Legs`), the cancel of its session means to write nothing, and in which
order it locks (`RacksInOrder`, `StatesFirst`).
Being about the call's request, its locals and the rows it holds, `Good` is kept by
every step of every other call, and there is one lemma per step of its own.

- `BalancesAreKept`: `Spec => []BalancesKept`
- `CirclesHaveTheirShape`: `Spec => []DeadlockShape`. A circle of moves would
  have a row that is last in the order of racks and that somebody holds while he
  waits for an earlier one. A circle of orders, accepts and cancels would need two
  states, since none of them waits for a rack whose state it does not hold.
- `CountsHoldTruth` (`CountedRowsHoldTruth`), `DeadRacksGainLate`
  (`DeadRackGainsLate`)
- `DriftNeedsLateGoods` (`DriftOnlyByLateGoods`): of all calls only an order moves
  a state by another amount than the racks, and `Settled` says how it may.
- `PicksFollowPolicy` (`DrainsByPolicy`): a take from a rack needs all racks before it
  in the queue drained (lemma `Greedy`). The query leaves no two racks of the queue out
  of order (`FoundInOrder`), and the queue does not change after (`QueueStep`), so two
  that are out of order later were changed by a commit of another call (an order
  has no queue by the time it commits, `NoQueue`), which held the row.
- `NobodyIsForgotten`: whenever calls wait there is a circle for the detector, or
  a call that holds rows and waits for nobody, for any finite number of calls.
  This is the part of `EveryCallEnds` that is about states: an ended call holds
  nothing, and a smallest set of calls that wait for one of them is a circle.

**`SyncLegacyProofs`** (any rows, any concurrency): `CallsAreBounded`,
`NobodySendsAfterClose`, `RowsReportedOnce` (`ReportedOnce`) and
`CommandIsNeverStuck`. The strengthening `CountersExplained`: the tokens in the
limit are the calls that are running and the one about to be started, and the wait
group counts the workers that have started and not ended; `ItemIsNew`: a row that
is scanned has no worker; `SentOnce`: each row is still to be sent, once in the
channel, or reported. `ReportedOnce` is what
`CommandEnds` asks of the end, and `CommandIsNeverStuck` is the part about states of
getting there: while the command runs the guard of some goroutine holds. With no
result to receive no worker can be waiting to send, so none has a token and the
limit has room, or all have ended and the channel is closed.

Every invariant and every action property of every passing run is stated by a
theorem.

**Only model-checked:** liveness (`EveryMessageAcked`, `AppliedOrStuck`,
`EveryCallEnds`, `CommandEnds`), which with `ENABLED` the prover does not do. Of the
last two the state part is proved (above); that each step brings the end nearer, so
that fairness is enough, is what TLC adds. That a sorted sequence of the rows of a
call exists, so that `FindRacks`, `BeginMove` and the like can always be taken, is an
induction over data and left to TLC as well; no safety theorem depends on it.

## 5. Not modelled

- *Read-only RPCs* (lists, details, movements): no state changes.
- *Wiring, migrations*: no behaviour of their own.
- *The actions of `RestockUpdate` that edit the shipping fee or info, and
  `RackUpdate`*: they change neither counts nor status. The fee enters
  `StockValue` as what an accepted restock adds to its price.
- *The supplier-balance log a restock posts*: written by another library, read by
  nothing here.
- *Several restock costs or problems per item*: the query of `expandTxItems`
  would multiply rows; how many there may be is up to the older service's tables.
- *Amounts of events and reconciles, rounding of floats*.
- *The variants `ProcessStockEvent` ignores* (adjustment, stock change): no-ops.

## 6. Plan

Done: the ledger and the transactions; documents over it; their composition and
refinement; delivery; overlap; events and reconcile; row locks; value; the
command; theorems for all safety and action properties. What could follow: the
amounts of events and reconciles beside their counts, in the manner of
`StockValue`; several cost or problem rows per item of the older service; and a
measure that falls with every step of a call, as the safety half of what is left
of `EveryCallEnds`.
