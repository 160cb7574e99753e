------------------------------ MODULE StockValue ------------------------------
(***************************************************************************)
(* What the stock is worth: stock_states.stock_ready_amount, beside the    *)
(* counts StockLedger models.  Goods come in at a price the caller names,  *)
(* leave at the average of their warehouse, cross to another warehouse at  *)
(* the average they left with, and a cancel takes back what the log says   *)
(* the transaction was worth.  One product.                                *)
(*                                                                         *)
(* One step is one committed transaction, except that TransferCreate and   *)
(* OpnameComplete read the average without a lock before they lock the     *)
(* row they apply it to.  An order reads it under that lock.               *)
(*                                                                         *)
(* The code divides floats; here a step whose average is not a whole       *)
(* number is not taken (bound Whole).                                      *)
(***************************************************************************)
EXTENDS Integers, FiniteSets, Functions

CONSTANTS
    Warehouses,
    TxIds,          \* ids inventory_transactions may hand out, in order
    TransferIds,    \* transfers one behaviour may create
    OpnameIds,      \* stock-takes one behaviour may complete
    Pieces,         \* bound: counts a call may ask for
    Prices,         \* bound: unit prices a caller may name
    Fees,           \* bound: shipping and warehouse fee of a restock
    Variances,      \* bound: what a stock-take may find too many or too few
    InitCount, InitAmount   \* stock on hand when the behaviour starts

ASSUME ValueAssumption ==
    /\ IsFiniteSet(Warehouses) /\ IsFiniteSet(TxIds) /\ TxIds \subseteq Nat
    /\ IsFiniteSet(TransferIds) /\ TransferIds \cap OpnameIds = {}
    /\ Pieces \subseteq Nat \ {0} /\ Prices \subseteq Nat /\ Fees \subseteq Nat
    /\ Variances \subseteq Int \ {0}
    /\ InitCount \in [Warehouses -> Int] /\ InitAmount \in [Warehouses -> Int]

VARIABLES
    count,      \* stock_states.stock_ready
    amount,     \* stock_states.stock_ready_amount
    trx,        \* inventory_transactions with the count and worth of their item
    net,        \* SUM(change), SUM(change * price) of stock_batch_logs
    transfers,  \* inventory_transfers with their item
    read        \* per open call: the state row it took its average from

vars == <<count, amount, trx, net, transfers, read>>

Quoters == TransferIds \cup OpnameIds

Kinds == {"inbound", "problem", "order", "opname", "transfer_out", "transfer_in"}

NoTx       == [status |-> "none"]
NoTransfer == [status |-> "none"]
NoRead     == [open |-> FALSE]

Delta == [count : Int, worth : Int]

Transaction == [status : {"active", "canceled"}, kind : Kinds,
                warehouse : Warehouses, count : Int, worth : Int]

Transfer == [status : {"pending", "accepted", "canceled"},
             from : Warehouses, to : Warehouses, count : Nat \ {0}, price : Int,
             out : TxIds, in : SUBSET TxIds]

ReadRow == [open : {TRUE}, warehouse : Warehouses, count : Int, amount : Int]

-----------------------------------------------------------------------------
(* The engine                                                               *)

Whole(n, v) == n > 0 => v % n = 0

\* The unit cost of n units worth v: 0 when there are none.
Average(n, v) == IF n > 0 THEN v \div n ELSE 0

\* NewProcessStockBatchLog: both sides of the state move by the same sign, and
\* the price in the log is such that change * price is the value.
ProcessStockBatchLog(tx, w, n, v) ==
    /\ count' = [count EXCEPT ![w] = @ + n]
    /\ amount' = [amount EXCEPT ![w] = @ + v]
    /\ net' = [net EXCEPT ![tx] = [count |-> @.count + n, worth |-> @.worth + v]]

\* The next id of the inventory_transactions sequence.
IsNextId(tx) == trx[tx] = NoTx /\ \A t \in TxIds : t < tx => trx[t] # NoTx

\* A new transaction with its item, applied at once.
Post(tx, kind, w, n, v) ==
    /\ IsNextId(tx)
    /\ trx' = [trx EXCEPT ![tx] = [status |-> "active", kind |-> kind,
                                   warehouse |-> w, count |-> n, worth |-> v]]
    /\ ProcessStockBatchLog(tx, w, n, v)

\* Mutant of ReconstructCancel: the goods come back at today's average.
CancelAtAverage(tx) ==
    LET w == trx[tx].warehouse IN
    IF net[tx].count = 0 THEN UNCHANGED <<count, amount, net>>
    ELSE ProcessStockBatchLog(tx, w, -net[tx].count,
             -net[tx].count * Average(count[w], amount[w]))

\* reconstructCancel: nothing when the counts net to zero, whatever the value.
ReconstructCancel(tx) ==
    IF net[tx].count = 0 THEN UNCHANGED <<count, amount, net>>
    ELSE ProcessStockBatchLog(tx, trx[tx].warehouse, -net[tx].count, -net[tx].worth)

Void(tx) == trx' = [trx EXCEPT ![tx].status = "canceled"]

-----------------------------------------------------------------------------
(* Transactions                                                             *)

\* TransactionCreate of a restock, return or found-back, and the restock that
\* RestockUpdate accepts: there the fees are shared out over the pieces.
Receive(tx, w, n, price, fee) ==
    /\ Post(tx, "inbound", w, n, n * price + fee)
    /\ UNCHANGED <<transfers, read>>

\* TransactionCreate of a problem: out, at the price the caller names.
Problem(tx, w, n, price) ==
    /\ Post(tx, "problem", w, -n, -n * price)
    /\ UNCHANGED <<transfers, read>>

\* Mutant of OrderCost: the average over what the order leaves.
OrderCostAfter(w, n) == n * Average(count[w] - n, amount[w])

\* What the ordered units are worth, at the average under the row lock.
OrderCost(w, n) == n * Average(count[w], amount[w])

\* applyOrderOutbound.
OrderCreate(tx, w, n) ==
    /\ count[w] >= n
    /\ Whole(count[w], amount[w])
    /\ Post(tx, "order", w, -n, -OrderCost(w, n))
    /\ UNCHANGED <<transfers, read>>

\* TransactionCancel takes any id: that of a transfer's leg or of a stock-take.
TransactionCancel(tx) ==
    /\ trx[tx].status = "active"
    /\ ReconstructCancel(tx)
    /\ Void(tx)
    /\ UNCHANGED <<transfers, read>>

-----------------------------------------------------------------------------
(* Averages read without a lock                                             *)

\* sourceAveragePrices, stockStateAveragePrices.
ReadAverage(q, w) ==
    /\ read[q] = NoRead
    /\ q \in TransferIds => transfers[q] = NoTransfer
    /\ Whole(count[w], amount[w])
    /\ read' = [read EXCEPT ![q] = [open |-> TRUE, warehouse |-> w,
                                    count |-> count[w], amount |-> amount[w]]]
    /\ UNCHANGED <<count, amount, trx, net, transfers>>

Quoted(q) == Average(read[q].count, read[q].amount)

Close(q) == read' = [read EXCEPT ![q] = NoRead]

\* An error or a crash in between.
Rollback(q) ==
    /\ read[q] # NoRead
    /\ Close(q)
    /\ UNCHANGED <<count, amount, trx, net, transfers>>

-----------------------------------------------------------------------------
(* Transfers                                                                *)

\* TransferCreate: out leg and document at the average read; no stock guard.
TransferCreate(t, tx, to, n) ==
    LET from == read[t].warehouse IN
    /\ t \in TransferIds /\ read[t] # NoRead
    /\ to # from
    /\ Post(tx, "transfer_out", from, -n, -n * Quoted(t))
    /\ transfers' = [transfers EXCEPT ![t] =
          [status |-> "pending", from |-> from, to |-> to, count |-> n,
           price |-> Quoted(t), out |-> tx, in |-> {}]]
    /\ Close(t)

\* Mutant of ArrivalPrice: the average of the warehouse the goods come to.
ArrivalAverage(t) == Average(count[transfers[t].to], amount[transfers[t].to])

\* loadTransferItems: the price in the document.
ArrivalPrice(t) == transfers[t].price

TransferAccept(t, tx) ==
    /\ transfers[t].status = "pending"
    /\ Post(tx, "transfer_in", transfers[t].to, transfers[t].count,
            transfers[t].count * ArrivalPrice(t))
    /\ transfers' = [transfers EXCEPT ![t].status = "accepted", ![t].in = {tx}]
    /\ UNCHANGED read

TransferCancel(t) ==
    /\ transfers[t].status = "pending"
    /\ ReconstructCancel(transfers[t].out)
    /\ Void(transfers[t].out)
    /\ transfers' = [transfers EXCEPT ![t].status = "canceled"]
    /\ UNCHANGED read

-----------------------------------------------------------------------------
(* Stock-takes                                                              *)

\* applyOpnameAdjustment of a variance of n units.
OpnameComplete(o, tx, n) ==
    /\ o \in OpnameIds /\ read[o] # NoRead
    /\ Post(tx, "opname", read[o].warehouse, n, n * Quoted(o))
    /\ Close(o)
    /\ UNCHANGED transfers

-----------------------------------------------------------------------------
Init ==
    /\ count = InitCount
    /\ amount = InitAmount
    /\ trx = [tx \in TxIds |-> NoTx]
    /\ net = [tx \in TxIds |-> [count |-> 0, worth |-> 0]]
    /\ transfers = [t \in TransferIds |-> NoTransfer]
    /\ read = [q \in Quoters |-> NoRead]

Transactions(tx) ==
    \/ \E w \in Warehouses, n \in Pieces :
          \/ \E price \in Prices : \/ \E fee \in Fees : Receive(tx, w, n, price, fee)
                                   \/ Problem(tx, w, n, price)
          \/ OrderCreate(tx, w, n)
    \/ TransactionCancel(tx)

Quotes(q) == (\E w \in Warehouses : ReadAverage(q, w)) \/ Rollback(q)

TransferSteps(t, tx) ==
    \/ \E to \in Warehouses, n \in Pieces : TransferCreate(t, tx, to, n)
    \/ TransferAccept(t, tx)

Next ==
    \/ \E tx \in TxIds : Transactions(tx)
    \/ \E q \in Quoters : Quotes(q)
    \/ \E t \in TransferIds : (\E tx \in TxIds : TransferSteps(t, tx)) \/ TransferCancel(t)
    \/ \E o \in OpnameIds, tx \in TxIds, n \in Variances : OpnameComplete(o, tx, n)

Spec == Init /\ [][Next]_vars

-----------------------------------------------------------------------------
TypeOK ==
    /\ count \in [Warehouses -> Int] /\ amount \in [Warehouses -> Int]
    /\ trx \in [TxIds -> Transaction \cup {NoTx}]
    /\ net \in [TxIds -> Delta]
    /\ transfers \in [TransferIds -> Transfer \cup {NoTransfer}]
    /\ read \in [Quoters -> ReadRow \cup {NoRead}]

\* What a transaction has left in the state of a warehouse.
CountAt(tx, w) == IF trx[tx] # NoTx /\ trx[tx].status = "active" /\ trx[tx].warehouse = w
                  THEN trx[tx].count ELSE 0
WorthAt(tx, w) == IF trx[tx] # NoTx /\ trx[tx].status = "active" /\ trx[tx].warehouse = w
                  THEN trx[tx].worth ELSE 0

\* A warehouse is worth what it was at first and what the transactions that
\* stand brought in at their own price or took out at theirs.  A cancel reads
\* from the log what to take back, and skips the value when the counts net to
\* zero: no value is left behind where no unit is.
ValueIsActiveTransactions ==
    \A w \in Warehouses :
        /\ count[w] = InitCount[w] + SumFunction([tx \in TxIds |-> CountAt(tx, w)])
        /\ amount[w] = InitAmount[w] + SumFunction([tx \in TxIds |-> WorthAt(tx, w)])

Legs == {"transfer_out", "transfer_in"}

\* No leg was canceled behind the back of its document.
LegsAsDocuments ==
    \A t \in TransferIds : transfers[t] # NoTransfer =>
        /\ trx[transfers[t].out].status = "canceled" <=> transfers[t].status = "canceled"
        /\ \A i \in transfers[t].in : trx[i].status = "active"

Traded(tx) == IF trx[tx] # NoTx /\ trx[tx].status = "active" /\ trx[tx].kind \notin Legs
              THEN trx[tx].worth ELSE 0

OnTheRoad(t) == IF transfers[t].status = "pending"
                THEN transfers[t].count * transfers[t].price ELSE 0

\* transfer_create.go: prices are derived "so value is conserved across
\* warehouses".  What the warehouses hold and what is on the road is worth
\* what was there at first and what was traded: a transfer adds nothing, also
\* when either average moves between its creation and its end.
TransfersConserveValue ==
    LegsAsDocuments =>
        SumFunction(amount) + SumFunction([t \in TransferIds |-> OnTheRoad(t)])
            = SumFunction(InitAmount) + SumFunction([tx \in TxIds |-> Traded(tx)])

\* The step posts a transaction of one of these kinds.
Posts(tx, kinds) == trx[tx] = NoTx /\ trx'[tx] # NoTx /\ trx'[tx].kind \in kinds

\* The call used an average of a row that has changed since.
UsedStale(q) == /\ read[q] # NoRead /\ read'[q] = NoRead
                /\ LET w == read[q].warehouse IN
                   <<read[q].count, read[q].amount>> # <<count[w], amount[w]>>

\* Moving goods out of a warehouse, or correcting their number, leaves the
\* unit cost of the rest alone, and the last unit takes the last of the value.
\* It moves only when goods come in at a price of their own, are written off
\* at one, when a cancel takes back what was booked at one, or when a transfer
\* or a stock-take applies an average another call has changed meanwhile.
UnitCostMovesWithACause ==
    [][\A w \in Warehouses :
          count[w] > 0 /\ amount'[w] * count[w] # amount[w] * count'[w] =>
              \E tx \in TxIds :
                 \/ Posts(tx, {"inbound", "problem", "transfer_in"})
                 \/ trx[tx].status = "active" /\ trx'[tx].status = "canceled"
                 \/ /\ Posts(tx, {"transfer_out", "opname"})
                    /\ \E q \in Quoters : UsedStale(q)]_vars
=============================================================================
