--------------------------- MODULE StockValueProofs ---------------------------
(***************************************************************************)
(* What a warehouse is worth is explained by the transactions that stand,  *)
(* for any number of them, any prices and any warehouses.                  *)
(*                                                                         *)
(* ValueIsActiveTransactions is not inductive: a cancel takes back what    *)
(* the log says, and nothing at all when the counts net to zero.  The      *)
(* proof carries what the log says (NetsFollow), that no transaction is of *)
(* zero units, that transfers refer to transactions that exist, and that   *)
(* averages were read where they are whole.                                *)
(***************************************************************************)
EXTENDS StockValue, SumLemmas, TLAPS

Zero == [count |-> 0, worth |-> 0]

TrxTypes == /\ count \in [Warehouses -> Int] /\ amount \in [Warehouses -> Int]
            /\ trx \in [TxIds -> Transaction \cup {NoTx}]
            /\ net \in [TxIds -> Delta]

NetsFollow ==
    \A tx \in TxIds :
        /\ trx[tx] # NoTx => trx[tx].count # 0
        /\ net[tx] = IF trx[tx] # NoTx /\ trx[tx].status = "active"
                     THEN [count |-> trx[tx].count, worth |-> trx[tx].worth] ELSE Zero

OutExists == \A t \in TransferIds : transfers[t] # NoTransfer => trx[transfers[t].out] # NoTx

ReadsWhole == \A q \in Quoters : read[q] # NoRead => Whole(read[q].count, read[q].amount)

IInv == TypeOK /\ NetsFollow /\ OutExists /\ ReadsWhole /\ ValueIsActiveTransactions

Voids(tx) == trx[tx] # NoTx /\ ReconstructCancel(tx) /\ Void(tx)
Quiet == UNCHANGED <<count, amount, trx, net>>

\* No transaction disappears.
KeepsTxs == \A tx \in TxIds : trx[tx] # NoTx => trx'[tx] # NoTx

-----------------------------------------------------------------------------
LEMMA AverageType ==
  ASSUME NEW n \in Int, NEW v \in Int
  PROVE  Average(n, v) \in Int
BY SMT DEF Average

\* The whole of a warehouse at its average is what the warehouse is worth.
LEMMA AverageOfAll ==
  ASSUME NEW n \in Int, NEW v \in Int, n > 0, Whole(n, v)
  PROVE  n * Average(n, v) = v
BY SMT DEF Average, Whole

LEMMA ProductType ==
  ASSUME NEW a \in Int, NEW b \in Int
  PROVE  a * b \in Int /\ -a \in Int /\ (-a) * b \in Int
BY SMT

LEMMA TxTypes ==
  ASSUME TrxTypes, NEW tx \in TxIds, trx[tx] # NoTx
  PROVE  /\ trx[tx] \in Transaction /\ trx[tx].warehouse \in Warehouses
         /\ trx[tx].count \in Int /\ trx[tx].worth \in Int
         /\ trx[tx].status \in {"active", "canceled"}
BY DEF TrxTypes, Transaction

\* A change of one transaction's share changes the sum over all by as much.
LEMMA ShareChange ==
  ASSUME NEW f \in [TxIds -> Int], NEW g \in [TxIds -> Int], NEW tx \in TxIds,
         \A t \in TxIds \ {tx} : f[t] = g[t]
  PROVE  SumFunction(g) = SumFunction(f) + (g[tx] - f[tx])
<1>1. IsFiniteSet(TxIds)
  BY ValueAssumption
<1>2. /\ SumFunction(f) = SumFunctionOnSet(f, TxIds)
      /\ SumFunction(g) = SumFunctionOnSet(g, TxIds)
  BY DEF SumFunction, SumFunctionOnSet
<1> QED BY <1>1, <1>2, SumChange

-----------------------------------------------------------------------------
(* What a posting and a voiding do                                          *)

Core == TrxTypes /\ NetsFollow /\ ValueIsActiveTransactions

\* When one transaction's share in a warehouse changes by as much as its
\* state does, the state stays explained.
LEMMA StillExplained ==
  ASSUME TrxTypes, TrxTypes', ValueIsActiveTransactions,
         NEW tx \in TxIds, \A t \in TxIds \ {tx} : trx'[t] = trx[t],
         \A w \in Warehouses :
            /\ count'[w] - count[w] = CountAt(tx, w)' - CountAt(tx, w)
            /\ amount'[w] - amount[w] = WorthAt(tx, w)' - WorthAt(tx, w)
  PROVE  ValueIsActiveTransactions'
<1> SUFFICES ASSUME NEW w \in Warehouses
             PROVE  /\ count'[w] = InitCount[w]
                           + SumFunction([t \in TxIds |-> CountAt(t, w)'])
                    /\ amount'[w] = InitAmount[w]
                           + SumFunction([t \in TxIds |-> WorthAt(t, w)'])
  BY DEF ValueIsActiveTransactions
<1> DEFINE cf == [t \in TxIds |-> CountAt(t, w)]
           cg == [t \in TxIds |-> CountAt(t, w)']
           wf == [t \in TxIds |-> WorthAt(t, w)]
           wg == [t \in TxIds |-> WorthAt(t, w)']
<1>1. \A t \in TxIds : CountAt(t, w) \in Int /\ WorthAt(t, w) \in Int
  BY TxTypes DEF CountAt, WorthAt
<1>2. \A t \in TxIds : CountAt(t, w)' \in Int /\ WorthAt(t, w)' \in Int
  <2>1. ASSUME NEW t \in TxIds, trx'[t] # NoTx
        PROVE  trx'[t].count \in Int /\ trx'[t].worth \in Int
    BY <2>1 DEF TrxTypes, Transaction
  <2> QED BY <2>1 DEF CountAt, WorthAt
<1>3. \A t \in TxIds \ {tx} : cf[t] = cg[t] /\ wf[t] = wg[t]
  BY DEF CountAt, WorthAt
<1>4. /\ cf \in [TxIds -> Int] /\ cg \in [TxIds -> Int]
      /\ wf \in [TxIds -> Int] /\ wg \in [TxIds -> Int]
  BY <1>1, <1>2
<1>5. /\ cg[tx] - cf[tx] = count'[w] - count[w]
      /\ wg[tx] - wf[tx] = amount'[w] - amount[w]
  OBVIOUS
<1>6. count[w] = InitCount[w] + SumFunction(cf) /\ amount[w] = InitAmount[w] + SumFunction(wf)
  BY DEF ValueIsActiveTransactions
<1>7. /\ count[w] \in Int /\ count'[w] \in Int /\ amount[w] \in Int /\ amount'[w] \in Int
      /\ InitCount[w] \in Int /\ InitAmount[w] \in Int
  BY ValueAssumption DEF TrxTypes
<1>8. SumFunction(cf) \in Int /\ SumFunction(wf) \in Int
  <2>1. /\ SumFunction(cf) = SumFunctionOnSet(cf, TxIds)
        /\ SumFunction(wf) = SumFunctionOnSet(wf, TxIds)
    BY DEF SumFunction
  <2>2. \A t \in TxIds : cf[t] \in Int /\ wf[t] \in Int
    BY <1>4
  <2> HIDE DEF cf, wf
  <2> QED BY <2>1, <2>2, SumRemove, ValueAssumption
<1> HIDE DEF cf, cg, wf, wg
<1>9. /\ SumFunction(cg) = SumFunction(cf) + (cg[tx] - cf[tx])
      /\ SumFunction(wg) = SumFunction(wf) + (wg[tx] - wf[tx])
  BY <1>3, <1>4, ShareChange
<1>10. /\ count'[w] = InitCount[w] + SumFunction(cg)
       /\ amount'[w] = InitAmount[w] + SumFunction(wg)
  BY <1>5, <1>6, <1>7, <1>8, <1>9
<1> QED BY <1>10 DEF cg, wg

LEMMA PostKeeps ==
  ASSUME Core, NEW tx \in TxIds, NEW kind \in Kinds, NEW w \in Warehouses,
         NEW n \in Int \ {0}, NEW v \in Int, Post(tx, kind, w, n, v)
  PROVE  Core' /\ KeepsTxs
<1> DEFINE row == [status |-> "active", kind |-> kind, warehouse |-> w,
                   count |-> n, worth |-> v]
<1>1. /\ trx[tx] = NoTx /\ trx' = [trx EXCEPT ![tx] = row]
      /\ count' = [count EXCEPT ![w] = @ + n] /\ amount' = [amount EXCEPT ![w] = @ + v]
      /\ net' = [net EXCEPT ![tx] = [count |-> @.count + n, worth |-> @.worth + v]]
  BY DEF Post, IsNextId, ProcessStockBatchLog
<1>2. net[tx] = Zero
  BY <1>1 DEF Core, NetsFollow
<1>3. net'[tx] = [count |-> n, worth |-> v] /\ trx'[tx] = row
  BY <1>1, <1>2 DEF Core, TrxTypes, Zero
<1>4. row \in Transaction /\ row # NoTx /\ row.status = "active"
  BY DEF Transaction, NoTx
<1>5. /\ \A t \in TxIds \ {tx} : trx'[t] = trx[t] /\ net'[t] = net[t]
      /\ \A u \in Warehouses \ {w} : count'[u] = count[u] /\ amount'[u] = amount[u]
      /\ count'[w] = count[w] + n /\ amount'[w] = amount[w] + v
      /\ \A u \in Warehouses : count[u] \in Int /\ amount[u] \in Int
  BY <1>1 DEF Core, TrxTypes
<1>6. TrxTypes'
  <2>1. trx' \in [TxIds -> Transaction \cup {NoTx}]
    BY <1>1, <1>4 DEF Core, TrxTypes
  <2>2. net' \in [TxIds -> Delta]
    BY <1>1, <1>2 DEF Core, TrxTypes, Delta, Zero
  <2>3. count' \in [Warehouses -> Int] /\ amount' \in [Warehouses -> Int]
    BY <1>1 DEF Core, TrxTypes
  <2> QED BY <2>1, <2>2, <2>3 DEF TrxTypes
<1>7. NetsFollow'
  BY <1>3, <1>4, <1>5 DEF Core, NetsFollow, Zero
<1>8. \A u \in Warehouses :
         /\ count'[u] - count[u] = CountAt(tx, u)' - CountAt(tx, u)
         /\ amount'[u] - amount[u] = WorthAt(tx, u)' - WorthAt(tx, u)
  BY <1>1, <1>3, <1>4, <1>5 DEF CountAt, WorthAt
<1>9. ValueIsActiveTransactions'
  BY <1>5, <1>6, <1>8, StillExplained DEF Core
<1> QED BY <1>3, <1>4, <1>5, <1>6, <1>7, <1>9 DEF Core, KeepsTxs

LEMMA VoidKeeps ==
  ASSUME Core, NEW tx \in TxIds, Voids(tx)
  PROVE  Core' /\ KeepsTxs
<1>1. /\ trx[tx] # NoTx /\ trx' = [trx EXCEPT ![tx].status = "canceled"]
      /\ trx[tx] \in Transaction /\ trx[tx].warehouse \in Warehouses
      /\ trx[tx].count \in Int \ {0} /\ trx[tx].worth \in Int
      /\ trx[tx].status \in {"active", "canceled"}
  BY TxTypes DEF Voids, Void, Core, NetsFollow
<1>2. /\ trx'[tx] = [trx[tx] EXCEPT !.status = "canceled"]
      /\ \A t \in TxIds \ {tx} : trx'[t] = trx[t]
  BY <1>1 DEF Core, TrxTypes
<1>3. trx'[tx] \in Transaction /\ trx'[tx] # NoTx /\ trx'[tx].status = "canceled"
      /\ trx'[tx].count = trx[tx].count
  BY <1>1, <1>2 DEF Transaction, NoTx
<1>4. trx' \in [TxIds -> Transaction \cup {NoTx}]
  BY <1>1, <1>2, <1>3 DEF Core, TrxTypes
<1>5. CASE trx[tx].status = "canceled"
  <2>1. net[tx].count = 0 /\ net[tx] = Zero
    <3>1. net[tx] = Zero
      BY <1>5, Zenon DEF Core, NetsFollow
    <3> QED BY <3>1 DEF Zero
  <2>2. count' = count /\ amount' = amount /\ net' = net
    BY <2>1 DEF Voids, ReconstructCancel
  <2>3. TrxTypes'
    BY <1>4, <2>2 DEF Core, TrxTypes
  <2>4. NetsFollow'
    BY <1>1, <1>2, <1>3, <1>5, <2>1, <2>2 DEF Core, NetsFollow
  <2>5. ASSUME NEW w \in Warehouses
        PROVE  /\ count'[w] - count[w] = CountAt(tx, w)' - CountAt(tx, w)
               /\ amount'[w] - amount[w] = WorthAt(tx, w)' - WorthAt(tx, w)
    <3>1. CountAt(tx, w) = 0 /\ WorthAt(tx, w) = 0
      BY <1>5 DEF CountAt, WorthAt
    <3>2. CountAt(tx, w)' = 0 /\ WorthAt(tx, w)' = 0
      BY <1>3 DEF CountAt, WorthAt
    <3> QED BY <2>2, <3>1, <3>2 DEF Core, TrxTypes
  <2>6. ValueIsActiveTransactions'
    BY <1>2, <2>3, <2>5, StillExplained DEF Core
  <2> QED BY <1>2, <1>3, <2>3, <2>4, <2>6 DEF Core, KeepsTxs
<1>6. CASE trx[tx].status = "active"
  <2> DEFINE w == trx[tx].warehouse
             n == trx[tx].count
             v == trx[tx].worth
  <2>1. net[tx] = [count |-> n, worth |-> v] /\ n # 0
    BY <1>1, <1>6 DEF Core, NetsFollow
  <2>2. /\ count' = [count EXCEPT ![w] = @ + -n] /\ amount' = [amount EXCEPT ![w] = @ + -v]
        /\ net' = [net EXCEPT ![tx] = [count |-> n + -n, worth |-> v + -v]]
    BY <2>1 DEF Voids, ReconstructCancel, ProcessStockBatchLog
  <2>3. net'[tx] = Zero /\ \A t \in TxIds \ {tx} : net'[t] = net[t]
    BY <1>1, <2>2 DEF Core, TrxTypes, Zero
  <2>4. TrxTypes'
    <3>1. Zero \in Delta
      BY DEF Zero, Delta
    <3>2. net' = [net EXCEPT ![tx] = Zero]
      <4>1. n + -n = 0 /\ v + -v = 0
        BY <1>1
      <4> QED BY <2>2, <4>1, Zenon DEF Zero
    <3>3. count' \in [Warehouses -> Int] /\ amount' \in [Warehouses -> Int]
      BY <1>1, <2>2 DEF Core, TrxTypes
    <3> QED BY <1>4, <3>1, <3>2, <3>3 DEF Core, TrxTypes
  <2>5. NetsFollow'
    BY <1>1, <1>2, <1>3, <2>3 DEF Core, NetsFollow
  <2>6. ASSUME NEW u \in Warehouses
        PROVE  /\ count'[u] - count[u] = CountAt(tx, u)' - CountAt(tx, u)
               /\ amount'[u] - amount[u] = WorthAt(tx, u)' - WorthAt(tx, u)
    <3>1. CountAt(tx, u)' = 0 /\ WorthAt(tx, u)' = 0
      BY <1>3 DEF CountAt, WorthAt
    <3>2. /\ CountAt(tx, u) = IF u = w THEN n ELSE 0
          /\ WorthAt(tx, u) = IF u = w THEN v ELSE 0
      BY <1>1, <1>6 DEF CountAt, WorthAt
    <3>3. /\ count'[u] = IF u = w THEN count[u] + -n ELSE count[u]
          /\ amount'[u] = IF u = w THEN amount[u] + -v ELSE amount[u]
          /\ count[u] \in Int /\ amount[u] \in Int
      BY <1>1, <2>2 DEF Core, TrxTypes
    <3> HIDE DEF w, n, v
    <3>4. n \in Int /\ v \in Int
      BY <1>1 DEF n, v
    <3> QED BY <3>1, <3>2, <3>3, <3>4
  <2>7. ValueIsActiveTransactions'
    BY <1>2, <2>4, <2>6, StillExplained DEF Core
  <2> QED BY <1>2, <1>3, <2>4, <2>5, <2>7 DEF Core, KeepsTxs
<1> QED BY <1>1, <1>5, <1>6

LEMMA QuietKeeps ==
  ASSUME Core, Quiet
  PROVE  Core' /\ KeepsTxs
BY DEF Core, Quiet, KeepsTxs, TrxTypes, NetsFollow, ValueIsActiveTransactions, CountAt, WorthAt

-----------------------------------------------------------------------------
(* The documents and the open calls                                         *)

DocTypes == /\ transfers \in [TransferIds -> Transfer \cup {NoTransfer}]
            /\ read \in [Quoters -> ReadRow \cup {NoRead}]

LEMMA Parts ==
  /\ TypeOK <=> TrxTypes /\ DocTypes
  /\ IInv <=> Core /\ DocTypes /\ OutExists /\ ReadsWhole
BY DEF IInv, Core, TypeOK, TrxTypes, DocTypes

LEMMA PartsNext == Core' /\ DocTypes' /\ OutExists' /\ ReadsWhole' => IInv'
BY DEF IInv, Core, TypeOK, TrxTypes, DocTypes

LEMMA DocsSame ==
  ASSUME IInv, KeepsTxs, UNCHANGED <<transfers, read>>
  PROVE  DocTypes' /\ OutExists' /\ ReadsWhole'
<1>1. DocTypes' /\ ReadsWhole'
  BY Parts DEF DocTypes, ReadsWhole
<1>2. ASSUME NEW t \in TransferIds, transfers[t] # NoTransfer
      PROVE  transfers[t].out \in TxIds
  BY <1>2, Parts DEF DocTypes, Transfer
<1>3. OutExists'
  BY <1>2 DEF IInv, OutExists, KeepsTxs
<1> QED BY <1>1, <1>3

LEMMA OpenRead ==
  ASSUME IInv, NEW q \in Quoters, read[q] # NoRead
  PROVE  /\ read[q].warehouse \in Warehouses
         /\ read[q].count \in Int /\ read[q].amount \in Int
         /\ Quoted(q) \in Int
<1>1. read[q] \in ReadRow
  BY Parts DEF DocTypes
<1>2. /\ read[q].warehouse \in Warehouses
      /\ read[q].count \in Int /\ read[q].amount \in Int
  BY <1>1 DEF ReadRow
<1> QED BY <1>2, AverageType DEF Quoted

LEMMA ClosedRead ==
  ASSUME IInv, NEW q \in Quoters, Close(q)
  PROVE  read' \in [Quoters -> ReadRow \cup {NoRead}] /\ ReadsWhole'
BY Parts DEF DocTypes, Close, IInv, ReadsWhole

LEMMA PendingTransfer ==
  ASSUME IInv, NEW t \in TransferIds, transfers[t].status = "pending"
  PROVE  /\ transfers[t] # NoTransfer /\ transfers[t] \in Transfer
         /\ transfers[t].to \in Warehouses /\ transfers[t].from \in Warehouses
         /\ transfers[t].count \in Nat \ {0} /\ transfers[t].price \in Int
         /\ transfers[t].out \in TxIds /\ trx[transfers[t].out] # NoTx
BY Parts DEF DocTypes, Transfer, NoTransfer, IInv, OutExists

-----------------------------------------------------------------------------
(* One lemma per action                                                     *)

LEMMA ReceiveStep ==
  ASSUME IInv, NEW tx \in TxIds, NEW w \in Warehouses, NEW n \in Pieces,
         NEW price \in Prices, NEW fee \in Fees, Receive(tx, w, n, price, fee)
  PROVE  IInv'
<1>1. n \in Int \ {0} /\ n * price + fee \in Int /\ "inbound" \in Kinds
  BY ValueAssumption, ProductType DEF Kinds
<1>2. Core' /\ KeepsTxs
  BY <1>1, Parts, PostKeeps DEF Receive
<1> QED BY <1>2, PartsNext, DocsSame DEF Receive

LEMMA ProblemStep ==
  ASSUME IInv, NEW tx \in TxIds, NEW w \in Warehouses, NEW n \in Pieces,
         NEW price \in Prices, Problem(tx, w, n, price)
  PROVE  IInv'
<1>1. -n \in Int \ {0} /\ -n * price \in Int /\ "problem" \in Kinds
  BY ValueAssumption, ProductType DEF Kinds
<1>2. Core' /\ KeepsTxs
  BY <1>1, Parts, PostKeeps DEF Problem
<1> QED BY <1>2, PartsNext, DocsSame DEF Problem

LEMMA OrderStep ==
  ASSUME IInv, NEW tx \in TxIds, NEW w \in Warehouses, NEW n \in Pieces,
         OrderCreate(tx, w, n)
  PROVE  IInv'
<1>1. Average(count[w], amount[w]) \in Int
  BY Parts, AverageType DEF TrxTypes, Core
<1>2. n \in Int
  BY ValueAssumption
<1>3. OrderCost(w, n) \in Int
  BY <1>1, <1>2, ProductType DEF OrderCost
<1>4. -n \in Int \ {0} /\ -OrderCost(w, n) \in Int /\ "order" \in Kinds
  BY <1>3, ValueAssumption DEF Kinds
<1>5. Core' /\ KeepsTxs
  BY <1>4, Parts, PostKeeps DEF OrderCreate
<1> QED BY <1>5, PartsNext, DocsSame DEF OrderCreate

LEMMA TransactionCancelStep ==
  ASSUME IInv, NEW tx \in TxIds, TransactionCancel(tx)
  PROVE  IInv'
<1>1. trx[tx] # NoTx
  BY DEF TransactionCancel, NoTx
<1>2. Core' /\ KeepsTxs
  BY <1>1, Parts, VoidKeeps DEF TransactionCancel, Voids
<1> QED BY <1>2, PartsNext, DocsSame DEF TransactionCancel

LEMMA ReadAverageStep ==
  ASSUME IInv, NEW q \in Quoters, NEW w \in Warehouses, ReadAverage(q, w)
  PROVE  IInv'
<1> DEFINE row == [open |-> TRUE, warehouse |-> w, count |-> count[w], amount |-> amount[w]]
<1>1. row \in ReadRow /\ row.count = count[w] /\ row.amount = amount[w]
  BY Parts DEF ReadRow, Core, TrxTypes
<1>2. read' = [read EXCEPT ![q] = row] /\ Whole(count[w], amount[w])
      /\ UNCHANGED <<count, amount, trx, net, transfers>>
  BY DEF ReadAverage
<1>3. DocTypes'
  BY <1>1, <1>2, Parts DEF DocTypes
<1>4. ReadsWhole'
  <2>1. read \in [Quoters -> ReadRow \cup {NoRead}]
    BY Parts DEF DocTypes
  <2> QED BY <1>1, <1>2, <2>1 DEF IInv, ReadsWhole
<1>5. Core' /\ KeepsTxs
  BY <1>2, Parts, QuietKeeps DEF Quiet
<1>6. OutExists'
  BY <1>2 DEF IInv, OutExists
<1> QED BY <1>3, <1>4, <1>5, <1>6, PartsNext

LEMMA RollbackStep ==
  ASSUME IInv, NEW q \in Quoters, Rollback(q)
  PROVE  IInv'
<1>1. Core' /\ KeepsTxs
  BY Parts, QuietKeeps DEF Rollback, Quiet
<1>2. DocTypes' /\ ReadsWhole' /\ OutExists'
  BY Parts, ClosedRead DEF Rollback, DocTypes, IInv, OutExists
<1> QED BY <1>1, <1>2, PartsNext

LEMMA TransferCreateStep ==
  ASSUME IInv, NEW t \in TransferIds, NEW tx \in TxIds, NEW to \in Warehouses,
         NEW n \in Pieces, TransferCreate(t, tx, to, n)
  PROVE  IInv'
<1> DEFINE from == read[t].warehouse
           doc == [status |-> "pending", from |-> from, to |-> to, count |-> n,
                   price |-> Quoted(t), out |-> tx, in |-> {}]
<1>1. t \in Quoters /\ read[t] # NoRead /\ from \in Warehouses /\ Quoted(t) \in Int
  BY OpenRead DEF TransferCreate, Quoters
<1>2. n \in Nat \ {0} /\ -n \in Int \ {0} /\ -n * Quoted(t) \in Int
      /\ "transfer_out" \in Kinds
  BY <1>1, ValueAssumption, ProductType DEF Kinds
<1>3. Post(tx, "transfer_out", from, -n, -n * Quoted(t)) /\ Close(t)
      /\ transfers' = [transfers EXCEPT ![t] = doc]
  BY DEF TransferCreate
<1>4. Core' /\ KeepsTxs
  BY <1>1, <1>2, <1>3, Parts, PostKeeps
<1>5. doc \in Transfer
  BY <1>1, <1>2 DEF Transfer
<1>6. DocTypes' /\ ReadsWhole'
  BY <1>1, <1>3, <1>5, Parts, ClosedRead DEF DocTypes
<1>7. trx'[tx] # NoTx
  <2>1. trx'[tx].status = "active"
    BY <1>3, Parts DEF Post, Core, TrxTypes
  <2> QED BY <2>1 DEF NoTx
<1>8. OutExists'
  <2>1. ASSUME NEW u \in TransferIds, u # t, transfers[u] # NoTransfer
        PROVE  trx'[transfers[u].out] # NoTx
    <3>1. transfers[u].out \in TxIds
      BY <2>1, Parts DEF DocTypes, Transfer
    <3> QED BY <1>4, <2>1, <3>1 DEF IInv, OutExists, KeepsTxs
  <2>2. transfers'[t].out = tx /\ \A u \in TransferIds : u # t => transfers'[u] = transfers[u]
    BY <1>3, Parts DEF DocTypes
  <2> QED BY <1>7, <2>1, <2>2 DEF OutExists
<1> QED BY <1>4, <1>6, <1>8, PartsNext

\* What the steps on a pending document leave in order.
LEMMA DocumentEdited ==
  ASSUME IInv, KeepsTxs, NEW t \in TransferIds, NEW doc \in Transfer,
         doc.out = transfers[t].out, transfers[t] # NoTransfer,
         transfers' = [transfers EXCEPT ![t] = doc], UNCHANGED read
  PROVE  DocTypes' /\ OutExists' /\ ReadsWhole'
<1>1. DocTypes' /\ ReadsWhole'
  BY Parts DEF DocTypes, ReadsWhole
<1>2. \A u \in TransferIds :
         /\ transfers'[u] # NoTransfer => transfers[u] # NoTransfer
         /\ transfers'[u].out = transfers[u].out
  BY Parts DEF DocTypes
<1>3. ASSUME NEW u \in TransferIds, transfers[u] # NoTransfer
      PROVE  transfers[u].out \in TxIds
  BY <1>3, Parts DEF DocTypes, Transfer
<1>4. OutExists'
  BY <1>2, <1>3 DEF IInv, OutExists, KeepsTxs
<1> QED BY <1>1, <1>4

LEMMA TransferAcceptStep ==
  ASSUME IInv, NEW t \in TransferIds, NEW tx \in TxIds, TransferAccept(t, tx)
  PROVE  IInv'
<1> DEFINE doc == [transfers[t] EXCEPT !.status = "accepted", !.in = {tx}]
<1>1. transfers[t].status = "pending" /\ UNCHANGED read
      /\ Post(tx, "transfer_in", transfers[t].to, transfers[t].count,
              transfers[t].count * ArrivalPrice(t))
      /\ transfers' = [transfers EXCEPT ![t].status = "accepted", ![t].in = {tx}]
  BY DEF TransferAccept
<1>2. transfers[t].count \in Int \ {0} /\ transfers[t].count * ArrivalPrice(t) \in Int
      /\ "transfer_in" \in Kinds
  BY <1>1, PendingTransfer, ProductType DEF ArrivalPrice, Kinds
<1>3. Core' /\ KeepsTxs
  BY <1>1, <1>2, Parts, PendingTransfer, PostKeeps
<1>4. doc \in Transfer /\ doc.out = transfers[t].out
      /\ transfers' = [transfers EXCEPT ![t] = doc]
  BY <1>1, PendingTransfer DEF Transfer
<1> QED BY <1>1, <1>3, <1>4, PartsNext, PendingTransfer, DocumentEdited

LEMMA TransferCancelStep ==
  ASSUME IInv, NEW t \in TransferIds, TransferCancel(t)
  PROVE  IInv'
<1> DEFINE doc == [transfers[t] EXCEPT !.status = "canceled"]
<1>1. transfers[t].status = "pending" /\ UNCHANGED read
      /\ ReconstructCancel(transfers[t].out) /\ Void(transfers[t].out)
      /\ transfers' = [transfers EXCEPT ![t].status = "canceled"]
  BY DEF TransferCancel
<1>2. Core' /\ KeepsTxs
  BY <1>1, Parts, PendingTransfer, VoidKeeps DEF Voids
<1>3. doc \in Transfer /\ doc.out = transfers[t].out
      /\ transfers' = [transfers EXCEPT ![t] = doc]
  BY <1>1, PendingTransfer DEF Transfer
<1> QED BY <1>1, <1>2, <1>3, PartsNext, PendingTransfer, DocumentEdited

LEMMA OpnameCompleteStep ==
  ASSUME IInv, NEW o \in OpnameIds, NEW tx \in TxIds, NEW n \in Variances,
         OpnameComplete(o, tx, n)
  PROVE  IInv'
<1>1. o \in Quoters /\ read[o] # NoRead /\ read[o].warehouse \in Warehouses
      /\ Quoted(o) \in Int
  BY OpenRead DEF OpnameComplete, Quoters
<1>2. n \in Int \ {0} /\ n * Quoted(o) \in Int /\ "opname" \in Kinds
  BY <1>1, ValueAssumption, ProductType DEF Kinds
<1>3. Core' /\ KeepsTxs
  BY <1>1, <1>2, Parts, PostKeeps DEF OpnameComplete
<1>4. read' \in [Quoters -> ReadRow \cup {NoRead}] /\ ReadsWhole'
  BY <1>1, ClosedRead DEF OpnameComplete
<1>5. ASSUME NEW t \in TransferIds, transfers[t] # NoTransfer
      PROVE  transfers[t].out \in TxIds
  BY <1>5, Parts DEF DocTypes, Transfer
<1>6. DocTypes' /\ OutExists'
  BY <1>3, <1>4, <1>5, Parts DEF DocTypes, IInv, OutExists, KeepsTxs, OpnameComplete
<1> QED BY <1>3, <1>4, <1>6, PartsNext

-----------------------------------------------------------------------------
LEMMA InitIInv == Init => IInv
<1> SUFFICES ASSUME Init PROVE IInv
  OBVIOUS
<1>1. TrxTypes
  BY ValueAssumption DEF Init, TrxTypes, Delta
<1>2. DocTypes
  BY DEF Init, DocTypes
<1>3. NetsFollow /\ OutExists /\ ReadsWhole
  BY DEF Init, NetsFollow, OutExists, ReadsWhole, Zero
<1>4. ASSUME NEW w \in Warehouses
      PROVE  /\ SumFunction([tx \in TxIds |-> CountAt(tx, w)]) = 0
             /\ SumFunction([tx \in TxIds |-> WorthAt(tx, w)]) = 0
  <2> DEFINE cf == [tx \in TxIds |-> CountAt(tx, w)]
             wf == [tx \in TxIds |-> WorthAt(tx, w)]
  <2>1. \A tx \in TxIds : cf[tx] = 0 /\ wf[tx] = 0
    BY DEF Init, CountAt, WorthAt
  <2>2. SumFunction(cf) = SumFunctionOnSet(cf, TxIds) /\ SumFunction(wf) = SumFunctionOnSet(wf, TxIds)
    BY DEF SumFunction
  <2> HIDE DEF cf, wf
  <2>3. SumFunction(cf) = 0 /\ SumFunction(wf) = 0
    BY <2>1, <2>2, SumZero, ValueAssumption
  <2> QED BY <2>3 DEF cf, wf
<1>5. ValueIsActiveTransactions
  BY <1>4, ValueAssumption DEF Init, ValueIsActiveTransactions
<1> QED BY <1>1, <1>2, <1>3, <1>5, Parts DEF Core

LEMMA StutterKeeps == IInv /\ UNCHANGED vars => IInv'
<1> SUFFICES ASSUME IInv, UNCHANGED vars PROVE IInv'
  OBVIOUS
<1>1. Core' /\ KeepsTxs
  BY Parts, QuietKeeps DEF vars, Quiet
<1> QED BY <1>1, PartsNext, DocsSame DEF vars

LEMMA NextIInv == IInv /\ [Next]_vars => IInv'
<1> SUFFICES ASSUME IInv, Next PROVE IInv'
  BY StutterKeeps
<1>1. CASE \E tx \in TxIds : Transactions(tx)
  BY <1>1, ReceiveStep, ProblemStep, OrderStep, TransactionCancelStep DEF Transactions
<1>2. CASE \E q \in Quoters : Quotes(q)
  BY <1>2, ReadAverageStep, RollbackStep DEF Quotes
<1>3. CASE \E t \in TransferIds : (\E tx \in TxIds : TransferSteps(t, tx)) \/ TransferCancel(t)
  BY <1>3, TransferCreateStep, TransferAcceptStep, TransferCancelStep DEF TransferSteps
<1>4. CASE \E o \in OpnameIds, tx \in TxIds, n \in Variances : OpnameComplete(o, tx, n)
  BY <1>4, OpnameCompleteStep
<1> QED BY <1>1, <1>2, <1>3, <1>4 DEF Next

LEMMA IInvHolds == Spec => []IInv
<1> QED BY InitIInv, NextIInv, PTL DEF Spec

\* For any warehouses, prices, fees and number of transactions, what a
\* warehouse is worth is what the transactions that stand are worth, and the
\* tables hold what their columns allow.
THEOREM ValueExplained == Spec => [](TypeOK /\ ValueIsActiveTransactions)
<1>1. IInv => TypeOK /\ ValueIsActiveTransactions
  BY DEF IInv
<1> QED BY <1>1, IInvHolds, PTL

-----------------------------------------------------------------------------
(* The unit cost                                                            *)

UnitCostKept(w) ==
    count[w] > 0 /\ amount'[w] * count[w] # amount[w] * count'[w] =>
        \E tx \in TxIds :
           \/ Posts(tx, {"inbound", "problem", "transfer_in"})
           \/ trx[tx].status = "active" /\ trx'[tx].status = "canceled"
           \/ /\ Posts(tx, {"transfer_out", "opname"})
              /\ \E q \in Quoters : UsedStale(q)

\* n units more or fewer at the average a / c leave the average as it was.
LEMMA SameRatio ==
  ASSUME NEW c \in Int, NEW a \in Int, NEW n \in Int, NEW avg \in Int, c * avg = a
  PROVE  (a + n * avg) * c = a * (c + n)
BY SMT

LEMMA PostPosts ==
  ASSUME IInv, NEW tx \in TxIds, NEW kind, NEW w \in Warehouses, NEW n, NEW v,
         Post(tx, kind, w, n, v), kind \in Kinds
  PROVE  /\ trx[tx] = NoTx /\ trx'[tx].kind = kind /\ trx'[tx] # NoTx
         /\ count'[w] = count[w] + n /\ amount'[w] = amount[w] + v
         /\ \A u \in Warehouses \ {w} : count'[u] = count[u] /\ amount'[u] = amount[u]
         /\ \A u \in Warehouses : count[u] \in Int /\ amount[u] \in Int
<1>1. trx'[tx] = [status |-> "active", kind |-> kind, warehouse |-> w,
                  count |-> n, worth |-> v]
  BY Parts DEF Post, Core, TrxTypes
<1>2. trx'[tx] # NoTx
  BY <1>1 DEF NoTx
<1> QED BY <1>1, <1>2, Parts DEF Post, IsNextId, ProcessStockBatchLog, Core, TrxTypes

LEMMA CausedByPost ==
  ASSUME IInv, NEW tx \in TxIds, NEW u \in Warehouses, NEW kind \in {"inbound", "problem", "transfer_in"},
         NEW w \in Warehouses, NEW n, NEW v, Post(tx, kind, w, n, v)
  PROVE  UnitCostKept(u)
<1>1. Posts(tx, {"inbound", "problem", "transfer_in"})
  BY PostPosts DEF Posts, Kinds
<1> QED BY <1>1 DEF UnitCostKept

LEMMA SameCounts ==
  ASSUME IInv, NEW u \in Warehouses, count' = count, amount' = amount
  PROVE  UnitCostKept(u)
<1>1. count[u] \in Int /\ amount[u] \in Int
  BY Parts DEF Core, TrxTypes
<1> QED BY <1>1 DEF UnitCostKept

LEMMA CancelCost ==
  ASSUME IInv, NEW tx \in TxIds, NEW u \in Warehouses, trx[tx] # NoTx,
         ReconstructCancel(tx), Void(tx)
  PROVE  UnitCostKept(u)
<1>1. CASE trx[tx].status = "active"
  <2>1. trx'[tx].status = "canceled"
    BY Parts, TxTypes DEF Void, Core, TrxTypes, Transaction
  <2> QED BY <1>1, <2>1 DEF UnitCostKept
<1>2. CASE trx[tx].status = "canceled"
  <2>1. net[tx] = Zero
    BY <1>2, Zenon DEF IInv, NetsFollow
  <2>2. count' = count /\ amount' = amount
    BY <2>1 DEF ReconstructCancel, Zero
  <2> QED BY <2>2, SameCounts
<1> QED BY <1>1, <1>2, Parts, TxTypes DEF Core

\* A posting at the whole average of its warehouse.
LEMMA PostAtAverage ==
  ASSUME IInv, NEW tx \in TxIds, NEW u \in Warehouses, NEW kind \in Kinds,
         NEW w \in Warehouses, NEW n \in Int,
         Post(tx, kind, w, n, n * Average(count[w], amount[w])),
         Whole(count[w], amount[w])
  PROVE  UnitCostKept(u)
<1> DEFINE avg == Average(count[w], amount[w])
<1>1. /\ count'[w] = count[w] + n /\ amount'[w] = amount[w] + n * avg
      /\ \A x \in Warehouses \ {w} : count'[x] = count[x] /\ amount'[x] = amount[x]
      /\ \A x \in Warehouses : count[x] \in Int /\ amount[x] \in Int
  BY PostPosts
<1>2. SUFFICES ASSUME count[u] > 0 PROVE amount'[u] * count[u] = amount[u] * count'[u]
  BY DEF UnitCostKept
<1>3. CASE u # w
  BY <1>1, <1>3
<1>4. CASE u = w
  <2>1. avg \in Int /\ count[w] * avg = amount[w]
    BY <1>1, <1>2, <1>4, AverageType, AverageOfAll
  <2> HIDE DEF avg
  <2>2. (amount[w] + n * avg) * count[w] = amount[w] * (count[w] + n)
    BY <1>1, <2>1, SameRatio
  <2> QED BY <1>1, <1>4, <2>2
<1> QED BY <1>3, <1>4

\* A posting at the average an open call has read.
LEMMA PostAtQuote ==
  ASSUME IInv, NEW tx \in TxIds, NEW u \in Warehouses, NEW q \in Quoters,
         NEW kind \in {"transfer_out", "opname"}, NEW n \in Int,
         read[q] # NoRead, Close(q),
         Post(tx, kind, read[q].warehouse, n, n * Quoted(q))
  PROVE  UnitCostKept(u)
<1> DEFINE w == read[q].warehouse
<1>1. kind \in Kinds /\ w \in Warehouses
  BY OpenRead DEF Kinds
<1>2. CASE <<read[q].count, read[q].amount>> = <<count[w], amount[w]>>
  <2>1. Quoted(q) = Average(count[w], amount[w]) /\ Whole(count[w], amount[w])
    BY <1>2 DEF Quoted, IInv, ReadsWhole
  <2> QED BY <1>1, <2>1, PostAtAverage
<1>3. CASE <<read[q].count, read[q].amount>> # <<count[w], amount[w]>>
  <2>1. read'[q] = NoRead
    BY Parts DEF Close, DocTypes
  <2>2. UsedStale(q)
    BY <1>3, <2>1 DEF UsedStale
  <2>3. Posts(tx, {"transfer_out", "opname"})
    BY <1>1, PostPosts DEF Posts
  <2> QED BY <2>2, <2>3 DEF UnitCostKept
<1> QED BY <1>2, <1>3

LEMMA OrderCostKept ==
  ASSUME IInv, NEW tx \in TxIds, NEW u \in Warehouses, NEW w \in Warehouses,
         NEW n \in Pieces, OrderCreate(tx, w, n)
  PROVE  UnitCostKept(u)
<1> DEFINE avg == Average(count[w], amount[w])
<1>1. n \in Int /\ -n \in Int /\ avg \in Int /\ "order" \in Kinds
  BY ValueAssumption, Parts, AverageType DEF Core, TrxTypes, Kinds
<1>2. -(n * avg) = -n * avg
  <2> HIDE DEF avg
  <2> QED BY <1>1, SMT
<1>3. Post(tx, "order", w, -n, -n * avg) /\ Whole(count[w], amount[w])
  BY <1>2 DEF OrderCreate, OrderCost
<1> QED BY <1>1, <1>3, PostAtAverage

LEMMA NextKeepsCost ==
  ASSUME IInv, Next, NEW u \in Warehouses
  PROVE  UnitCostKept(u)
<1>1. ASSUME NEW tx \in TxIds, Transactions(tx) PROVE UnitCostKept(u)
  <2>1. ASSUME NEW w \in Warehouses, NEW n \in Pieces, NEW price \in Prices,
               (\E fee \in Fees : Receive(tx, w, n, price, fee)) \/ Problem(tx, w, n, price)
        PROVE  UnitCostKept(u)
    BY <2>1, CausedByPost DEF Receive, Problem
  <2>2. ASSUME NEW w \in Warehouses, NEW n \in Pieces, OrderCreate(tx, w, n)
        PROVE  UnitCostKept(u)
    BY <2>2, OrderCostKept
  <2>3. ASSUME TransactionCancel(tx) PROVE UnitCostKept(u)
    <3>1. trx[tx] # NoTx
      BY <2>3 DEF TransactionCancel, NoTx
    <3> QED BY <2>3, <3>1, CancelCost DEF TransactionCancel
  <2> QED BY <1>1, <2>1, <2>2, <2>3 DEF Transactions
<1>2. ASSUME NEW q \in Quoters, Quotes(q) PROVE UnitCostKept(u)
  BY <1>2, SameCounts DEF Quotes, ReadAverage, Rollback
<1>3. ASSUME NEW t \in TransferIds, NEW tx \in TxIds, TransferSteps(t, tx)
      PROVE  UnitCostKept(u)
  <2>1. ASSUME NEW to \in Warehouses, NEW n \in Pieces, TransferCreate(t, tx, to, n)
        PROVE  UnitCostKept(u)
    <3>1. t \in Quoters /\ -n \in Int
      BY ValueAssumption DEF Quoters
    <3>2. /\ read[t] # NoRead /\ Close(t)
          /\ Post(tx, "transfer_out", read[t].warehouse, -n, -n * Quoted(t))
      BY <2>1 DEF TransferCreate
    <3>3. -n * Quoted(t) = (-n) * Quoted(t)
      <4>1. n \in Int /\ Quoted(t) \in Int
        BY <3>1, <3>2, OpenRead, ValueAssumption
      <4> QED BY <4>1, SMT
    <3> QED BY <3>1, <3>2, <3>3, PostAtQuote
  <2>2. ASSUME TransferAccept(t, tx) PROVE UnitCostKept(u)
    <3>1. transfers[t].to \in Warehouses
      BY <2>2, PendingTransfer DEF TransferAccept
    <3> QED BY <2>2, <3>1, CausedByPost DEF TransferAccept
  <2> QED BY <1>3, <2>1, <2>2 DEF TransferSteps
<1>4. ASSUME NEW t \in TransferIds, TransferCancel(t) PROVE UnitCostKept(u)
  BY <1>4, PendingTransfer, CancelCost DEF TransferCancel
<1>5. ASSUME NEW o \in OpnameIds, NEW tx \in TxIds, NEW n \in Variances,
             OpnameComplete(o, tx, n)
      PROVE  UnitCostKept(u)
  <2>1. o \in Quoters /\ n \in Int
    BY ValueAssumption DEF Quoters
  <2> QED BY <1>5, <2>1, PostAtQuote DEF OpnameComplete
<1> QED BY <1>1, <1>2, <1>3, <1>4, <1>5 DEF Next

\* For any warehouses, prices and number of transactions, the unit cost of
\* the goods on hand moves only with one of the causes the property names.
THEOREM UnitCostStable == Spec => UnitCostMovesWithACause
<1>1. ASSUME IInv, [Next]_vars
      PROVE  [\A w \in Warehouses : UnitCostKept(w)]_vars
  BY <1>1, NextKeepsCost
<1>2. [\A w \in Warehouses : UnitCostKept(w)]_vars
         => [\A w \in Warehouses :
               count[w] > 0 /\ amount'[w] * count[w] # amount[w] * count'[w] =>
                 \E tx \in TxIds :
                   \/ Posts(tx, {"inbound", "problem", "transfer_in"})
                   \/ trx[tx].status = "active" /\ trx'[tx].status = "canceled"
                   \/ /\ Posts(tx, {"transfer_out", "opname"})
                      /\ \E q \in Quoters : UsedStale(q)]_vars
  BY DEF UnitCostKept
<1> QED BY <1>1, <1>2, IInvHolds, PTL DEF Spec, UnitCostMovesWithACause


-----------------------------------------------------------------------------
(* Transfers keep the value                                                 *)

LegsOf(t) == {transfers[t].out} \cup transfers[t].in

\* What the document says its goods are worth.
Value(t) == transfers[t].count * transfers[t].price

LegsMatch(t) ==
    /\ trx[transfers[t].out] # NoTx
    /\ trx[transfers[t].out].kind = "transfer_out"
    /\ trx[transfers[t].out].worth = -Value(t)
    /\ transfers[t].in # {} <=> transfers[t].status = "accepted"
    /\ \A i \in transfers[t].in : /\ trx[i] # NoTx
                                  /\ trx[i].kind = "transfer_in"
                                  /\ trx[i].worth = Value(t)
    /\ \A i, j \in transfers[t].in : i = j

Issued(t) == transfers[t] # NoTransfer

\* The documents and the legs are one to one: each leg belongs to one document
\* and is worth what that says, whatever the averages were since.
LegsLinked ==
    /\ \A t \in TransferIds : Issued(t) => LegsMatch(t)
    /\ \A t, u \in TransferIds : Issued(t) /\ Issued(u) /\ t # u => LegsOf(t) \cap LegsOf(u) = {}
    /\ \A x \in TxIds : trx[x] # NoTx /\ trx[x].kind \in Legs =>
          \E t \in TransferIds : Issued(t) /\ x \in LegsOf(t)

\* A transfer whose create still holds an average has not been written.
QuotesFresh == \A t \in TransferIds : read[t] # NoRead => ~Issued(t)

RowsKept == \A x \in TxIds : trx[x] # NoTx =>
                /\ trx'[x] # NoTx
                /\ trx'[x].kind = trx[x].kind /\ trx'[x].worth = trx[x].worth

LEMMA IssuedTypes ==
  ASSUME IInv, NEW t \in TransferIds, Issued(t)
  PROVE  /\ transfers[t] \in Transfer
         /\ transfers[t].out \in TxIds /\ transfers[t].in \subseteq TxIds
         /\ LegsOf(t) \subseteq TxIds /\ Value(t) \in Int
         /\ transfers[t].status \in {"pending", "accepted", "canceled"}
<1>1. transfers[t] \in Transfer
  BY Parts DEF DocTypes, Issued
<1>2. /\ transfers[t].out \in TxIds /\ transfers[t].in \subseteq TxIds
      /\ transfers[t].count \in Int /\ transfers[t].price \in Int
      /\ transfers[t].status \in {"pending", "accepted", "canceled"}
  BY <1>1 DEF Transfer
<1> QED BY <1>1, <1>2, ProductType DEF LegsOf, Value

LEMMA PostedRow ==
  ASSUME IInv, NEW tx \in TxIds, NEW kind, NEW w, NEW n, NEW v, Post(tx, kind, w, n, v)
  PROVE  /\ trx[tx] = NoTx
         /\ trx'[tx] = [status |-> "active", kind |-> kind, warehouse |-> w,
                        count |-> n, worth |-> v]
         /\ trx'[tx] # NoTx
         /\ \A x \in TxIds \ {tx} : trx'[x] = trx[x]
         /\ RowsKept
<1>1. /\ trx[tx] = NoTx
      /\ trx'[tx] = [status |-> "active", kind |-> kind, warehouse |-> w,
                     count |-> n, worth |-> v]
      /\ \A x \in TxIds \ {tx} : trx'[x] = trx[x]
  BY Parts DEF Post, IsNextId, Core, TrxTypes
<1>2. trx'[tx].status = "active"
  BY <1>1
<1> QED BY <1>1, <1>2 DEF RowsKept, NoTx

LEMMA VoidedRow ==
  ASSUME IInv, NEW tx \in TxIds, trx[tx] # NoTx, Void(tx)
  PROVE  /\ trx'[tx] = [trx[tx] EXCEPT !.status = "canceled"]
         /\ trx'[tx] # NoTx
         /\ \A x \in TxIds \ {tx} : trx'[x] = trx[x]
         /\ RowsKept
<1>1. trx \in [TxIds -> Transaction \cup {NoTx}] /\ trx[tx] \in Transaction
  BY Parts DEF Core, TrxTypes
<1>2. /\ trx'[tx] = [trx[tx] EXCEPT !.status = "canceled"]
      /\ \A x \in TxIds \ {tx} : trx'[x] = trx[x]
  BY <1>1 DEF Void
<1>3. /\ trx'[tx].status = "canceled"
      /\ trx'[tx].kind = trx[tx].kind /\ trx'[tx].worth = trx[tx].worth
  BY <1>1, <1>2 DEF Transaction
<1>4. trx'[tx] # NoTx
  BY <1>3 DEF NoTx
<1>5. RowsKept
  <2>1. ASSUME NEW x \in TxIds, trx[x] # NoTx
        PROVE  /\ trx'[x] # NoTx
               /\ trx'[x].kind = trx[x].kind /\ trx'[x].worth = trx[x].worth
    <3>1. CASE x = tx
      BY <1>3, <1>4, <3>1
    <3>2. CASE x # tx
      BY <1>2, <2>1, <3>2
    <3> QED BY <3>1, <3>2
  <2> QED BY <2>1 DEF RowsKept
<1> QED BY <1>2, <1>4, <1>5

\* A match survives every step that leaves its document.
LEMMA MatchKept ==
  ASSUME IInv, RowsKept, NEW t \in TransferIds, Issued(t), LegsMatch(t),
         transfers'[t] = transfers[t]
  PROVE  LegsMatch(t)'
<1>1. transfers[t].out \in TxIds /\ transfers[t].in \subseteq TxIds
  BY IssuedTypes
<1>2. Value(t)' = Value(t)
  BY DEF Value
<1> QED BY <1>1, <1>2 DEF LegsMatch, RowsKept

\* The steps that are no transfer's.
LEMMA LegsUntouched ==
  ASSUME IInv, LegsLinked, RowsKept, transfers' = transfers,
         \A x \in TxIds : trx[x] = NoTx /\ trx'[x] # NoTx => trx'[x].kind \notin Legs
  PROVE  LegsLinked'
<1>1. \A t \in TransferIds : /\ Issued(t)' <=> Issued(t)
                             /\ LegsOf(t)' = LegsOf(t)
  BY DEF Issued, LegsOf
<1>2. ASSUME NEW t \in TransferIds, Issued(t) PROVE LegsMatch(t)'
  BY <1>2, MatchKept DEF LegsLinked
<1>3. ASSUME NEW x \in TxIds, trx'[x] # NoTx, trx'[x].kind \in Legs
      PROVE  \E t \in TransferIds : Issued(t) /\ x \in LegsOf(t)
  BY <1>3 DEF LegsLinked, RowsKept
<1> QED BY <1>1, <1>2, <1>3 DEF LegsLinked

\* A document that has just been written, or gained a leg.
LEMMA LegEntered ==
  ASSUME IInv, LegsLinked, NEW t \in TransferIds, NEW tx \in TxIds,
         RowsKept, trx[tx] = NoTx, \A x \in TxIds \ {tx} : trx'[x] = trx[x],
         \A u \in TransferIds \ {t} : transfers'[u] = transfers[u],
         Issued(t)', LegsMatch(t)', tx \in LegsOf(t)',
         Issued(t) => LegsOf(t)' = LegsOf(t) \cup {tx},
         ~Issued(t) => LegsOf(t)' = {tx}
  PROVE  LegsLinked'
<1>1. ASSUME NEW u \in TransferIds, Issued(u)
      PROVE  LegsOf(u) \subseteq TxIds \ {tx}
  <2>1. LegsOf(u) \subseteq TxIds
    BY <1>1, IssuedTypes
  <2>2. \A x \in LegsOf(u) : trx[x] # NoTx
    BY <1>1 DEF LegsLinked, LegsMatch, LegsOf
  <2> QED BY <2>1, <2>2
<1>2. ASSUME NEW u \in TransferIds \ {t}
      PROVE  /\ Issued(u)' <=> Issued(u)
             /\ LegsOf(u)' = LegsOf(u)
             /\ Issued(u) => LegsMatch(u)'
  <2>1. transfers'[u] = transfers[u]
    OBVIOUS
  <2>2. (Issued(u)' <=> Issued(u)) /\ LegsOf(u)' = LegsOf(u)
    BY <2>1 DEF Issued, LegsOf
  <2>3. Issued(u) => LegsMatch(u)'
    BY <2>1, MatchKept DEF LegsLinked
  <2> QED BY <2>2, <2>3
<1>3. ASSUME NEW u \in TransferIds \ {t}, Issued(u)
      PROVE  LegsOf(t)' \cap LegsOf(u)' = {}
  <2>1. CASE Issued(t)
    <3>1. LegsOf(t) \cap LegsOf(u) = {} /\ tx \notin LegsOf(u)
      BY <1>1, <1>3, <2>1 DEF LegsLinked
    <3> QED BY <1>2, <2>1, <3>1
  <2>2. CASE ~Issued(t)
    BY <1>1, <1>2, <1>3, <2>2
  <2> QED BY <2>1, <2>2
<1>4. ASSUME NEW u \in TransferIds, Issued(u)' PROVE LegsMatch(u)'
  BY <1>2, <1>4
<1>5. ASSUME NEW u \in TransferIds, NEW v \in TransferIds, Issued(u)', Issued(v)', u # v
      PROVE  LegsOf(u)' \cap LegsOf(v)' = {}
  <2>1. CASE u = t
    BY <1>2, <1>3, <1>5, <2>1
  <2>2. CASE v = t
    BY <1>2, <1>3, <1>5, <2>2
  <2>3. CASE u # t /\ v # t
    BY <1>2, <1>5, <2>3 DEF LegsLinked
  <2> QED BY <2>1, <2>2, <2>3
<1>6. ASSUME NEW x \in TxIds, trx'[x] # NoTx, trx'[x].kind \in Legs
      PROVE  \E u \in TransferIds : Issued(u)' /\ x \in LegsOf(u)'
  <2>1. CASE x = tx
    BY <2>1
  <2>2. CASE x # tx
    <3>1. PICK u \in TransferIds : Issued(u) /\ x \in LegsOf(u)
      BY <1>6, <2>2 DEF LegsLinked
    <3>2. CASE u = t
      BY <3>1, <3>2
    <3>3. CASE u # t
      BY <1>2, <3>1, <3>3
    <3> QED BY <3>2, <3>3
  <2> QED BY <2>1, <2>2
<1> QED BY <1>4, <1>5, <1>6 DEF LegsLinked


LEMMA TransferCreateLegs ==
  ASSUME IInv, LegsLinked, NEW t \in TransferIds, NEW tx \in TxIds, NEW to \in Warehouses,
         NEW n \in Pieces, QuotesFresh, TransferCreate(t, tx, to, n)
  PROVE  LegsLinked'
<1> DEFINE from == read[t].warehouse
           price == Quoted(t)
           doc == [status |-> "pending", from |-> from, to |-> to, count |-> n,
                   price |-> price, out |-> tx, in |-> {}]
<1>1. /\ Post(tx, "transfer_out", from, -n, -n * price)
      /\ transfers' = [transfers EXCEPT ![t] = doc] /\ ~Issued(t)
  BY DEF TransferCreate, Issued, QuotesFresh
<1>2. n \in Int /\ price \in Int
  BY OpenRead, ValueAssumption DEF TransferCreate, Quoters
<1>3. /\ transfers'[t] = doc
      /\ \A u \in TransferIds \ {t} : transfers'[u] = transfers[u]
  BY <1>1, Parts DEF DocTypes
<1>4. /\ trx[tx] = NoTx /\ trx'[tx] # NoTx /\ RowsKept
      /\ \A x \in TxIds \ {tx} : trx'[x] = trx[x]
      /\ trx'[tx] = [status |-> "active", kind |-> "transfer_out", warehouse |-> from,
                     count |-> -n, worth |-> -n * price]
  BY <1>1, PostedRow
<1>5. /\ transfers'[t].out = tx /\ transfers'[t].in = {}
      /\ transfers'[t].status = "pending"
      /\ transfers'[t].count = n /\ transfers'[t].price = price
  BY <1>3
<1> HIDE DEF price
<1>6. -n * price = -(n * price)
  BY <1>2, SMT
<1>7. trx'[tx].kind = "transfer_out" /\ trx'[tx].worth = -Value(t)'
  BY <1>4, <1>5, <1>6 DEF Value
<1>8. LegsMatch(t)'
  BY <1>4, <1>5, <1>7 DEF LegsMatch
<1>9. LegsOf(t)' = {tx} /\ Issued(t)'
  BY <1>5 DEF LegsOf, Issued, NoTransfer
<1> QED BY <1>1, <1>3, <1>4, <1>8, <1>9, LegEntered

LEMMA TransferAcceptLegs ==
  ASSUME IInv, LegsLinked, NEW t \in TransferIds, NEW tx \in TxIds, TransferAccept(t, tx)
  PROVE  LegsLinked'
<1> DEFINE doc == transfers[t]
<1>1. /\ doc.status = "pending"
      /\ Post(tx, "transfer_in", doc.to, doc.count, Value(t))
      /\ transfers' = [transfers EXCEPT ![t].status = "accepted", ![t].in = {tx}]
  BY DEF TransferAccept, ArrivalPrice, Value
<1>2. Issued(t) /\ doc \in Transfer
  BY <1>1, PendingTransfer DEF Issued
<1>3. /\ transfers'[t] = [doc EXCEPT !.status = "accepted", !.in = {tx}]
      /\ \A u \in TransferIds \ {t} : transfers'[u] = transfers[u]
  BY <1>1, Parts DEF DocTypes
<1>4. /\ transfers'[t].out = doc.out /\ transfers'[t].in = {tx}
      /\ transfers'[t].status = "accepted"
      /\ transfers'[t].count = doc.count /\ transfers'[t].price = doc.price
  BY <1>2, <1>3 DEF Transfer
<1>5. /\ trx[tx] = NoTx /\ trx'[tx] # NoTx /\ RowsKept
      /\ \A x \in TxIds \ {tx} : trx'[x] = trx[x]
      /\ trx'[tx] = [status |-> "active", kind |-> "transfer_in", warehouse |-> doc.to,
                     count |-> doc.count, worth |-> Value(t)]
  BY <1>1, PostedRow
<1>6. Value(t)' = Value(t)
  BY <1>4 DEF Value
<1>7. LegsMatch(t) /\ doc.in = {} /\ doc.out \in TxIds
  BY <1>1, <1>2, IssuedTypes DEF LegsLinked, LegsMatch
<1>8. trx'[tx].kind = "transfer_in" /\ trx'[tx].worth = Value(t)'
  BY <1>5, <1>6
<1>9. LegsMatch(t)'
  BY <1>4, <1>5, <1>6, <1>7, <1>8 DEF LegsMatch, RowsKept
<1>10. LegsOf(t)' = LegsOf(t) \cup {tx} /\ Issued(t)'
  BY <1>4, <1>7 DEF LegsOf, Issued, NoTransfer
<1> HIDE DEF doc
<1> QED BY <1>2, <1>3, <1>5, <1>9, <1>10, LegEntered

LEMMA TransferCancelLegs ==
  ASSUME IInv, LegsLinked, NEW t \in TransferIds, TransferCancel(t)
  PROVE  LegsLinked'
<1> DEFINE doc == transfers[t]
<1>1. /\ doc.status = "pending" /\ Void(doc.out)
      /\ transfers' = [transfers EXCEPT ![t].status = "canceled"]
  BY DEF TransferCancel
<1>2. Issued(t) /\ doc \in Transfer /\ doc.out \in TxIds /\ trx[doc.out] # NoTx
  BY <1>1, PendingTransfer DEF Issued
<1>3. /\ transfers'[t] = [doc EXCEPT !.status = "canceled"]
      /\ \A u \in TransferIds \ {t} : transfers'[u] = transfers[u]
  BY <1>1, Parts DEF DocTypes
<1>4. /\ transfers'[t].out = doc.out /\ transfers'[t].in = doc.in
      /\ transfers'[t].status = "canceled"
      /\ transfers'[t].count = doc.count /\ transfers'[t].price = doc.price
  BY <1>2, <1>3 DEF Transfer
<1>5. /\ RowsKept /\ trx'[doc.out] # NoTx
      /\ \A x \in TxIds \ {doc.out} : trx'[x] = trx[x]
  BY <1>1, <1>2, VoidedRow
<1>6. ASSUME NEW u \in TransferIds
      PROVE  (Issued(u)' <=> Issued(u)) /\ LegsOf(u)' = LegsOf(u)
  <2>1. CASE u = t
    BY <1>2, <1>4, <2>1 DEF Issued, LegsOf, NoTransfer
  <2>2. CASE u # t
    BY <1>3, <2>2 DEF Issued, LegsOf
  <2> QED BY <2>1, <2>2
<1>7. LegsMatch(t) /\ doc.in = {}
  BY <1>1, <1>2 DEF LegsLinked, LegsMatch
<1>8. LegsMatch(t)'
  <2>1. Value(t)' = Value(t)
    BY <1>4 DEF Value
  <2> QED BY <1>2, <1>4, <1>5, <1>7, <2>1 DEF LegsMatch, RowsKept
<1>9. ASSUME NEW u \in TransferIds \ {t}, Issued(u) PROVE LegsMatch(u)'
  BY <1>3, <1>5, <1>9, MatchKept DEF LegsLinked
<1>10. \A x \in TxIds : trx'[x] # NoTx => trx[x] # NoTx /\ trx'[x].kind = trx[x].kind
  BY <1>2, <1>5 DEF RowsKept
<1> HIDE DEF doc
<1>11. \A u \in TransferIds : Issued(u)' => LegsMatch(u)'
  BY <1>6, <1>8, <1>9
<1>12. \A u, v \in TransferIds :
          Issued(u)' /\ Issued(v)' /\ u # v => LegsOf(u)' \cap LegsOf(v)' = {}
  BY <1>6 DEF LegsLinked
<1>13. ASSUME NEW x \in TxIds, trx'[x] # NoTx, trx'[x].kind \in Legs
       PROVE  \E u \in TransferIds : Issued(u)' /\ x \in LegsOf(u)'
  BY <1>6, <1>10, <1>13 DEF LegsLinked
<1> QED BY <1>11, <1>12, <1>13 DEF LegsLinked


LEMMA FreshStep ==
  ASSUME IInv, QuotesFresh, Next
  PROVE  QuotesFresh'
<1> SUFFICES ASSUME NEW t \in TransferIds, read'[t] # NoRead PROVE transfers'[t] = NoTransfer
  BY DEF QuotesFresh, Issued
<1>0. /\ read \in [Quoters -> ReadRow \cup {NoRead}]
      /\ transfers \in [TransferIds -> Transfer \cup {NoTransfer}]
      /\ t \in Quoters
  BY Parts DEF DocTypes, Quoters
<1>1. ASSUME read' = read, transfers' = transfers PROVE transfers'[t] = NoTransfer
  BY <1>1 DEF QuotesFresh, Issued
<1>2. ASSUME NEW q \in Quoters, Close(q) PROVE read[t] # NoRead /\ q # t
  BY <1>0, <1>2 DEF Close
<1>3. ASSUME NEW tx \in TxIds, Transactions(tx) PROVE transfers'[t] = NoTransfer
  BY <1>1, <1>3 DEF Transactions, Receive, Problem, OrderCreate, TransactionCancel
<1>4. ASSUME NEW q \in Quoters, NEW w \in Warehouses, ReadAverage(q, w)
      PROVE  transfers'[t] = NoTransfer
  <2>1. CASE q = t
    BY <1>4, <2>1 DEF ReadAverage
  <2>2. CASE q # t
    BY <1>0, <1>4, <2>2 DEF ReadAverage, QuotesFresh, Issued
  <2> QED BY <2>1, <2>2
<1>5. ASSUME NEW q \in Quoters, Rollback(q) PROVE transfers'[t] = NoTransfer
  BY <1>2, <1>5 DEF Rollback, QuotesFresh, Issued
<1>6. ASSUME NEW u \in TransferIds, NEW tx \in TxIds, NEW to \in Warehouses,
             NEW n \in Pieces, TransferCreate(u, tx, to, n)
      PROVE  transfers'[t] = NoTransfer
  <2>1. u \in Quoters /\ Close(u)
    BY <1>6 DEF TransferCreate, Quoters
  <2>2. u # t /\ transfers[t] = NoTransfer
    BY <1>2, <2>1 DEF QuotesFresh, Issued
  <2> QED BY <1>0, <1>6, <2>2 DEF TransferCreate
<1>7. ASSUME NEW u \in TransferIds, read' = read, transfers[u].status = "pending",
             \A v \in TransferIds \ {u} : transfers'[v] = transfers[v]
      PROVE  transfers'[t] = NoTransfer
  <2>1. transfers[t] = NoTransfer
    BY <1>7 DEF QuotesFresh, Issued
  <2>2. u # t
    BY <1>7, <2>1 DEF NoTransfer
  <2> QED BY <1>7, <2>1, <2>2
<1>8. ASSUME NEW u \in TransferIds, NEW tx \in TxIds, TransferAccept(u, tx)
      PROVE  transfers'[t] = NoTransfer
  BY <1>0, <1>7, <1>8 DEF TransferAccept
<1>9. ASSUME NEW u \in TransferIds, TransferCancel(u) PROVE transfers'[t] = NoTransfer
  BY <1>0, <1>7, <1>9 DEF TransferCancel
<1>10. ASSUME NEW o \in OpnameIds, NEW tx \in TxIds, NEW n \in Variances,
              OpnameComplete(o, tx, n)
       PROVE  transfers'[t] = NoTransfer
  BY <1>2, <1>10 DEF OpnameComplete, Quoters, QuotesFresh, Issued
<1> QED BY <1>3, <1>4, <1>5, <1>6, <1>8, <1>9, <1>10 DEF Next, Quotes, TransferSteps

LEMMA LegsStep ==
  ASSUME IInv, LegsLinked, QuotesFresh, Next
  PROVE  LegsLinked'
<1>1. ASSUME NEW tx \in TxIds, NEW kind \in Kinds \ Legs, NEW w, NEW n, NEW v,
             Post(tx, kind, w, n, v), transfers' = transfers
      PROVE  LegsLinked'
  <2>1. /\ trx'[tx] = [status |-> "active", kind |-> kind, warehouse |-> w,
                       count |-> n, worth |-> v]
        /\ \A x \in TxIds \ {tx} : trx'[x] = trx[x]
        /\ RowsKept
    BY <1>1, PostedRow
  <2>2. trx'[tx].kind = kind
    BY <2>1
  <2> QED BY <1>1, <2>1, <2>2, LegsUntouched
<1>2. "inbound" \in Kinds \ Legs /\ "problem" \in Kinds \ Legs
      /\ "order" \in Kinds \ Legs /\ "opname" \in Kinds \ Legs
  BY DEF Kinds, Legs
<1>3. ASSUME NEW tx \in TxIds, Transactions(tx) PROVE LegsLinked'
  <2>1. CASE TransactionCancel(tx)
    <3>1. trx[tx] # NoTx /\ Void(tx) /\ transfers' = transfers
      BY <2>1 DEF TransactionCancel, NoTx
    <3>2. RowsKept /\ \A x \in TxIds \ {tx} : trx'[x] = trx[x]
      BY <3>1, VoidedRow
    <3> QED BY <3>1, <3>2, LegsUntouched
  <2>2. CASE \E w \in Warehouses, n \in Pieces :
                \/ \E price \in Prices : \/ \E fee \in Fees : Receive(tx, w, n, price, fee)
                                         \/ Problem(tx, w, n, price)
                \/ OrderCreate(tx, w, n)
    BY <1>1, <1>2, <2>2 DEF Receive, Problem, OrderCreate
  <2> QED BY <1>3, <2>1, <2>2 DEF Transactions
<1>4. ASSUME trx' = trx, transfers' = transfers PROVE LegsLinked'
  BY <1>4, LegsUntouched DEF RowsKept
<1>5. ASSUME NEW q \in Quoters, Quotes(q) PROVE LegsLinked'
  BY <1>4, <1>5 DEF Quotes, ReadAverage, Rollback
<1>6. ASSUME NEW t \in TransferIds, NEW tx \in TxIds, TransferSteps(t, tx) PROVE LegsLinked'
  BY <1>6, TransferCreateLegs, TransferAcceptLegs DEF TransferSteps
<1>7. ASSUME NEW t \in TransferIds, TransferCancel(t) PROVE LegsLinked'
  BY <1>7, TransferCancelLegs
<1>8. ASSUME NEW o \in OpnameIds, NEW tx \in TxIds, NEW n \in Variances,
             OpnameComplete(o, tx, n)
      PROVE  LegsLinked'
  BY <1>1, <1>2, <1>8 DEF OpnameComplete
<1> QED BY <1>3, <1>5, <1>6, <1>7, <1>8 DEF Next

LegsInv == LegsLinked /\ QuotesFresh

LEMMA LegsHold == Spec => []LegsInv
<1>1. Init => LegsInv
  BY DEF Init, LegsInv, LegsLinked, QuotesFresh, Issued, Quoters
<1>2. IInv /\ LegsInv /\ UNCHANGED vars => LegsInv'
  <2> SUFFICES ASSUME IInv, LegsInv, UNCHANGED vars PROVE LegsInv'
    OBVIOUS
  <2>1. LegsLinked'
    BY LegsUntouched DEF LegsInv, RowsKept, vars
  <2>2. QuotesFresh'
    BY DEF LegsInv, QuotesFresh, Issued, vars
  <2> QED BY <2>1, <2>2 DEF LegsInv
<1>3. IInv /\ LegsInv /\ Next => LegsInv'
  BY FreshStep, LegsStep DEF LegsInv
<1> QED BY <1>1, <1>2, <1>3, IInvHolds, PTL DEF Spec


\* What a transaction has left in all the warehouses together.
Standing(tx) == IF trx[tx] # NoTx /\ trx[tx].status = "active" THEN trx[tx].worth ELSE 0

LEMMA FiniteSets ==
  IsFiniteSet(Warehouses) /\ IsFiniteSet(TxIds) /\ IsFiniteSet(TransferIds)
BY ValueAssumption

LEMMA StandingTypes ==
  ASSUME IInv, NEW tx \in TxIds
  PROVE  /\ Standing(tx) \in Int /\ Traded(tx) \in Int
         /\ \A w \in Warehouses : WorthAt(tx, w) \in Int
BY TxTypes, Parts DEF Core, Standing, Traded, WorthAt

\* It left it all in one of them.
LEMMA WorthInOnePlace ==
  ASSUME IInv, NEW tx \in TxIds
  PROVE  SumFunctionOnSet([w \in Warehouses |-> WorthAt(tx, w)], Warehouses) = Standing(tx)
<1> DEFINE f == [w \in Warehouses |-> WorthAt(tx, w)]
<1>1. \A w \in Warehouses : f[w] \in Int
  BY StandingTypes
<1>2. CASE trx[tx] # NoTx /\ trx[tx].status = "active"
  <2> DEFINE v == trx[tx].warehouse
             none == [w \in Warehouses |-> 0]
  <2>1. v \in Warehouses /\ Standing(tx) = trx[tx].worth /\ Standing(tx) \in Int
    BY <1>2, TxTypes, StandingTypes, Parts DEF Core, Standing
  <2>2. f[v] = Standing(tx) /\ \A w \in Warehouses \ {v} : f[w] = 0
    BY <1>2, <2>1 DEF WorthAt
  <2>3. \A w \in Warehouses : none[w] = 0
    OBVIOUS
  <2> HIDE DEF f, v, none
  <2>4. SumFunctionOnSet(none, Warehouses) = 0
    BY <2>3, SumZero, FiniteSets
  <2>5. \A w \in Warehouses : none[w] \in Int
    BY <2>3
  <2>6. \A w \in Warehouses \ {v} : none[w] = f[w]
    BY <2>2, <2>3
  <2>7. SumFunctionOnSet(f, Warehouses) = SumFunctionOnSet(none, Warehouses) + (f[v] - none[v])
    BY <1>1, <2>1, <2>5, <2>6, SumChange, FiniteSets
  <2>8. SumFunctionOnSet(f, Warehouses) = Standing(tx)
    BY <2>1, <2>2, <2>3, <2>4, <2>7
  <2> QED BY <2>8 DEF f
<1>3. CASE ~(trx[tx] # NoTx /\ trx[tx].status = "active")
  <2>1. (\A w \in Warehouses : f[w] = 0) /\ Standing(tx) = 0
    BY <1>3 DEF WorthAt, Standing
  <2> HIDE DEF f
  <2>2. SumFunctionOnSet(f, Warehouses) = 0
    BY <2>1, SumZero, FiniteSets
  <2> QED BY <2>1, <2>2 DEF f
<1> QED BY <1>2, <1>3

\* The legs of one transfer and its goods on the road are worth nothing.
LEMMA LegsBalance ==
  ASSUME IInv, LegsInv, LegsAsDocuments, NEW t \in TransferIds, Issued(t),
         NEW e, \A x \in TxIds : e[x] = Standing(x)
  PROVE  /\ Value(t) \in Int
         /\ SumFunctionOnSet(e, LegsOf(t))
               = IF transfers[t].status = "pending" THEN -Value(t) ELSE 0
<1> DEFINE doc == transfers[t]
           v == Value(t)
<1>1. /\ doc.out \in TxIds /\ doc.in \subseteq TxIds /\ v \in Int
      /\ doc.status \in {"pending", "accepted", "canceled"}
  BY IssuedTypes
<1>2. LegsMatch(t)
  BY DEF LegsInv, LegsLinked
<1>3. /\ trx[doc.out] # NoTx /\ trx[doc.out].kind = "transfer_out"
      /\ trx[doc.out].worth = -v
      /\ trx[doc.out].status = "canceled" <=> doc.status = "canceled"
      /\ doc.in # {} <=> doc.status = "accepted"
      /\ \A i \in doc.in : /\ trx[i] # NoTx /\ trx[i].kind = "transfer_in"
                           /\ trx[i].worth = v /\ trx[i].status = "active"
      /\ \A i, j \in doc.in : i = j
  BY <1>2 DEF LegsMatch, LegsAsDocuments, Issued
<1>4. LegsOf(t) = {doc.out} \cup doc.in
  BY DEF LegsOf
<1>5. trx[doc.out].status \in {"active", "canceled"}
  BY <1>1, <1>3, TxTypes, Parts DEF Core
<1> HIDE DEF doc, v
<1>6. e[doc.out] = IF doc.status = "canceled" THEN 0 ELSE -v
  BY <1>1, <1>3, <1>5 DEF Standing
<1>7. \A i \in doc.in : e[i] = v
  BY <1>1, <1>3 DEF Standing
<1>8. CASE doc.status = "accepted"
  <2>1. PICK i \in doc.in : doc.in = {i}
    BY <1>3, <1>8
  <2>2. i # doc.out
    BY <1>3, <2>1
  <2>3. e[i] = v /\ e[doc.out] = -v
    BY <1>6, <1>7, <1>8, <2>1
  <2>4. e[i] \in Int /\ e[doc.out] \in Int
    BY <1>1, <2>3
  <2>5. SumFunctionOnSet(e, {doc.out}) = e[doc.out]
    BY <2>4, SumOne
  <2>6. SumFunctionOnSet(e, {i}) = e[i]
    BY <2>4, SumOne
  <2>7. SumFunctionOnSet(e, {doc.out} \cup {i})
           = SumFunctionOnSet(e, {doc.out}) + SumFunctionOnSet(e, {i})
    <3>1. {doc.out} \cap {i} = {} /\ \A x \in {doc.out} \cup {i} : e[x] \in Int
      BY <2>2, <2>4
    <3>2. IsFiniteSet({doc.out}) /\ IsFiniteSet({i})
      BY FS_Singleton
    <3> QED BY <3>1, <3>2, SumDisjoint
  <2>8. SumFunctionOnSet(e, LegsOf(t)) = 0
    <3>1. LegsOf(t) = {doc.out} \cup {i}
      BY <1>4, <2>1
    <3>2. SumFunctionOnSet(e, LegsOf(t)) = -v + v
      BY <2>3, <2>5, <2>6, <2>7, <3>1
    <3> QED BY <1>1, <3>2
  <2> QED BY <1>1, <1>8, <2>8 DEF doc, v
<1>9. CASE doc.status # "accepted"
  <2>1. LegsOf(t) = {doc.out}
    BY <1>3, <1>4, <1>9
  <2>2. e[doc.out] \in Int
    BY <1>1, <1>6
  <2>3. SumFunctionOnSet(e, {doc.out}) = e[doc.out]
    BY <2>2, SumOne
  <2>4. doc.status = "pending" \/ doc.status = "canceled"
    BY <1>1, <1>9
  <2> QED BY <1>1, <1>6, <2>1, <2>3, <2>4 DEF doc, v
<1> QED BY <1>8, <1>9

AllLegs == {x \in TxIds : trx[x] # NoTx /\ trx[x].kind \in Legs}

LEMMA RoadBalances ==
  ASSUME IInv, LegsInv, LegsAsDocuments,
         NEW e, \A x \in TxIds : e[x] = Standing(x) /\ e[x] \in Int,
         NEW road, \A t \in TransferIds : road[t] = OnTheRoad(t)
  PROVE  /\ SumFunctionOnSet(road, TransferIds) \in Int
         /\ SumFunctionOnSet(e, AllLegs) + SumFunctionOnSet(road, TransferIds) = 0
<1> DEFINE G == [t \in TransferIds |-> IF Issued(t) THEN LegsOf(t) ELSE {}]
           part == [t \in TransferIds |-> SumFunctionOnSet(e, G[t])]
           none == [t \in TransferIds |-> 0]
<1>1. G \in [TransferIds -> SUBSET TxIds]
  BY IssuedTypes
<1>2. \A t, u \in TransferIds : t # u => G[t] \cap G[u] = {}
  BY DEF LegsInv, LegsLinked
<1>3. AllLegs = UNION {G[t] : t \in TransferIds}
  <2>1. ASSUME NEW x \in AllLegs PROVE \E t \in TransferIds : x \in G[t]
    BY DEF AllLegs, LegsInv, LegsLinked
  <2>2. ASSUME NEW t \in TransferIds, NEW x \in G[t] PROVE x \in AllLegs
    <3>1. Issued(t) /\ x \in LegsOf(t) /\ x \in TxIds
      BY <1>1
    <3>2. LegsMatch(t)
      BY <3>1 DEF LegsInv, LegsLinked
    <3> QED BY <3>1, <3>2 DEF AllLegs, LegsMatch, LegsOf, Legs
  <2> HIDE DEF G
  <2> QED BY <2>1, <2>2
<1>4. ASSUME NEW t \in TransferIds
      PROVE  part[t] \in Int /\ road[t] \in Int /\ none[t] = part[t] + road[t]
  <2>1. CASE Issued(t)
    <3>1. part[t] = SumFunctionOnSet(e, LegsOf(t)) /\ none[t] = 0
      BY <2>1
    <3>2. road[t] = IF transfers[t].status = "pending" THEN Value(t) ELSE 0
      BY DEF OnTheRoad, Value
    <3> HIDE DEF part, none
    <3> QED BY <2>1, <3>1, <3>2, LegsBalance
  <2>2. CASE ~Issued(t)
    <3>1. part[t] = SumFunctionOnSet(e, {}) /\ road[t] = 0 /\ none[t] = 0
      BY <2>2 DEF Issued, NoTransfer, OnTheRoad
    <3>2. SumFunctionOnSet(e, {}) = 0
      BY SumUnfold, FS_EmptySet
    <3> HIDE DEF part, none
    <3> QED BY <3>1, <3>2
  <2> QED BY <2>1, <2>2
<1>5. \A t \in TransferIds : none[t] = 0
  OBVIOUS
<1>6. part = [t \in TransferIds |-> SumFunctionOnSet(e, G[t])]
  OBVIOUS
<1> HIDE DEF G, part, none
<1>7. SumFunctionOnSet(e, AllLegs) = SumFunctionOnSet(part, TransferIds)
  BY <1>1, <1>2, <1>3, <1>6, SumGroups, FiniteSets
<1>8. SumFunctionOnSet(none, TransferIds)
         = SumFunctionOnSet(part, TransferIds) + SumFunctionOnSet(road, TransferIds)
  BY <1>4, SumAdd, FiniteSets
<1>9. SumFunctionOnSet(none, TransferIds) = 0
  BY <1>5, SumZero, FiniteSets
<1>10. SumFunctionOnSet(road, TransferIds) \in Int
  BY <1>4, SumRemove, FiniteSets
<1> QED BY <1>7, <1>8, <1>9, <1>10


LEMMA ConservedIfLinked ==
  ASSUME IInv, LegsInv
  PROVE  TransfersConserveValue
<1> DEFINE road == [t \in TransferIds |-> OnTheRoad(t)]
           traded == [x \in TxIds |-> Traded(x)]
           m == [x \in TxIds |-> [w \in Warehouses |-> WorthAt(x, w)]]
           e == [x \in TxIds |-> SumFunctionOnSet(m[x], Warehouses)]
           col == [w \in Warehouses |-> SumFunctionOnSet([x \in TxIds |-> m[x][w]], TxIds)]
           rest == TxIds \ AllLegs
<1> SUFFICES ASSUME LegsAsDocuments
             PROVE  SumFunction(amount) + SumFunction(road)
                       = SumFunction(InitAmount) + SumFunction(traded)
  BY DEF TransfersConserveValue
<1>1. /\ amount \in [Warehouses -> Int] /\ InitAmount \in [Warehouses -> Int]
      /\ SumFunction(amount) = SumFunctionOnSet(amount, Warehouses)
      /\ SumFunction(InitAmount) = SumFunctionOnSet(InitAmount, Warehouses)
  <2>1. amount \in [Warehouses -> Int] /\ InitAmount \in [Warehouses -> Int]
    BY ValueAssumption, Parts DEF Core, TrxTypes
  <2> QED BY <2>1 DEF SumFunction
<1>2. /\ SumFunction(road) = SumFunctionOnSet(road, TransferIds)
      /\ SumFunction(traded) = SumFunctionOnSet(traded, TxIds)
  BY DEF SumFunction
<1>3. \A x \in TxIds, w \in Warehouses : m[x][w] \in Int
  BY StandingTypes
<1>4. \A x \in TxIds : e[x] = Standing(x) /\ e[x] \in Int
  BY WorthInOnePlace, StandingTypes
<1>5. \A w \in Warehouses : amount[w] = InitAmount[w] + col[w]
  <2> TAKE w \in Warehouses
  <2> DEFINE f == [x \in TxIds |-> WorthAt(x, w)]
             g == [x \in TxIds |-> m[x][w]]
  <2>1. f = g
    OBVIOUS
  <2>2. amount[w] = InitAmount[w] + SumFunction(f)
    BY DEF IInv, ValueIsActiveTransactions
  <2>3. SumFunction(f) = SumFunctionOnSet(f, TxIds)
    BY DEF SumFunction
  <2>4. col[w] = SumFunctionOnSet(g, TxIds)
    OBVIOUS
  <2> QED BY <2>1, <2>2, <2>3, <2>4
<1>6. \A x \in TxIds : traded[x] = Traded(x) /\ traded[x] \in Int
  BY StandingTypes
<1>7. \A t \in TransferIds : road[t] = OnTheRoad(t)
  OBVIOUS
<1>8. /\ e = [x \in TxIds |-> SumFunctionOnSet(m[x], Warehouses)]
      /\ col = [w \in Warehouses |-> SumFunctionOnSet([x \in TxIds |-> m[x][w]], TxIds)]
  OBVIOUS
<1> HIDE DEF road, traded, m
<1>9. \A w \in Warehouses : col[w] \in Int
  <2> TAKE w \in Warehouses
  <2> DEFINE g == [x \in TxIds |-> m[x][w]]
  <2>1. \A x \in TxIds : g[x] \in Int
    BY <1>3
  <2>2. col[w] = SumFunctionOnSet(g, TxIds)
    OBVIOUS
  <2> HIDE DEF g, col
  <2> QED BY <2>1, <2>2, SumRemove, FiniteSets
<1>10. SumFunctionOnSet(e, TxIds) = SumFunctionOnSet(col, Warehouses)
  BY <1>3, SumSwap, FiniteSets
<1> HIDE DEF e, col
<1>11. SumFunctionOnSet(amount, Warehouses)
          = SumFunctionOnSet(InitAmount, Warehouses) + SumFunctionOnSet(col, Warehouses)
  BY <1>1, <1>5, <1>9, SumAdd, FiniteSets
<1>12. /\ IsFiniteSet(rest) /\ IsFiniteSet(AllLegs) /\ AllLegs \subseteq TxIds
       /\ rest \cap AllLegs = {} /\ rest \cup AllLegs = TxIds /\ rest \subseteq TxIds
  BY FS_Subset, FiniteSets DEF AllLegs
<1>13. /\ \A x \in rest : e[x] = traded[x]
       /\ \A x \in AllLegs : traded[x] = 0
  BY <1>4, <1>6, <1>12 DEF AllLegs, Standing, Traded
<1> HIDE DEF rest
<1>14. /\ SumFunctionOnSet(e, rest \cup AllLegs)
             = SumFunctionOnSet(e, rest) + SumFunctionOnSet(e, AllLegs)
       /\ SumFunctionOnSet(traded, rest \cup AllLegs)
             = SumFunctionOnSet(traded, rest) + SumFunctionOnSet(traded, AllLegs)
  <2>1. \A x \in rest \cup AllLegs : e[x] \in Int /\ traded[x] \in Int
    BY <1>4, <1>6, <1>12
  <2> QED BY <1>12, <2>1, SumDisjoint
<1>15. SumFunctionOnSet(e, rest) = SumFunctionOnSet(traded, rest)
  <2>1. \A x \in rest : e[x] = traded[x] /\ e[x] \in Int
    BY <1>4, <1>12, <1>13
  <2> QED BY <1>12, <2>1, SumCongruent
<1>16. SumFunctionOnSet(traded, AllLegs) = 0
  BY <1>12, <1>13, SumZero
<1>17. /\ SumFunctionOnSet(road, TransferIds) \in Int
       /\ SumFunctionOnSet(e, AllLegs) + SumFunctionOnSet(road, TransferIds) = 0
  BY <1>4, <1>7, RoadBalances
<1>18. /\ SumFunctionOnSet(traded, rest) \in Int /\ SumFunctionOnSet(e, AllLegs) \in Int
       /\ SumFunctionOnSet(InitAmount, Warehouses) \in Int
  <2>1. /\ \A x \in rest : traded[x] \in Int
        /\ \A x \in AllLegs : e[x] \in Int
        /\ \A w \in Warehouses : InitAmount[w] \in Int
    BY <1>1, <1>4, <1>6, <1>12
  <2> QED BY <1>12, <2>1, SumRemove, FiniteSets
<1>19. /\ SumFunctionOnSet(e, TxIds) = SumFunctionOnSet(e, rest) + SumFunctionOnSet(e, AllLegs)
       /\ SumFunctionOnSet(traded, TxIds) = SumFunctionOnSet(traded, rest) + 0
  BY <1>12, <1>14, <1>16
<1> QED BY <1>1, <1>2, <1>10, <1>11, <1>15, <1>17, <1>18, <1>19

\* The claim of transfer_create.go: while the legs follow their documents,
\* goods cross warehouses without a gain or a loss, at any prices and however
\* the averages of both warehouses move between the create and the accept.
THEOREM TransfersKeepValue == Spec => []TransfersConserveValue
<1>1. IInv /\ LegsInv => TransfersConserveValue
  BY ConservedIfLinked
<1> QED BY <1>1, IInvHolds, LegsHold, PTL
=============================================================================
