--------------------------- MODULE InventoryProofs ---------------------------
(***************************************************************************)
(* The inventory service keeps its ledger, and its documents, racks and    *)
(* batches agree with its transactions, for every set of warehouses,       *)
(* products, racks and documents.                                          *)
(*                                                                         *)
(* Part 1 is about the ledger alone: what one posting and one reversal do  *)
(* to it.  Part 2 shows that every step of the service posts one           *)
(* transaction, voids one, or leaves the ledger alone (StepMoves), and     *)
(* what follows for the stock.  Part 3 shows what the steps do to all that *)
(* hangs on a transaction: the documents that refer to it, the racks it    *)
(* filled or emptied, the batches it minted.                               *)
(***************************************************************************)
EXTENDS Inventory, SumLemmas

-----------------------------------------------------------------------------
(* Part 1: the ledger                                                       *)

LogTypes ==
    /\ stock \in Grid
    /\ logTotal \in Grid
    /\ batchNet \in [TxIds -> Grid]
    /\ logged \subseteq TxIds
    /\ trx \in [TxIds -> Transaction \cup {NoTx}]

\* The warehouse's total of the log is the total of its transactions' nets.
LogIsSum ==
    \A w \in Warehouses, p \in Products :
        logTotal[w][p] = SumFunction([tx \in TxIds |-> batchNet[tx][w][p]])

LedgerInv == LogTypes /\ TransactionNet /\ LedgerBalanced /\ LogIsSum

-----------------------------------------------------------------------------
LEMMA GridEq ==
  ASSUME NEW a \in Grid, NEW b \in Grid,
         \A w \in Warehouses, p \in Products : a[w][p] = b[w][p]
  PROVE  a = b
<1>1. \A w \in Warehouses : a[w] = b[w]
  <2>1. ASSUME NEW w \in Warehouses PROVE a[w] = b[w]
    <3>1. a[w] \in [Products -> Int] /\ b[w] \in [Products -> Int]
      BY DEF Grid
    <3> QED BY <3>1
  <2> QED BY <2>1
<1> QED BY <1>1 DEF Grid

LEMMA VectorTypes ==
  /\ NoItems \in [Products -> Int] /\ NoChange \in Grid
  /\ \A w \in Warehouses, items \in [Products -> Int] : At(w, items) \in Grid
  /\ \A sign \in Int, items \in [Products -> Int] :
        Signed(sign, items) \in [Products -> Int]
  /\ \A change \in Grid : Neg(change) \in Grid
  /\ \A type \in Kinds : Direction(type) \in Int
<1>1. NoItems \in [Products -> Int] /\ NoChange \in Grid
  BY DEF NoItems, NoChange, Grid
<1>2. ASSUME NEW w \in Warehouses, NEW items \in [Products -> Int]
      PROVE  At(w, items) \in Grid
  BY <1>1 DEF At, Grid
<1>3. ASSUME NEW sign \in Int, NEW items \in [Products -> Int]
      PROVE  Signed(sign, items) \in [Products -> Int]
  BY DEF Signed
<1>4. ASSUME NEW change \in Grid PROVE Neg(change) \in Grid
  BY DEF Neg, Grid
<1>5. \A type \in Kinds : Direction(type) \in Int
  BY DEF Direction
<1> QED BY <1>1, <1>2, <1>3, <1>4, <1>5

LEMMA AtValues ==
  ASSUME NEW w \in Warehouses, NEW items \in [Products -> Int],
         NEW v \in Warehouses, NEW p \in Products
  PROVE  At(w, items)[v][p] = IF v = w THEN items[p] ELSE 0
BY DEF At, NoItems

LEMMA SignedOne ==
  ASSUME NEW items \in [Products -> Int]
  PROVE  Signed(1, items) = items
BY DEF Signed

\* A change of one warehouse reaches exactly its own state row: the cache
\* holds one row per product, and it is the right one.
LEMMA CacheIsSound ==
  ASSUME NEW w \in Warehouses, NEW items \in [Products -> Int],
         NEW v \in Warehouses, NEW p \in Products
  PROVE  (IF IsCachedRow(At(w, items), p, v)
          THEN CachedDelta(At(w, items), p) ELSE 0) = At(w, items)[v][p]
<1> DEFINE change == At(w, items)
<1>1. \A u \in Warehouses : change[u][p] = IF u = w THEN items[p] ELSE 0
  BY AtValues
<1> HIDE DEF change
<1>2. CASE items[p] = 0
  <2>1. Touched(change, p) = {}
    BY <1>1, <1>2 DEF Touched
  <2>2. ~IsCachedRow(change, p, v)
    BY <2>1 DEF IsCachedRow
  <2> QED BY <1>1, <1>2, <2>2 DEF change
<1>3. CASE items[p] # 0
  <2>1. Touched(change, p) = {w}
    BY <1>1, <1>3 DEF Touched
  <2>2. IsCachedRow(change, p, v) <=> v = w
    BY <2>1, LedgerAssumption DEF IsCachedRow
  <2> DEFINE f == [u \in Warehouses |-> change[u][p]]
  <2>3. f[w] = items[p] /\ f[w] \in Int
    BY <1>1
  <2>4. CachedDelta(change, p) = SumFunctionOnSet(f, {w})
    BY <2>1 DEF CachedDelta
  <2> HIDE DEF f
  <2>5. CachedDelta(change, p) = items[p]
    BY <2>3, <2>4, SumOne
  <2> QED BY <1>1, <2>2, <2>5 DEF change
<1> QED BY <1>2, <1>3

\* Appending the rows of one transaction in one warehouse: state, total and
\* net all move by the rows.
LEMMA LogAt ==
  ASSUME LogTypes, NEW tx \in TxIds, NEW w \in Warehouses,
         NEW items \in [Products -> Int],
         ProcessStockBatchLog(tx, At(w, items))
  PROVE  /\ stock' \in Grid /\ logTotal' \in Grid
         /\ batchNet' \in [TxIds -> Grid] /\ logged' \subseteq TxIds
         /\ \A v \in Warehouses, p \in Products :
               /\ stock'[v][p] = stock[v][p] + At(w, items)[v][p]
               /\ logTotal'[v][p] = logTotal[v][p] + At(w, items)[v][p]
               /\ batchNet'[tx][v][p] = batchNet[tx][v][p] + At(w, items)[v][p]
         /\ \A t \in TxIds \ {tx} : batchNet'[t] = batchNet[t]
<1> DEFINE change == At(w, items)
<1>1. change \in Grid
  BY VectorTypes
<1>2. ASSUME NEW v \in Warehouses, NEW p \in Products
      PROVE  change[v][p] \in Int /\ stock[v][p] \in Int /\ logTotal[v][p] \in Int
             /\ batchNet[tx][v][p] \in Int
  BY <1>1 DEF Grid, LogTypes
<1>3. ASSUME NEW v \in Warehouses, NEW p \in Products
      PROVE  stock'[v][p] = stock[v][p] + change[v][p]
  <2>1. stock'[v][p] = IF IsCachedRow(change, p, v)
                       THEN stock[v][p] + CachedDelta(change, p) ELSE stock[v][p]
    BY DEF ProcessStockBatchLog
  <2>2. (IF IsCachedRow(change, p, v) THEN CachedDelta(change, p) ELSE 0) = change[v][p]
    BY CacheIsSound
  <2> HIDE DEF change
  <2> QED BY <1>2, <2>1, <2>2
<1> HIDE DEF change
<1>4. ProcessStockBatchLog(tx, change)
  BY DEF change
<1>5. stock' \in Grid
  <2>1. stock' = [v \in Warehouses |-> [p \in Products |-> stock'[v][p]]]
    BY <1>4 DEF ProcessStockBatchLog
  <2>2. \A v \in Warehouses, p \in Products : stock'[v][p] \in Int
    BY <1>2, <1>3
  <2> QED BY <2>1, <2>2 DEF Grid
<1>6. /\ logTotal' = [v \in Warehouses |-> [p \in Products |->
                         logTotal[v][p] + change[v][p]]]
      /\ batchNet' = [batchNet EXCEPT ![tx] =
                         [v \in Warehouses |-> [p \in Products |->
                             batchNet[tx][v][p] + change[v][p]]]]
  BY <1>4 DEF ProcessStockBatchLog
<1>7. logTotal' \in Grid
  BY <1>2, <1>6 DEF Grid
<1>8. [v \in Warehouses |-> [p \in Products |->
          batchNet[tx][v][p] + change[v][p]]] \in Grid
  BY <1>2 DEF Grid
<1>9. batchNet' \in [TxIds -> Grid] /\ \A t \in TxIds \ {tx} : batchNet'[t] = batchNet[t]
  BY <1>6, <1>8 DEF LogTypes
<1>10. \A v \in Warehouses, p \in Products :
          /\ logTotal'[v][p] = logTotal[v][p] + change[v][p]
          /\ batchNet'[tx][v][p] = batchNet[tx][v][p] + change[v][p]
  BY <1>6 DEF LogTypes
<1>11. logged' \subseteq TxIds
  BY <1>4 DEF ProcessStockBatchLog, LogTypes
<1> QED BY <1>3, <1>5, <1>7, <1>9, <1>10, <1>11 DEF change

\* Such rows keep the totals in step.
LEMMA LogKeepsTotals ==
  ASSUME LogTypes, LedgerBalanced, LogIsSum,
         NEW tx \in TxIds, NEW w \in Warehouses, NEW items \in [Products -> Int],
         ProcessStockBatchLog(tx, At(w, items))
  PROVE  LedgerBalanced' /\ LogIsSum'
<1> DEFINE change == At(w, items)
<1>1. change \in Grid
  BY VectorTypes
<1>2. \A v \in Warehouses, p \in Products :
          /\ stock'[v][p] = stock[v][p] + change[v][p]
          /\ logTotal'[v][p] = logTotal[v][p] + change[v][p]
          /\ batchNet'[tx][v][p] = batchNet[tx][v][p] + change[v][p]
  BY LogAt
<1>3. \A t \in TxIds \ {tx} : batchNet'[t] = batchNet[t]
  BY LogAt
<1>4. batchNet' \in [TxIds -> Grid]
  BY LogAt
<1> HIDE DEF change
<1>5. LedgerBalanced'
  <2>1. ASSUME NEW v \in Warehouses, NEW p \in Products
        PROVE  stock'[v][p] = InitStock[v][p] + logTotal'[v][p]
    <3>1. /\ change[v][p] \in Int /\ stock[v][p] \in Int
          /\ logTotal[v][p] \in Int /\ InitStock[v][p] \in Int
      BY <1>1, LedgerAssumption DEF LogTypes, Grid
    <3>2. stock[v][p] = InitStock[v][p] + logTotal[v][p]
      BY DEF LedgerBalanced
    <3> QED BY <1>2, <3>1, <3>2
  <2> QED BY <2>1 DEF LedgerBalanced
<1>6. LogIsSum'
  <2>1. ASSUME NEW v \in Warehouses, NEW p \in Products
        PROVE  logTotal'[v][p] = SumFunction([t \in TxIds |-> batchNet'[t][v][p]])
    <3> DEFINE f == [t \in TxIds |-> batchNet[t][v][p]]
               g == [t \in TxIds |-> batchNet'[t][v][p]]
    <3>1. \A t \in TxIds : f[t] \in Int /\ g[t] \in Int
      BY <1>4 DEF LogTypes, Grid
    <3>2. \A t \in TxIds \ {tx} : f[t] = g[t]
      BY <1>3
    <3>3. g[tx] = f[tx] + change[v][p] /\ change[v][p] \in Int /\ f[tx] \in Int
      BY <1>1, <1>2, <3>1 DEF Grid
    <3>4. logTotal[v][p] = SumFunctionOnSet(f, TxIds)
      BY DEF LogIsSum, SumFunction
    <3>5. logTotal'[v][p] = logTotal[v][p] + change[v][p]
      BY <1>2
    <3>6. SumFunction(g) = SumFunctionOnSet(g, TxIds)
      BY DEF SumFunction
    <3> HIDE DEF f, g
    <3>7. SumFunctionOnSet(g, TxIds) = SumFunctionOnSet(f, TxIds) + (g[tx] - f[tx])
      BY <3>1, <3>2, SumChange, LedgerAssumption
    <3>8. SumFunctionOnSet(f, TxIds) \in Int
      BY <3>1, SumRemove, LedgerAssumption
    <3>9. logTotal'[v][p] = SumFunction(g)
      BY <3>3, <3>4, <3>5, <3>6, <3>7, <3>8
    <3> QED BY <3>9 DEF g
  <2> QED BY <2>1 DEF LogIsSum
<1> QED BY <1>5, <1>6

-----------------------------------------------------------------------------
\* A new transaction and the rows it says it moves.
LEMMA PostStep ==
  ASSUME LedgerInv, NEW tx \in TxIds, trx[tx] = NoTx,
         NEW w \in Warehouses, NEW type \in Kinds, NEW items \in [Products -> Int],
         InsertTransaction(tx, w, type, items),
         ProcessStockBatchLog(tx, At(w, Signed(Direction(type), items)))
  PROVE  LedgerInv'
<1> DEFINE rows == Signed(Direction(type), items)
<1>1. rows \in [Products -> Int]
  BY VectorTypes
<1>2. LogTypes /\ LedgerBalanced /\ LogIsSum
  BY DEF LedgerInv
<1> HIDE DEF rows
<1>3. ProcessStockBatchLog(tx, At(w, rows))
  BY DEF rows
<1>4. LedgerBalanced' /\ LogIsSum'
  BY <1>1, <1>2, <1>3, LogKeepsTotals
<1> DEFINE new == [warehouse |-> w, type |-> type, status |-> "active", items |-> items]
<1>5. trx' = [trx EXCEPT ![tx] = new] /\ new \in Transaction
  BY DEF InsertTransaction, Transaction
<1>6. LogTypes'
  BY <1>1, <1>2, <1>3, <1>5, LogAt DEF LogTypes
<1>7. TransactionNet'
  <2>1. ASSUME NEW t \in TxIds, t # tx PROVE batchNet'[t] = Effect(t)'
    <3>1. trx'[t] = trx[t] /\ batchNet'[t] = batchNet[t]
      BY <1>1, <1>2, <1>3, <1>5, <2>1, LogAt DEF LogTypes
    <3>2. batchNet[t] = Effect(t)
      BY DEF LedgerInv, TransactionNet
    <3> QED BY <3>1, <3>2 DEF Effect
  <2>2. batchNet'[tx] = Effect(tx)'
    <3>1. Effect(tx)' = At(w, rows)
      BY <1>2, <1>5 DEF Effect, rows, LogTypes
    <3>2. batchNet[tx] = NoChange
      BY DEF LedgerInv, TransactionNet, Effect, NoTx
    <3>3. At(w, rows) \in Grid /\ batchNet'[tx] \in Grid
      BY <1>1, <1>2, <1>3, LogAt, VectorTypes
    <3>4. ASSUME NEW v \in Warehouses, NEW p \in Products
          PROVE  batchNet'[tx][v][p] = At(w, rows)[v][p]
      <4>1. batchNet[tx][v][p] = 0
        BY <3>2 DEF NoChange, NoItems
      <4>2. batchNet'[tx][v][p] = batchNet[tx][v][p] + At(w, rows)[v][p]
        BY <1>1, <1>2, <1>3, LogAt
      <4>3. At(w, rows)[v][p] \in Int
        BY <3>3 DEF Grid
      <4> QED BY <4>1, <4>2, <4>3
    <3> QED BY <3>1, <3>3, <3>4, GridEq
  <2> QED BY <2>1, <2>2 DEF TransactionNet
<1> QED BY <1>4, <1>6, <1>7 DEF LedgerInv

\* What a reversal writes: the rows of the transaction's own warehouse, with
\* the other sign, or none when it was reversed before.
LEMMA ReversalRows ==
  ASSUME LedgerInv, NEW tx \in TxIds, trx[tx] # NoTx
  PROVE  \E w \in Warehouses, items \in [Products -> Int] :
            /\ Neg(batchNet[tx]) = At(w, items)
            /\ trx[tx].status = "canceled" => items = NoItems
            /\ trx[tx].status = "active" =>
                  w = trx[tx].warehouse
                  /\ items = Signed(-1, Signed(Direction(trx[tx].type), trx[tx].items))
<1>1. trx[tx] \in Transaction /\ batchNet[tx] = Effect(tx)
  BY DEF LedgerInv, LogTypes, TransactionNet
<1> DEFINE w == trx[tx].warehouse
           moved == Signed(Direction(trx[tx].type), trx[tx].items)
<1>2. w \in Warehouses /\ moved \in [Products -> Int]
  BY <1>1, VectorTypes DEF Transaction
<1>3. CASE trx[tx].status = "active"
  <2> DEFINE items == Signed(-1, moved)
  <2>1. items \in [Products -> Int]
    BY <1>2, VectorTypes
  <2>2. batchNet[tx] = At(w, moved)
    BY <1>1, <1>3 DEF Effect
  <2>3. At(w, items) \in Grid /\ Neg(At(w, moved)) \in Grid
    BY <1>2, <2>1, VectorTypes
  <2> HIDE DEF w, moved
  <2>4. ASSUME NEW v \in Warehouses, NEW p \in Products
        PROVE  Neg(At(w, moved))[v][p] = At(w, items)[v][p]
    <3>1. At(w, moved)[v][p] = (IF v = w THEN moved[p] ELSE 0)
      BY <1>2, AtValues
    <3>2. At(w, items)[v][p] = (IF v = w THEN items[p] ELSE 0)
      BY <1>2, <2>1, AtValues
    <3>3. items[p] = -1 * moved[p] /\ moved[p] \in Int
      BY <1>2 DEF Signed
    <3>4. Neg(At(w, moved))[v][p] = -(At(w, moved)[v][p])
      BY DEF Neg
    <3> HIDE DEF items
    <3> QED BY <3>1, <3>2, <3>3, <3>4
  <2>5. Neg(batchNet[tx]) = At(w, items)
    BY <2>2, <2>3, <2>4, GridEq
  <2> QED BY <1>2, <1>3, <2>1, <2>5 DEF w, moved
<1>4. CASE trx[tx].status # "active"
  <2>1. Neg(batchNet[tx]) = NoChange
    <3>1. batchNet[tx] = NoChange
      BY <1>1, <1>4 DEF Effect
    <3>2. NoChange \in Grid /\ Neg(NoChange) \in Grid
      BY VectorTypes
    <3>3. ASSUME NEW v \in Warehouses, NEW p \in Products
          PROVE  Neg(NoChange)[v][p] = NoChange[v][p]
      <4>1. NoChange[v][p] = 0
        BY DEF NoChange, NoItems
      <4>2. Neg(NoChange)[v][p] = -(NoChange[v][p])
        BY DEF Neg
      <4>3. -(NoChange[v][p]) = 0
        <5>1. \A n, m \in Int : n + m = m => -n + m = m
          OBVIOUS
        <5>2. 0 \in Int /\ 0 + 0 = 0 /\ \A n \in Int : -n \in Int /\ n + 0 = n
          OBVIOUS
        <5> QED BY <4>1, <5>1, <5>2, Zenon
      <4> QED BY <4>1, <4>2, <4>3, Zenon
    <3> QED BY <3>1, <3>2, <3>3, GridEq
  <2>2. NoChange = At(w, NoItems)
    BY DEF At, NoChange
  <2>3. NoItems \in [Products -> Int]
    BY VectorTypes
  <2> QED BY <1>2, <1>4, <2>1, <2>2, <2>3
<1> QED BY <1>3, <1>4

LEMMA VoidStep ==
  ASSUME LedgerInv, NEW tx \in TxIds, trx[tx] # NoTx,
         ReconstructCancel(tx),
         trx' = [trx EXCEPT ![tx].status = "canceled"]
  PROVE  LedgerInv'
<1>1. PICK w \in Warehouses, items \in [Products -> Int] :
         Neg(batchNet[tx]) = At(w, items)
  BY ReversalRows
<1>2. ProcessStockBatchLog(tx, At(w, items))
  BY <1>1 DEF ReconstructCancel
<1>3. LogTypes /\ LedgerBalanced /\ LogIsSum
  BY DEF LedgerInv
<1>4. LedgerBalanced' /\ LogIsSum'
  BY <1>2, <1>3, LogKeepsTotals
<1>5. /\ trx' \in [TxIds -> Transaction \cup {NoTx}]
      /\ trx'[tx].status = "canceled"
      /\ \A t \in TxIds \ {tx} : trx'[t] = trx[t]
  <2>1. trx[tx] \in Transaction
    BY <1>3 DEF LogTypes
  <2>2. [trx[tx] EXCEPT !.status = "canceled"] \in Transaction
    BY <2>1 DEF Transaction
  <2> QED BY <1>3, <2>1, <2>2 DEF LogTypes, Transaction
<1>6. LogTypes'
  BY <1>2, <1>3, <1>5, LogAt DEF LogTypes
<1>7. TransactionNet'
  <2>1. ASSUME NEW t \in TxIds, t # tx PROVE batchNet'[t] = Effect(t)'
    <3>1. trx'[t] = trx[t] /\ batchNet'[t] = batchNet[t]
      BY <1>2, <1>3, <1>5, <2>1, LogAt
    <3>2. batchNet[t] = Effect(t)
      BY DEF LedgerInv, TransactionNet
    <3> QED BY <3>1, <3>2 DEF Effect
  <2>2. batchNet'[tx] = Effect(tx)'
    <3>1. Effect(tx)' = NoChange
      BY <1>5 DEF Effect
    <3>2. NoChange \in Grid /\ batchNet'[tx] \in Grid /\ batchNet[tx] \in Grid
      BY <1>2, <1>3, LogAt, VectorTypes DEF LogTypes
    <3>3. ASSUME NEW v \in Warehouses, NEW p \in Products
          PROVE  batchNet'[tx][v][p] = NoChange[v][p]
      <4>1. batchNet'[tx][v][p] = batchNet[tx][v][p] + At(w, items)[v][p]
        BY <1>2, <1>3, LogAt
      <4>2. At(w, items)[v][p] = -(batchNet[tx][v][p])
        BY <1>1 DEF Neg
      <4>3. batchNet[tx][v][p] \in Int
        BY <3>2 DEF Grid
      <4> QED BY <4>1, <4>2, <4>3 DEF NoChange, NoItems
    <3> QED BY <3>1, <3>2, <3>3, GridEq
  <2> QED BY <2>1, <2>2 DEF TransactionNet
<1> QED BY <1>4, <1>6, <1>7 DEF LedgerInv

\* A step that leaves logs, states and transactions alone.
LEMMA QuietLedger ==
  ASSUME LedgerInv, UNCHANGED <<logVars, trx>>
  PROVE  LedgerInv'
BY DEF LedgerInv, LogTypes, TransactionNet, Effect, LedgerBalanced, LogIsSum, logVars

LEMMA LedgerInitInv == LedgerInit => LedgerInv
<1> SUFFICES ASSUME LedgerInit PROVE LedgerInv
  OBVIOUS
<1>1. LogTypes
  BY VectorTypes, LedgerAssumption DEF LedgerInit, LogTypes
<1>2. TransactionNet
  BY DEF LedgerInit, TransactionNet, Effect, NoTx
<1>3. LedgerBalanced
  BY LedgerAssumption DEF LedgerInit, LedgerBalanced, Grid, NoChange, NoItems
<1>4. LogIsSum
  <2>1. ASSUME NEW v \in Warehouses, NEW p \in Products
        PROVE  logTotal[v][p] = SumFunction([t \in TxIds |-> batchNet[t][v][p]])
    <3> DEFINE f == [t \in TxIds |-> batchNet[t][v][p]]
    <3>1. \A t \in TxIds : f[t] = 0
      BY DEF LedgerInit, NoChange, NoItems
    <3>2. logTotal[v][p] = 0
      BY DEF LedgerInit, NoChange, NoItems
    <3>3. SumFunction(f) = SumFunctionOnSet(f, TxIds)
      BY DEF SumFunction
    <3> HIDE DEF f
    <3>4. SumFunctionOnSet(f, TxIds) = 0
      BY <3>1, SumZero, LedgerAssumption
    <3> QED BY <3>2, <3>3, <3>4 DEF f
  <2> QED BY <2>1 DEF LogIsSum
<1> QED BY <1>1, <1>2, <1>3, <1>4 DEF LedgerInv

\* With the nets in place the stock is the sum over the active transactions.
LEMMA ActiveTransactionsAddUp ==
  ASSUME LedgerInv PROVE StockIsActiveTransactions
<1> SUFFICES ASSUME NEW w \in Warehouses, NEW p \in Products
             PROVE  stock[w][p] = InitStock[w][p]
                       + SumFunction([tx \in TxIds |-> Effect(tx)[w][p]])
  BY DEF StockIsActiveTransactions
<1>1. [tx \in TxIds |-> Effect(tx)[w][p]] = [tx \in TxIds |-> batchNet[tx][w][p]]
  BY DEF LedgerInv, TransactionNet
<1> QED BY <1>1 DEF LedgerInv, LedgerBalanced, LogIsSum

-----------------------------------------------------------------------------
(* Part 2: postings, voidings and the stock                                 *)

PlaceTypes == place \in RackGrid /\ placeNet \in [TxIds -> RackGrid]
BatchTypes == batches \in [TxIds -> [Products -> Nat]]

TypeOKRest ==
    /\ PlaceTypes /\ BatchTypes
    /\ TransactionsTypeOK /\ PlacementsTypeOK
    /\ TransfersTypeOK /\ RestocksTypeOK /\ OpnamesTypeOK

\* The OUT leg a transfer refers to was handed out.
OutExists == \A t \in TransferIds : Issued(t) => trx[transfers[t].out] # NoTx

IInv == TypeOK /\ LedgerInv /\ OutExists

Posts(tx) ==
    /\ trx[tx] = NoTx
    /\ \E w \in Warehouses, type \in Kinds, items \in [Products -> Int] :
          /\ InsertTransaction(tx, w, type, items)
          /\ ProcessStockBatchLog(tx, At(w, Signed(Direction(type), items)))

Voids(tx) ==
    /\ trx[tx] # NoTx
    /\ ReconstructCancel(tx)
    /\ trx' = [trx EXCEPT ![tx].status = "canceled"]

Quiet == UNCHANGED <<logVars, trx>>

Moves == (\E tx \in TxIds : Posts(tx) \/ Voids(tx)) \/ Quiet

-----------------------------------------------------------------------------
(* Types of the rack tables and of the batches                              *)

LEMMA MoveTypes ==
  /\ NoMove \in RackGrid
  /\ \A a, b \in RackGrid : AddMove(a, b) \in RackGrid
  /\ \A a \in RackGrid : NegMove(a) \in RackGrid
  /\ \A w \in Warehouses, take \in [Products -> [Racks -> Int]] :
        AtRacks(w, take) \in RackGrid
<1>1. NoRacks \in [Products -> [Racks -> Int]]
  BY DEF NoRacks
<1>2. NoMove \in RackGrid
  BY <1>1 DEF NoMove, RackGrid
<1>3. ASSUME NEW a \in RackGrid, NEW b \in RackGrid PROVE AddMove(a, b) \in RackGrid
  BY DEF AddMove, RackGrid
<1>4. ASSUME NEW a \in RackGrid PROVE NegMove(a) \in RackGrid
  BY DEF NegMove, RackGrid
<1>5. ASSUME NEW w \in Warehouses, NEW take \in [Products -> [Racks -> Int]]
      PROVE  AtRacks(w, take) \in RackGrid
  BY <1>1 DEF AtRacks, RackGrid
<1> QED BY <1>2, <1>3, <1>4, <1>5

LEMMA RackCountTypes ==
  /\ RackCounts \subseteq [Products -> [Racks -> Int]]
  /\ Requests \subseteq [Products -> Nat] /\ Requests \subseteq [Products -> Int]
BY LedgerAssumption DEF RackCounts, Requests

LEMMA PlacedTypes ==
  ASSUME PlaceTypes, NEW tx \in TxIds, NEW move \in RackGrid,
         ApplyPlacements(tx, move)
  PROVE  PlaceTypes'
<1>1. place' = AddMove(place, move) /\ place' \in RackGrid
  BY MoveTypes DEF ApplyPlacements, PlaceTypes
<1>2. AddMove(placeNet[tx], move) \in RackGrid
  BY MoveTypes DEF PlaceTypes
<1>3. placeNet' = [placeNet EXCEPT ![tx] = AddMove(placeNet[tx], move)]
  BY DEF ApplyPlacements
<1> QED BY <1>1, <1>2, <1>3 DEF PlaceTypes

LEMMA MintedTypes ==
  ASSUME BatchTypes, NEW tx \in TxIds, NEW items \in [Products -> Nat],
         MintBatches(tx, items)
  PROVE  BatchTypes'
BY DEF BatchTypes, MintBatches

LEMMA VoidedTypes ==
  ASSUME BatchTypes, NEW tx \in TxIds, VoidBatches(tx)
  PROVE  BatchTypes'
BY DEF BatchTypes, VoidBatches, NoItems

LEMMA RestoredTypes ==
  ASSUME PlaceTypes, NEW tx \in TxIds
  PROVE  RestoredRacks(tx) \in RackGrid /\ CancelMove(tx) \in RackGrid
<1>1. Histories[tx] \in RackGrid
  BY LedgerAssumption DEF RackGrid
<1>2. RestoredRacks(tx) \in RackGrid
  BY <1>1, MoveTypes DEF RestoredRacks
<1>3. placeNet[tx] \in RackGrid
  BY DEF PlaceTypes
<1>4. NegMove(AddMove(placeNet[tx], RestoredRacks(tx))) \in RackGrid
  BY <1>2, <1>3, MoveTypes
<1> QED BY <1>2, <1>4, MoveTypes DEF CancelMove

-----------------------------------------------------------------------------
(* What the types of a table and a status say of a row                      *)

LEMMA LedgerTypes == TypeOK <=> LogTypes /\ TypeOKRest
BY DEF TypeOK, LedgerTypeOK, LogTypes, TypeOKRest, PlaceTypes, BatchTypes

LEMMA PendingTransfer ==
  ASSUME TransfersTypeOK, NEW t \in TransferIds, transfers[t].status = "pending"
  PROVE  transfers[t] \in Transfer /\ Issued(t)
BY DEF TransfersTypeOK, NoTransfer, Issued

LEMMA EditableRestock ==
  ASSUME RestocksTypeOK, NEW d \in RestockIds, Editable(d)
  PROVE  restocks[d] \in Restock
BY DEF RestocksTypeOK, NoRestock, Editable

LEMMA PendingOpname ==
  ASSUME OpnamesTypeOK, NEW o \in OpnameIds, Pending(o)
  PROVE  opnames[o] \in Opname
BY DEF OpnamesTypeOK, NoOpname, Pending

-----------------------------------------------------------------------------
(* Transactions                                                             *)

LEMMA OrderCreateMoves ==
  ASSUME IInv, NEW w \in Warehouses, NEW items \in Requests, OrderCreate(w, items)
  PROVE  Moves /\ PlaceTypes' /\ BatchTypes' /\ TransactionsTypeOK'
<1>0. PlaceTypes /\ BatchTypes /\ TransactionsTypeOK
  BY LedgerTypes DEF IInv, TypeOKRest
<1>1. PICK tx \in TxIds, picks \in RackCounts :
         /\ trx[tx] = NoTx
         /\ InsertTransaction(tx, w, "order", items)
         /\ ProcessStockBatchLog(tx, At(w, Signed(Direction("order"), items)))
         /\ ApplyPlacements(tx, NegMove(AtRacks(w, picks)))
         /\ UNCHANGED <<batches, picking>>
  BY DEF OrderCreate, IsNextId
<1>2. Moves
  BY <1>1, RackCountTypes DEF Moves, Posts, Kinds
<1>3. NegMove(AtRacks(w, picks)) \in RackGrid
  BY MoveTypes, RackCountTypes
<1>4. PlaceTypes'
  BY <1>0, <1>1, <1>3, PlacedTypes
<1> QED BY <1>0, <1>1, <1>2, <1>4 DEF BatchTypes, TransactionsTypeOK

LEMMA PlainCreateMoves ==
  ASSUME IInv, NEW w \in Warehouses, NEW type \in PlainKinds,
         NEW items \in Requests, PlainCreate(w, type, items)
  PROVE  Moves /\ PlaceTypes' /\ BatchTypes' /\ TransactionsTypeOK'
<1>0. PlaceTypes /\ BatchTypes /\ TransactionsTypeOK
  BY LedgerTypes DEF IInv, TypeOKRest
<1>1. PICK tx \in TxIds :
         /\ trx[tx] = NoTx
         /\ InsertTransaction(tx, w, type, items)
         /\ ProcessStockBatchLog(tx, At(w, Signed(Direction(type), items)))
         /\ IF type \in InboundKinds THEN MintBatches(tx, items) ELSE UNCHANGED batches
         /\ UNCHANGED <<place, placeNet, picking>>
  BY DEF PlainCreate, IsNextId, placeVars
<1>2. type \in Kinds
  BY DEF PlainKinds, InboundKinds, Kinds
<1>3. Moves
  BY <1>1, <1>2, RackCountTypes DEF Moves, Posts
<1>4. BatchTypes'
  <2>1. CASE type \in InboundKinds
    BY <1>0, <1>1, <2>1, MintedTypes, RackCountTypes
  <2>2. CASE type \notin InboundKinds
    BY <1>0, <1>1, <2>2 DEF BatchTypes
  <2> QED BY <2>1, <2>2
<1> QED BY <1>0, <1>1, <1>3, <1>4 DEF PlaceTypes, TransactionsTypeOK

LEMMA TransactionCancelMoves ==
  ASSUME IInv, NEW tx \in TxIds, TransactionCancel(tx)
  PROVE  Moves /\ PlaceTypes' /\ BatchTypes' /\ TransactionsTypeOK'
<1>0. PlaceTypes /\ BatchTypes /\ TransactionsTypeOK
  BY LedgerTypes DEF IInv, TypeOKRest
<1>1. Moves
  BY DEF TransactionCancel, Exists, Moves, Voids
<1>2. PlaceTypes'
  BY <1>0, PlacedTypes, RestoredTypes DEF TransactionCancel
<1>3. BatchTypes'
  BY <1>0, VoidedTypes DEF TransactionCancel
<1> QED BY <1>0, <1>1, <1>2, <1>3 DEF TransactionCancel, TransactionsTypeOK

LEMMA TransactionStepMoves ==
  ASSUME IInv, TransactionStep
  PROVE  Moves /\ TypeOKRest'
<1>0. TypeOKRest
  BY LedgerTypes DEF IInv
<1>1. /\ UNCHANGED <<rackState, transfers, restocks, opnames>>
      /\ TransactionsNext
  BY DEF TransactionStep
<1>2. Moves /\ PlaceTypes' /\ BatchTypes' /\ TransactionsTypeOK'
  <2>1. CASE \E w \in Warehouses, items \in Requests : OrderCreate(w, items)
    BY <2>1, OrderCreateMoves
  <2>2. CASE \E w \in Warehouses, type \in PlainKinds, items \in Requests :
                PlainCreate(w, type, items)
    BY <2>2, PlainCreateMoves
  <2>3. CASE \E tx \in TxIds : TransactionCancel(tx)
    BY <2>3, TransactionCancelMoves
  <2>4. CASE \E w \in Warehouses, p \in Products, policy \in Policies :
                ProductConfigUpdate(w, p, policy)
    <3>1. PICK w \in Warehouses, p \in Products, policy \in Policies :
             ProductConfigUpdate(w, p, policy)
      BY <2>4
    <3>2. UNCHANGED <<logVars, trx, batches, place, placeNet>>
      BY <3>1 DEF ProductConfigUpdate, ledgerVars, placeVars
    <3>3. TransactionsTypeOK'
      BY <1>0, <3>1 DEF ProductConfigUpdate, TransactionsTypeOK, TypeOKRest
    <3> QED BY <1>0, <3>2, <3>3 DEF Moves, Quiet, PlaceTypes, BatchTypes, TypeOKRest
  <2> QED BY <1>1, <2>1, <2>2, <2>3, <2>4 DEF TransactionsNext
<1> QED BY <1>0, <1>1, <1>2 DEF TypeOKRest, PlacementsTypeOK, TransfersTypeOK,
          RestocksTypeOK, OpnamesTypeOK

-----------------------------------------------------------------------------
(* Placements                                                               *)

LEMMA LegTypes ==
  \A m \in MoveItems : Leg(m) \in [Products -> [Racks -> Int]]
BY LedgerAssumption DEF MoveItems, Leg

LEMMA PlacementStepMoves ==
  ASSUME IInv, PlacementStep
  PROVE  Moves /\ TypeOKRest'
<1>0. TypeOKRest /\ place \in RackGrid
  BY LedgerTypes DEF IInv, TypeOKRest, PlaceTypes
<1>1. UNCHANGED <<picking, transfers, restocks, opnames>> /\ PlacementsNext
  BY DEF PlacementStep
<1>2. /\ UNCHANGED <<logVars, trx, batches, placeNet>>
      /\ place' \in RackGrid /\ PlacementsTypeOK'
  <2>1. ASSUME NEW r \in Racks, RackCreate(r) \/ RackDelete(r)
        PROVE  /\ UNCHANGED <<logVars, trx, batches, placeNet, place>>
               /\ PlacementsTypeOK'
    BY <1>0, <2>1 DEF RackCreate, RackDelete, ledgerVars, placeVars,
       PlacementsTypeOK, RackStates, TypeOKRest
  <2>2. ASSUME NEW w \in Warehouses, NEW m \in MoveItems, MoveOne(w, m)
        PROVE  /\ UNCHANGED <<logVars, trx, batches, placeNet, rackState>>
               /\ place' \in RackGrid
    BY <1>0, <2>2, MoveTypes, LegTypes DEF MoveOne
  <2>3. ASSUME NEW w \in Warehouses, NEW m \in MoveItems, NEW n \in MoveItems,
               MoveTwo(w, m, n)
        PROVE  /\ UNCHANGED <<logVars, trx, batches, placeNet, rackState>>
               /\ place' \in RackGrid
    BY <1>0, <2>3, MoveTypes, LegTypes DEF MoveTwo
  <2> QED BY <1>0, <1>1, <2>1, <2>2, <2>3
          DEF PlacementsNext, PlacementMove, PlacementsTypeOK, TypeOKRest
<1> QED BY <1>0, <1>1, <1>2 DEF TypeOKRest, Moves, Quiet, PlaceTypes, BatchTypes,
          TransactionsTypeOK, TransfersTypeOK, RestocksTypeOK, OpnamesTypeOK

-----------------------------------------------------------------------------
(* Transfers                                                                *)

OutExistsNext == (\A tx \in TxIds : trx[tx] # NoTx => trx'[tx] # NoTx) => OutExists'

LEMMA TransferCreateMoves ==
  ASSUME IInv, NEW t \in TransferIds, NEW from \in Warehouses, NEW to \in Warehouses,
         NEW items \in Requests, TransferCreate(t, from, to, items)
  PROVE  /\ Moves /\ PlaceTypes' /\ BatchTypes'
         /\ TransfersTypeOK' /\ rackState' = rackState /\ OutExistsNext
<1>0. PlaceTypes /\ BatchTypes /\ TransfersTypeOK /\ LogTypes
  BY LedgerTypes DEF IInv, TypeOKRest
<1>1. PICK tx \in TxIds :
         /\ trx[tx] = NoTx
         /\ InsertTransaction(tx, from, "transfer_out", items)
         /\ ProcessStockBatchLog(tx, At(from, Signed(Direction("transfer_out"), items)))
         /\ transfers' = [transfers EXCEPT ![t] =
               [from |-> from, to |-> to, items |-> items,
                status |-> "pending", out |-> tx, in |-> {}]]
         /\ UNCHANGED <<place, placeNet, batches, rackState>>
  BY DEF TransferCreate, IsNextId, ApplyTransferLeg, placeVars
<1>2. Moves
  BY <1>1, RackCountTypes DEF Moves, Posts, Kinds
<1> DEFINE new == [from |-> from, to |-> to, items |-> items,
                   status |-> "pending", out |-> tx, in |-> {}]
<1>3. new \in Transfer
  BY RackCountTypes DEF Transfer
<1>4. TransfersTypeOK'
  BY <1>0, <1>1, <1>3 DEF TransfersTypeOK
<1>5. trx'[tx] # NoTx
  BY <1>0, <1>1 DEF InsertTransaction, LogTypes, NoTx
<1>6. OutExistsNext
  <2> SUFFICES ASSUME \A x \in TxIds : trx[x] # NoTx => trx'[x] # NoTx,
                      NEW u \in TransferIds, transfers'[u] # NoTransfer
               PROVE  trx'[transfers'[u].out] # NoTx
    BY DEF OutExistsNext, OutExists, Issued
  <2>1. CASE u = t
    BY <1>0, <1>1, <1>5, <2>1 DEF TransfersTypeOK
  <2>2. CASE u # t
    <3>1. transfers'[u] = transfers[u] /\ Issued(u)
      BY <1>0, <1>1, <2>2 DEF TransfersTypeOK, Issued
    <3>2. transfers[u].out \in TxIds /\ trx[transfers[u].out] # NoTx
      BY <1>0, <3>1 DEF TransfersTypeOK, Transfer, Issued, IInv, OutExists
    <3> QED BY <3>1, <3>2
  <2> QED BY <2>1, <2>2
<1> QED BY <1>0, <1>1, <1>2, <1>4, <1>6 DEF PlaceTypes, BatchTypes

\* A status change of a transfer keeps its OUT leg.
LEMMA OutKept ==
  ASSUME IInv, NEW t \in TransferIds,
         transfers'[t].out = transfers[t].out, Issued(t),
         \A u \in TransferIds \ {t} : transfers'[u] = transfers[u]
  PROVE  OutExistsNext
<1> SUFFICES ASSUME \A x \in TxIds : trx[x] # NoTx => trx'[x] # NoTx,
                    NEW u \in TransferIds, transfers'[u] # NoTransfer
             PROVE  trx'[transfers'[u].out] # NoTx
  BY DEF OutExistsNext, OutExists, Issued
<1>1. Issued(u) /\ transfers'[u].out = transfers[u].out
  BY DEF Issued
<1>2. transfers[u].out \in TxIds /\ trx[transfers[u].out] # NoTx
  BY <1>1, LedgerTypes DEF IInv, TypeOKRest, TransfersTypeOK, Transfer, OutExists, Issued
<1> QED BY <1>1, <1>2

LEMMA TransferAcceptMoves ==
  ASSUME IInv, NEW t \in TransferIds, NEW placed \in RackCounts,
         TransferAccept(t, placed)
  PROVE  /\ Moves /\ PlaceTypes' /\ BatchTypes'
         /\ TransfersTypeOK' /\ rackState' = rackState /\ OutExistsNext
<1>0. PlaceTypes /\ BatchTypes /\ TransfersTypeOK
  BY LedgerTypes DEF IInv, TypeOKRest
<1> DEFINE doc == transfers[t]
<1>1. PICK tx \in TxIds :
         /\ doc.status = "pending" /\ trx[tx] = NoTx
         /\ InsertTransaction(tx, doc.to, "transfer_in", doc.items)
         /\ ProcessStockBatchLog(tx, At(doc.to, Signed(Direction("transfer_in"), doc.items)))
         /\ MintBatches(tx, doc.items)
         /\ ApplyPlacements(tx, AtRacks(doc.to, placed))
         /\ transfers' = [transfers EXCEPT ![t].status = "accepted", ![t].in = {tx}]
         /\ rackState' = rackState
  BY DEF TransferAccept, IsNextId, ApplyTransferLeg
<1>2. doc \in Transfer /\ Issued(t)
  BY <1>0, <1>1, PendingTransfer
<1>3. doc.to \in Warehouses /\ doc.items \in [Products -> Nat]
      /\ doc.items \in [Products -> Int]
  BY <1>2 DEF Transfer
<1>4. transfers' = [transfers EXCEPT ![t] = [doc EXCEPT !.status = "accepted", !.in = {tx}]]
  BY <1>0, <1>1 DEF TransfersTypeOK
<1>5. [doc EXCEPT !.status = "accepted", !.in = {tx}] \in Transfer
  BY <1>2 DEF Transfer
<1>6. TransfersTypeOK' /\ transfers'[t].out = doc.out
  BY <1>0, <1>2, <1>4, <1>5 DEF TransfersTypeOK, Transfer
<1>7. OutExistsNext
  BY <1>0, <1>2, <1>4, <1>6, OutKept DEF TransfersTypeOK
<1> HIDE DEF doc
<1>8. Moves
  BY <1>1, <1>3 DEF Moves, Posts, Kinds
<1>9. AtRacks(doc.to, placed) \in RackGrid
  BY <1>3, MoveTypes, RackCountTypes
<1>10. PlaceTypes' /\ BatchTypes'
  BY <1>0, <1>1, <1>3, <1>9, PlacedTypes, MintedTypes
<1> QED BY <1>1, <1>6, <1>7, <1>8, <1>10

LEMMA TransferCancelMoves ==
  ASSUME IInv, NEW t \in TransferIds, TransferCancel(t)
  PROVE  /\ Moves /\ PlaceTypes' /\ BatchTypes'
         /\ TransfersTypeOK' /\ rackState' = rackState /\ OutExistsNext
<1>0. PlaceTypes /\ BatchTypes /\ TransfersTypeOK
  BY LedgerTypes DEF IInv, TypeOKRest
<1> DEFINE out == transfers[t].out
<1>1. /\ transfers[t].status = "pending"
      /\ ReconstructCancel(out)
      /\ ApplyPlacements(out, RestoredRacks(out))
      /\ trx' = [trx EXCEPT ![out].status = "canceled"]
      /\ transfers' = [transfers EXCEPT ![t].status = "canceled"]
      /\ UNCHANGED <<batches, rackState>>
  BY DEF TransferCancel
<1>2. transfers[t] \in Transfer /\ Issued(t)
  BY <1>0, <1>1, PendingTransfer
<1>3. out \in TxIds /\ trx[out] # NoTx
  BY <1>2 DEF Transfer, IInv, OutExists
<1>4. transfers' = [transfers EXCEPT ![t] = [transfers[t] EXCEPT !.status = "canceled"]]
  BY <1>0, <1>1 DEF TransfersTypeOK
<1>5. [transfers[t] EXCEPT !.status = "canceled"] \in Transfer
  BY <1>2 DEF Transfer
<1>6. TransfersTypeOK' /\ transfers'[t].out = out
  BY <1>0, <1>2, <1>4, <1>5 DEF TransfersTypeOK, Transfer
<1>7. OutExistsNext
  BY <1>0, <1>2, <1>4, <1>6, OutKept DEF TransfersTypeOK
<1> HIDE DEF out
<1>8. Moves
  BY <1>1, <1>3 DEF Moves, Voids
<1>9. PlaceTypes'
  BY <1>0, <1>1, <1>3, PlacedTypes, RestoredTypes
<1> QED BY <1>0, <1>1, <1>6, <1>7, <1>8, <1>9 DEF BatchTypes

LEMMA TransferStepMoves ==
  ASSUME IInv, TransferStep
  PROVE  Moves /\ TypeOKRest' /\ OutExistsNext
<1>0. TypeOKRest
  BY LedgerTypes DEF IInv
<1>1. TransfersNext /\ UNCHANGED <<picking, restocks, opnames>>
  BY DEF TransferStep
<1>2. /\ Moves /\ PlaceTypes' /\ BatchTypes'
      /\ TransfersTypeOK' /\ rackState' = rackState /\ OutExistsNext
  BY <1>1, TransferCreateMoves, TransferAcceptMoves, TransferCancelMoves
     DEF TransfersNext
<1> QED BY <1>0, <1>1, <1>2 DEF TypeOKRest, TransactionsTypeOK, PlacementsTypeOK,
          RestocksTypeOK, OpnamesTypeOK

-----------------------------------------------------------------------------
(* Restocks                                                                 *)

LEMMA EnteringTypes ==
  ASSUME NEW rows \in RowCounts, NEW problem \in [Products -> Nat]
  PROVE  [p \in Products |-> Entering(rows, problem, p)] \in [Products -> Nat]
<1> SUFFICES ASSUME NEW p \in Products PROVE Entering(rows, problem, p) \in Nat
  OBVIOUS
<1> DEFINE f == [i \in Lines |-> Positive(rows[p][i] - problem[p])]
<1>1. \A i \in Lines : f[i] \in Nat
  BY DEF Positive, RowCounts
<1>2. Entering(rows, problem, p) = SumFunctionOnSet(f, Lines)
  BY DEF Entering, SumFunction
<1> HIDE DEF f
<1> QED BY <1>1, <1>2, SumNat, RestocksAssumption

LEMMA RestockAcceptMoves ==
  ASSUME IInv, NEW d \in RestockIds, NEW problem \in [Products -> 0 .. MaxCount],
         NEW placed \in RackCounts, RestockAccept(d, problem, placed)
  PROVE  Moves /\ PlaceTypes' /\ BatchTypes' /\ RestocksTypeOK' /\ rackState' = rackState
<1>0. PlaceTypes /\ BatchTypes /\ RestocksTypeOK
  BY LedgerTypes DEF IInv, TypeOKRest
<1> DEFINE doc == restocks[d]
           items == [p \in Products |-> Entering(doc.rows, problem, p)]
<1>1. PICK tx \in TxIds :
         /\ Editable(d) /\ trx[tx] = NoTx
         /\ InsertTransaction(tx, doc.warehouse, "restock", items)
         /\ ProcessStockBatchLog(tx, At(doc.warehouse, items))
         /\ MintBatches(tx, items)
         /\ ApplyPlacements(tx, AtRacks(doc.warehouse, placed))
         /\ restocks' = [restocks EXCEPT ![d].problem = problem,
                ![d].status = "accepted", ![d].tx = {tx}]
         /\ rackState' = rackState
  BY DEF RestockAccept, IsNextId
<1>2. doc \in Restock
  BY <1>0, <1>1, EditableRestock
<1>3. problem \in [Products -> Nat]
  BY LedgerAssumption
<1>4. doc.warehouse \in Warehouses /\ doc.rows \in RowCounts
  BY <1>2 DEF Restock
<1>5. items \in [Products -> Nat] /\ items \in [Products -> Int]
  BY <1>3, <1>4, EnteringTypes
<1>6. restocks' = [restocks EXCEPT ![d] =
          [doc EXCEPT !.problem = problem, !.status = "accepted", !.tx = {tx}]]
  BY <1>0, <1>1 DEF RestocksTypeOK
<1>7. [doc EXCEPT !.problem = problem, !.status = "accepted", !.tx = {tx}] \in Restock
  BY <1>2, <1>3 DEF Restock
<1>8. RestocksTypeOK'
  BY <1>0, <1>6, <1>7 DEF RestocksTypeOK
<1> HIDE DEF doc, items
<1>9. Signed(Direction("restock"), items) = items
  BY <1>5, SignedOne DEF Direction
<1>10. Moves
  BY <1>1, <1>4, <1>5, <1>9 DEF Moves, Posts, Kinds
<1>11. AtRacks(doc.warehouse, placed) \in RackGrid
  BY <1>4, MoveTypes, RackCountTypes
<1>12. PlaceTypes' /\ BatchTypes'
  BY <1>0, <1>1, <1>5, <1>11, PlacedTypes, MintedTypes
<1> QED BY <1>1, <1>8, <1>10, <1>12

LEMMA RestockStepMoves ==
  ASSUME IInv, RestockStep
  PROVE  Moves /\ TypeOKRest'
<1>0. TypeOKRest /\ RestocksTypeOK
  BY LedgerTypes DEF IInv, TypeOKRest
<1>1. RestocksNext /\ UNCHANGED <<picking, transfers, opnames>>
  BY DEF RestockStep
<1> DEFINE Kept == UNCHANGED <<logVars, trx, batches, place, placeNet, rackState>>
<1>2. Rows \subseteq RowCounts
  BY LedgerAssumption DEF Rows, RowCounts
<1>3. ASSUME NEW d \in RestockIds, NEW w \in Warehouses, NEW rows \in Rows,
             RestockCreate(d, w, rows)
      PROVE  Kept /\ RestocksTypeOK'
  <2>1. [warehouse |-> w, rows |-> rows, problem |-> NoItems,
         status |-> "pending", tx |-> {}] \in Restock
    BY <1>2 DEF Restock, NoItems
  <2> QED BY <1>0, <1>3, <2>1 DEF RestockCreate, RestocksTypeOK, ledgerVars, placeVars
<1>4. ASSUME NEW d \in RestockIds, NEW status \in {"pending", "problem"},
             ChangeStatus(d, status)
      PROVE  Kept /\ RestocksTypeOK'
  <2>1. restocks[d] \in Restock
    BY <1>0, <1>4, EditableRestock DEF ChangeStatus
  <2>2. [restocks[d] EXCEPT !.status = status] \in Restock
    BY <2>1 DEF Restock
  <2> QED BY <1>0, <1>4, <2>2 DEF ChangeStatus, RestocksTypeOK, ledgerVars, placeVars
<1>5. ASSUME NEW d \in RestockIds, NEW rows \in Rows, UpdateItems(d, rows)
      PROVE  Kept /\ RestocksTypeOK'
  <2>1. restocks[d] \in Restock
    BY <1>0, <1>5, EditableRestock DEF UpdateItems
  <2>2. [restocks[d] EXCEPT !.rows = rows, !.problem = NoItems] \in Restock
    BY <1>2, <2>1 DEF Restock, NoItems
  <2>3. restocks' = [restocks EXCEPT ![d] =
           [restocks[d] EXCEPT !.rows = rows, !.problem = NoItems]]
    BY <1>0, <1>5 DEF UpdateItems, RestocksTypeOK
  <2> QED BY <1>0, <1>5, <2>2, <2>3 DEF UpdateItems, RestocksTypeOK, ledgerVars, placeVars
<1>6. ASSUME NEW d \in RestockIds, RestockCancel(d)
      PROVE  Kept /\ RestocksTypeOK'
  <2>1. restocks[d] \in Restock
    BY <1>0, <1>6, EditableRestock DEF RestockCancel
  <2>2. [restocks[d] EXCEPT !.status = "canceled"] \in Restock
    BY <2>1 DEF Restock
  <2> QED BY <1>0, <1>6, <2>2 DEF RestockCancel, RestocksTypeOK, ledgerVars, placeVars
<1>7. CASE Kept /\ RestocksTypeOK'
  BY <1>0, <1>1, <1>7 DEF TypeOKRest, Moves, Quiet, PlaceTypes, BatchTypes,
     TransactionsTypeOK, PlacementsTypeOK, TransfersTypeOK, OpnamesTypeOK
<1>8. ASSUME NEW d \in RestockIds, NEW problem \in [Products -> 0 .. MaxCount],
             NEW placed \in RackCounts, RestockAccept(d, problem, placed)
      PROVE  Moves /\ TypeOKRest'
  BY <1>0, <1>1, <1>8, RestockAcceptMoves DEF TypeOKRest,
     TransactionsTypeOK, PlacementsTypeOK, TransfersTypeOK, OpnamesTypeOK
<1> HIDE DEF Kept
<1> QED BY <1>1, <1>3, <1>4, <1>5, <1>6, <1>7, <1>8 DEF RestocksNext

-----------------------------------------------------------------------------
(* Opnames                                                                  *)

LEMMA DeltasTypes ==
  ASSUME place \in RackGrid, NEW o \in OpnameIds, opnames[o] \in Opname
  PROVE  /\ Deltas(o) \in [Products -> [Racks -> Int]]
         /\ Variance(o) \in [Products -> Int]
<1>1. Deltas(o) \in [Products -> [Racks -> Int]]
  BY DEF Deltas, Opname, CountOf, Uncounted, RackGrid
<1>2. ASSUME NEW p \in Products PROVE SumFunction(Deltas(o)[p]) \in Int
  <2> DEFINE f == Deltas(o)[p]
  <2>1. f \in [Racks -> Int]
    BY <1>1
  <2>2. SumFunction(f) = SumFunctionOnSet(f, Racks)
    BY <2>1 DEF SumFunction
  <2> HIDE DEF f
  <2>3. SumFunctionOnSet(f, Racks) \in Int
    BY <2>1, SumRemove, LedgerAssumption
  <2> QED BY <2>2, <2>3 DEF f
<1>3. Variance(o) \in [Products -> Int]
  BY <1>2 DEF Variance
<1> QED BY <1>1, <1>3

LEMMA OpnameAdjustMoves ==
  ASSUME IInv, NEW o \in OpnameIds, OpnameAdjust(o)
  PROVE  Moves /\ PlaceTypes' /\ BatchTypes' /\ OpnamesTypeOK'
<1>0. PlaceTypes /\ BatchTypes /\ OpnamesTypeOK
  BY LedgerTypes DEF IInv, TypeOKRest
<1> DEFINE w == opnames[o].warehouse
<1>1. PICK tx \in TxIds :
         /\ Pending(o) /\ trx[tx] = NoTx
         /\ InsertTransaction(tx, w, "opname", Variance(o))
         /\ ProcessStockBatchLog(tx, At(w, Variance(o)))
         /\ ApplyPlacements(tx, AtRacks(w, Deltas(o)))
         /\ opnames' = [opnames EXCEPT ![o].status = "completed", ![o].tx = {tx}]
         /\ batches' = batches
  BY DEF OpnameAdjust, IsNextId, CompleteInto
<1>2. opnames[o] \in Opname
  BY <1>0, <1>1, PendingOpname
<1>3. w \in Warehouses
  BY <1>2 DEF Opname
<1>4. /\ Deltas(o) \in [Products -> [Racks -> Int]]
      /\ Variance(o) \in [Products -> Int]
  BY <1>0, <1>2, DeltasTypes DEF PlaceTypes
<1>5. OpnamesTypeOK'
  <2>1. opnames' = [opnames EXCEPT ![o] =
            [opnames[o] EXCEPT !.status = "completed", !.tx = {tx}]]
    BY <1>0, <1>1 DEF OpnamesTypeOK
  <2>2. [opnames[o] EXCEPT !.status = "completed", !.tx = {tx}] \in Opname
    BY <1>2 DEF Opname
  <2> QED BY <1>0, <2>1, <2>2 DEF OpnamesTypeOK
<1> HIDE DEF w
<1>6. Signed(Direction("opname"), Variance(o)) = Variance(o)
  BY <1>4, SignedOne DEF Direction
<1>7. Moves
  BY <1>1, <1>3, <1>4, <1>6 DEF Moves, Posts, Kinds
<1>8. PlaceTypes'
  BY <1>0, <1>1, <1>3, <1>4, PlacedTypes, MoveTypes
<1> QED BY <1>0, <1>1, <1>5, <1>7, <1>8 DEF BatchTypes

LEMMA OpnameStepMoves ==
  ASSUME IInv, OpnameStep
  PROVE  Moves /\ TypeOKRest'
<1>0. TypeOKRest /\ OpnamesTypeOK /\ place \in RackGrid
  BY LedgerTypes DEF IInv, TypeOKRest, PlaceTypes
<1>1. OpnamesNext /\ UNCHANGED <<picking, rackState, transfers, restocks>>
  BY DEF OpnameStep
<1> DEFINE Kept == UNCHANGED <<logVars, trx, batches, place, placeNet>>
           Counts == [Products -> {Uncounted} \cup 0 .. MaxCount]
<1>2. ASSUME NEW o \in OpnameIds, NEW w \in Warehouses, OpnameCreate(o, w)
      PROVE  Kept /\ OpnamesTypeOK'
  <2>1. [warehouse |-> w, status |-> "pending",
         expected |-> [p \in Products |-> [r \in Racks |->
             IF place[w][p][r] > 0 THEN place[w][p][r] ELSE 0]],
         counted |-> [p \in Products |-> [r \in Racks |-> Uncounted]],
         tx |-> {}] \in Opname
    BY <1>0 DEF Opname, CountOf, RackGrid
  <2> QED BY <1>0, <1>2, <2>1 DEF OpnameCreate, OpnamesTypeOK, ledgerVars, placeVars
<1>3. ASSUME NEW o \in OpnameIds, NEW r \in Racks, NEW count \in Counts,
             OpnameLineCount(o, r, count)
      PROVE  Kept /\ OpnamesTypeOK'
  <2> DEFINE old == opnames[o].counted
             new == [p \in Products |-> IF count[p] = Uncounted THEN old[p]
                                        ELSE [old[p] EXCEPT ![r] = count[p]]]
  <2>1. opnames[o] \in Opname
    BY <1>0, <1>3, PendingOpname DEF OpnameLineCount
  <2>2. old \in [Products -> [Racks -> CountOf]]
    BY <2>1 DEF Opname
  <2>3. \A p \in Products : count[p] \in CountOf
    BY LedgerAssumption DEF CountOf, Uncounted
  <2> HIDE DEF old
  <2>4. new \in [Products -> [Racks -> CountOf]]
    BY <2>2, <2>3
  <2>5. opnames' = [opnames EXCEPT ![o] = [opnames[o] EXCEPT !.counted = new]]
    BY <1>0, <1>3, <2>1 DEF OpnameLineCount, OpnamesTypeOK, Opname, old
  <2> HIDE DEF new
  <2>6. [opnames[o] EXCEPT !.counted = new] \in Opname
    BY <2>1, <2>4 DEF Opname
  <2> QED BY <1>0, <1>3, <2>5, <2>6 DEF OpnameLineCount, OpnamesTypeOK, ledgerVars, placeVars
<1>4. ASSUME NEW o \in OpnameIds, OpnameCancel(o)
      PROVE  Kept /\ OpnamesTypeOK'
  <2>1. opnames[o] \in Opname
    BY <1>0, <1>4, PendingOpname DEF OpnameCancel
  <2>2. [opnames[o] EXCEPT !.status = "canceled"] \in Opname
    BY <2>1 DEF Opname
  <2> QED BY <1>0, <1>4, <2>2 DEF OpnameCancel, OpnamesTypeOK, ledgerVars, placeVars
<1>5. ASSUME NEW o \in OpnameIds, OpnameConfirm(o)
      PROVE  Kept /\ OpnamesTypeOK'
  <2>1. opnames[o] \in Opname
    BY <1>0, <1>5, PendingOpname DEF OpnameConfirm
  <2>2. [opnames[o] EXCEPT !.status = "completed", !.tx = {}] \in Opname
    BY <2>1 DEF Opname
  <2>3. opnames' = [opnames EXCEPT ![o] =
           [opnames[o] EXCEPT !.status = "completed", !.tx = {}]]
    BY <1>0, <1>5 DEF OpnameConfirm, CompleteInto, OpnamesTypeOK
  <2> QED BY <1>0, <1>5, <2>2, <2>3 DEF OpnameConfirm, OpnamesTypeOK, ledgerVars, placeVars
<1>6. CASE Kept /\ OpnamesTypeOK'
  BY <1>0, <1>1, <1>6 DEF TypeOKRest, Moves, Quiet, PlaceTypes, BatchTypes,
     TransactionsTypeOK, PlacementsTypeOK, TransfersTypeOK, RestocksTypeOK
<1>7. ASSUME NEW o \in OpnameIds, OpnameAdjust(o)
      PROVE  Moves /\ TypeOKRest'
  BY <1>0, <1>1, <1>7, OpnameAdjustMoves DEF TypeOKRest,
     TransactionsTypeOK, PlacementsTypeOK, TransfersTypeOK, RestocksTypeOK
<1> HIDE DEF Kept
<1>8. OpnamesNext <=>
         \E o \in OpnameIds :
            \/ \E w \in Warehouses : OpnameCreate(o, w)
            \/ \E r \in Racks, count \in Counts :
                  /\ \E p \in Products : count[p] # Uncounted
                  /\ OpnameLineCount(o, r, count)
            \/ OpnameAdjust(o) \/ OpnameConfirm(o)
            \/ OpnameCancel(o)
  BY DEF OpnamesNext, OpnameComplete
<1> HIDE DEF Counts
<1> QED BY <1>1, <1>2, <1>3, <1>4, <1>5, <1>6, <1>7, <1>8

-----------------------------------------------------------------------------
(* The ledger is kept                                                       *)

LEMMA PostKeeps ==
  ASSUME LedgerInv, NEW tx \in TxIds, Posts(tx)
  PROVE  LedgerInv' /\ \A x \in TxIds : trx[x] # NoTx => trx'[x] # NoTx
<1>1. PICK w \in Warehouses, type \in Kinds, items \in [Products -> Int] :
         /\ InsertTransaction(tx, w, type, items)
         /\ ProcessStockBatchLog(tx, At(w, Signed(Direction(type), items)))
  BY DEF Posts
<1>2. LedgerInv'
  BY <1>1, PostStep DEF Posts
<1>3. ASSUME NEW x \in TxIds, trx[x] # NoTx PROVE trx'[x] # NoTx
  BY <1>1, <1>3 DEF InsertTransaction, Posts, LedgerInv, LogTypes
<1> QED BY <1>2, <1>3

LEMMA VoidKeeps ==
  ASSUME LedgerInv, NEW tx \in TxIds, Voids(tx)
  PROVE  LedgerInv' /\ \A x \in TxIds : trx[x] # NoTx => trx'[x] # NoTx
<1>1. LedgerInv'
  BY VoidStep DEF Voids
<1>2. ASSUME NEW x \in TxIds, trx[x] # NoTx PROVE trx'[x] # NoTx
  <2>1. trx[x] \in Transaction
    BY <1>2 DEF LedgerInv, LogTypes
  <2>2. trx'[x] = trx[x] \/ trx'[x] = [trx[x] EXCEPT !.status = "canceled"]
    BY DEF Voids, LedgerInv, LogTypes
  <2>3. [trx[x] EXCEPT !.status = "canceled"].status # "none"
    BY <2>1 DEF Transaction
  <2> QED BY <1>2, <2>2, <2>3 DEF NoTx
<1> QED BY <1>1, <1>2

LEMMA InitIInv == Init => IInv
<1> SUFFICES ASSUME Init PROVE IInv
  OBVIOUS
<1>1. LedgerInv
  BY LedgerInitInv DEF Init
<1>2. TypeOKRest
  <2>1. PlaceTypes
    BY MoveTypes, LedgerAssumption DEF Init, LedgerInit, PlaceTypes
  <2>2. BatchTypes
    BY DEF Init, LedgerInit, BatchTypes, NoItems
  <2>3. TransactionsTypeOK /\ PlacementsTypeOK
    BY DEF Init, TransactionsInit, TransactionsTypeOK, Policies,
       PlacementsInit, PlacementsTypeOK, RackStates
  <2>4. TransfersTypeOK /\ RestocksTypeOK /\ OpnamesTypeOK
    BY DEF Init, TransfersInit, TransfersTypeOK, RestocksInit, RestocksTypeOK,
       OpnamesInit, OpnamesTypeOK
  <2> QED BY <2>1, <2>2, <2>3, <2>4 DEF TypeOKRest
<1>3. OutExists
  BY DEF Init, TransfersInit, OutExists, Issued
<1> QED BY <1>1, <1>2, <1>3, LedgerTypes DEF IInv, LedgerInv

LEMMA StepMoves ==
  ASSUME IInv, Next
  PROVE  Moves /\ TypeOKRest' /\ OutExistsNext
<1>1. CASE TransferStep
  BY <1>1, TransferStepMoves
<1>2. CASE transfers' = transfers
  <2>1. OutExistsNext
    BY <1>2, LedgerTypes DEF OutExistsNext, OutExists, Issued, IInv, TypeOKRest,
       TransfersTypeOK, Transfer
  <2> QED BY <2>1, TransactionStepMoves, PlacementStepMoves, RestockStepMoves,
          OpnameStepMoves, TransferStepMoves DEF Next
<1> QED BY <1>1, <1>2
        DEF Next, TransactionStep, PlacementStep, RestockStep, OpnameStep

LEMMA IInvStep == IInv /\ [Next]_vars => IInv'
<1> SUFFICES ASSUME IInv, [Next]_vars PROVE IInv'
  OBVIOUS
<1>1. CASE Next
  <2>1. Moves /\ TypeOKRest' /\ OutExistsNext
    BY <1>1, StepMoves
  <2>2. LedgerInv' /\ \A x \in TxIds : trx[x] # NoTx => trx'[x] # NoTx
    <3>1. CASE \E tx \in TxIds : Posts(tx)
      BY <3>1, PostKeeps DEF IInv
    <3>2. CASE \E tx \in TxIds : Voids(tx)
      BY <3>2, VoidKeeps DEF IInv
    <3>3. CASE Quiet
      BY <3>3, QuietLedger DEF IInv, Quiet
    <3> QED BY <2>1, <3>1, <3>2, <3>3 DEF Moves
  <2>3. TypeOK'
    BY <2>1, <2>2 DEF TypeOK, LedgerTypeOK, LogTypes, TypeOKRest, PlaceTypes,
       BatchTypes, LedgerInv
  <2>4. OutExists'
    BY <2>1, <2>2 DEF OutExistsNext
  <2> QED BY <2>2, <2>3, <2>4 DEF IInv
<1>2. CASE UNCHANGED vars
  <2>1. LedgerInv'
    BY <1>2, QuietLedger DEF vars, ledgerVars, IInv
  <2>2. TypeOK'
    BY <1>2 DEF vars, ledgerVars, logVars, placeVars, IInv, TypeOK, LedgerTypeOK,
       TransactionsTypeOK, PlacementsTypeOK, TransfersTypeOK, RestocksTypeOK,
       OpnamesTypeOK
  <2>3. OutExists'
    BY <1>2 DEF vars, ledgerVars, IInv, OutExists, Issued
  <2> QED BY <2>1, <2>2, <2>3 DEF IInv
<1> QED BY <1>1, <1>2

\* The inductive invariant of the service: types, the ledger's own facts, and
\* that a transfer refers to a transaction that exists.
THEOREM InventoryInvariant == Spec => []IInv
<1>1. Init => IInv
  BY InitIInv
<1>2. IInv /\ [Next]_vars => IInv'
  BY IInvStep
<1> QED BY <1>1, <1>2, PTL DEF Spec

\* Every table holds what its columns allow, whatever calls are made.
THEOREM TypeCorrect == Spec => []TypeOK
<1>1. IInv => TypeOK
  BY DEF IInv
<1> QED BY <1>1, InventoryInvariant, PTL

\* The batch-log rows of a transaction say what the transaction says, and the
\* stock is the running total of all of them: no engine call, cancel or
\* re-cancel pulls stock_states, stock_batch_logs and inventory_transactions
\* apart.
THEOREM LedgerKept == Spec => [](TransactionNet /\ LedgerBalanced)
<1>1. IInv => TransactionNet /\ LedgerBalanced
  BY DEF IInv, LedgerInv
<1> QED BY <1>1, InventoryInvariant, PTL

\* The on-hand count is the initial count plus the active transactions.
THEOREM StockExplained == Spec => []StockIsActiveTransactions
<1>1. IInv => StockIsActiveTransactions
  BY ActiveTransactionsAddUp DEF IInv
<1> QED BY <1>1, InventoryInvariant, PTL

-----------------------------------------------------------------------------
(* The service implements the book                                          *)

LEMMA BookedSame ==
  ASSUME NEW x \in TxIds, trx'[x] = trx[x]
  PROVE  Booked(x)' = Booked(x)
BY DEF Booked

LEMMA BookKept ==
  ASSUME LedgerInv, NEW tx \in TxIds,
         \A x \in TxIds \ {tx} : trx'[x] = trx[x]
  PROVE  [x \in TxIds |-> Booked(x)]'
            = [[x \in TxIds |-> Booked(x)] EXCEPT ![tx] = Booked(tx)']
<1>1. \A x \in TxIds \ {tx} : Booked(x)' = Booked(x)
  BY BookedSame
<1> QED BY <1>1

\* Rows in one warehouse move the counts of that warehouse by the rows.
LEMMA StockMoved ==
  ASSUME LogTypes, NEW tx \in TxIds, NEW w \in Warehouses,
         NEW items \in [Products -> Int], ProcessStockBatchLog(tx, At(w, items))
  PROVE  stock' = [stock EXCEPT ![w] = [p \in Products |-> stock[w][p] + items[p]]]
<1> DEFINE new == [stock EXCEPT ![w] = [p \in Products |-> stock[w][p] + items[p]]]
<1>1. stock \in Grid /\ stock' \in Grid
  BY LogAt DEF LogTypes
<1>2. new \in Grid
  BY <1>1 DEF Grid
<1>3. ASSUME NEW v \in Warehouses, NEW p \in Products
      PROVE  stock'[v][p] = new[v][p]
  <2>1. stock'[v][p] = stock[v][p] + At(w, items)[v][p]
    BY LogAt
  <2>2. At(w, items)[v][p] = IF v = w THEN items[p] ELSE 0
    BY AtValues
  <2>3. stock[v][p] \in Int
    BY <1>1 DEF Grid
  <2>4. new[v][p] = IF v = w THEN stock[v][p] + items[p] ELSE stock[v][p]
    BY <1>1 DEF Grid
  <2> QED BY <2>1, <2>2, <2>3, <2>4
<1> QED BY <1>1, <1>2, <1>3, GridEq

LEMMA PostIsPost ==
  ASSUME LedgerInv, NEW tx \in TxIds, Posts(tx)
  PROVE  Book!Next
<1>1. PICK w \in Warehouses, type \in Kinds, items \in [Products -> Int] :
         /\ InsertTransaction(tx, w, type, items)
         /\ ProcessStockBatchLog(tx, At(w, Signed(Direction(type), items)))
  BY DEF Posts
<1> DEFINE rows == Signed(Direction(type), items)
           book == [x \in TxIds |-> Booked(x)]
<1>2. rows \in [Products -> Int]
  BY VectorTypes
<1>3. trx[tx] = NoTx /\ trx \in [TxIds -> Transaction \cup {NoTx}]
  BY DEF Posts, LedgerInv, LogTypes
<1>4. /\ trx'[tx] = [warehouse |-> w, type |-> type, status |-> "active", items |-> items]
      /\ \A x \in TxIds \ {tx} : trx'[x] = trx[x]
  BY <1>1, <1>3 DEF InsertTransaction
<1>5. Booked(tx) = Book!Unused
  BY <1>3 DEF Booked, NoTx, Book!Unused
<1>6. Booked(tx)' = [state |-> "posted", at |-> w, amount |-> rows]
  BY <1>4 DEF Booked
<1> HIDE DEF rows
<1>7. Booked(tx)' \in Book!Posting
  BY <1>2, <1>6 DEF Book!Posting
<1>8. stock' = [stock EXCEPT ![w] = [p \in Products |-> stock[w][p] + rows[p]]]
  BY <1>1, <1>2, StockMoved DEF rows, LedgerInv
<1>9. stock' = [stock EXCEPT ![w] = [p \in Products |-> stock[w][p] + 1 * rows[p]]]
  <2>1. \A p \in Products : 1 * rows[p] = rows[p]
    BY <1>2
  <2> QED BY <1>8, <2>1
<1>10. stock' = Book!Moved(Booked(tx)', 1)
  BY <1>6, <1>9 DEF Book!Moved
<1>11. book' = [book EXCEPT ![tx] = Booked(tx)']
  BY <1>4, BookKept
<1> QED BY <1>5, <1>7, <1>10, <1>11 DEF Book!Next, Book!Post

LEMMA VoidIsVoid ==
  ASSUME LedgerInv, NEW tx \in TxIds, Voids(tx)
  PROVE  Book!Next \/ UNCHANGED <<stock, [x \in TxIds |-> Booked(x)]>>
<1> DEFINE book == [x \in TxIds |-> Booked(x)]
<1>1. /\ trx[tx] \in Transaction /\ trx \in [TxIds -> Transaction \cup {NoTx}]
      /\ trx' = [trx EXCEPT ![tx].status = "canceled"]
  BY DEF Voids, LedgerInv, LogTypes
<1>2. PICK w \in Warehouses, items \in [Products -> Int] :
         /\ Neg(batchNet[tx]) = At(w, items)
         /\ trx[tx].status = "canceled" => items = NoItems
         /\ trx[tx].status = "active" =>
               w = trx[tx].warehouse
               /\ items = Signed(-1, Signed(Direction(trx[tx].type), trx[tx].items))
  BY ReversalRows DEF Voids
<1>3. stock' = [stock EXCEPT ![w] = [p \in Products |-> stock[w][p] + items[p]]]
  BY <1>2, StockMoved DEF Voids, ReconstructCancel, LedgerInv
<1>4. /\ trx'[tx].status = "canceled"
      /\ \A x \in TxIds \ {tx} : trx'[x] = trx[x]
  BY <1>1 DEF Transaction
<1>5. Booked(tx)' = Book!Voided
  BY <1>4 DEF Booked, Book!Voided
<1>6. book' = [book EXCEPT ![tx] = Book!Voided]
  BY <1>4, <1>5, BookKept
<1>7. stock \in Grid
  BY DEF LedgerInv, LogTypes
<1>8. CASE trx[tx].status = "canceled"
  <2>1. Booked(tx) = Book!Voided
    BY <1>8 DEF Booked, Book!Voided
  <2>2. book' = book
    BY <1>6, <2>1
  <2>3. \A p \in Products : stock[w][p] + items[p] = stock[w][p]
    <3>1. \A p \in Products : items[p] = 0 /\ stock[w][p] \in Int
      BY <1>2, <1>7, <1>8 DEF NoItems, Grid
    <3> QED BY <3>1
  <2>4. stock' = stock
    BY <1>3, <1>7, <2>3 DEF Grid
  <2> QED BY <2>2, <2>4
<1>9. CASE trx[tx].status = "active"
  <2> DEFINE rows == Signed(Direction(trx[tx].type), trx[tx].items)
  <2>1. Booked(tx) = [state |-> "posted", at |-> w, amount |-> rows]
    BY <1>2, <1>9 DEF Booked
  <2>2. rows \in [Products -> Int]
    BY <1>1, VectorTypes DEF Transaction
  <2>3. items = Signed(-1, rows)
    BY <1>2, <1>9
  <2> HIDE DEF rows
  <2>4. \A p \in Products : items[p] = (-1) * rows[p]
    BY <2>3 DEF Signed
  <2>5. stock' = [stock EXCEPT ![w] = [p \in Products |-> stock[w][p] + (-1) * rows[p]]]
    BY <1>3, <2>4
  <2>6. stock' = Book!Moved(Booked(tx), -1)
    BY <2>1, <2>5 DEF Book!Moved
  <2>7. Booked(tx) \in Book!Posting
    BY <2>1, <2>2 DEF Book!Posting
  <2> QED BY <1>6, <2>6, <2>7 DEF Book!Next, Book!Void
<1> QED BY <1>1, <1>8, <1>9 DEF Transaction

\* Every call, of whichever component, posts one transaction once, voids one
\* once, or leaves every count alone: the five components together implement
\* the book.
THEOREM InventoryImplementsBook == Spec => ImplementsBook
<1>1. Init => Book!Init
  BY DEF Init, LedgerInit, Book!Init, Booked, NoTx, Book!Unused
<1>2. IInv /\ [Next]_vars => [Book!Next]_<<stock, [tx \in TxIds |-> Booked(tx)]>>
  <2> SUFFICES ASSUME IInv, [Next]_vars
               PROVE  Book!Next \/ UNCHANGED <<stock, [tx \in TxIds |-> Booked(tx)]>>
    OBVIOUS
  <2>1. CASE Next
    <3>1. CASE \E tx \in TxIds : Posts(tx)
      BY <3>1, PostIsPost DEF IInv
    <3>2. CASE \E tx \in TxIds : Voids(tx)
      BY <3>2, VoidIsVoid DEF IInv
    <3>3. CASE Quiet
      BY <3>3 DEF Quiet, logVars, Booked
    <3> QED BY <2>1, <3>1, <3>2, <3>3, StepMoves DEF Moves
  <2>2. CASE UNCHANGED vars
    BY <2>2 DEF vars, ledgerVars, logVars, Booked
  <2> QED BY <2>1, <2>2
<1> QED BY <1>1, <1>2, InventoryInvariant, PTL DEF Spec, ImplementsBook, Book!Spec

-----------------------------------------------------------------------------
(* Part 3: documents, racks and batches                                     *)

-----------------------------------------------------------------------------
(* Transactions once inserted keep all but their status                     *)

RowsKept ==
    \A x \in TxIds : trx[x] # NoTx =>
        /\ trx'[x] # NoTx
        /\ trx'[x].type = trx[x].type /\ trx'[x].warehouse = trx[x].warehouse
        /\ trx'[x].items = trx[x].items

LEMMA MovesKeepRows ==
  ASSUME IInv, Moves
  PROVE  RowsKept
<1>1. trx \in [TxIds -> Transaction \cup {NoTx}]
  BY DEF IInv, LedgerInv, LogTypes
<1>2. ASSUME NEW tx \in TxIds, Posts(tx), NEW x \in TxIds, trx[x] # NoTx
      PROVE  trx'[x] = trx[x]
  BY <1>1, <1>2 DEF Posts, InsertTransaction
<1>3. ASSUME NEW tx \in TxIds, Voids(tx), NEW x \in TxIds, trx[x] # NoTx
      PROVE  /\ trx'[x] # NoTx
             /\ trx'[x].type = trx[x].type /\ trx'[x].warehouse = trx[x].warehouse
             /\ trx'[x].items = trx[x].items
  <2>1. trx[x] \in Transaction
    BY <1>1, <1>3
  <2>2. trx'[x] = trx[x] \/ trx'[x] = [trx[x] EXCEPT !.status = "canceled"]
    BY <1>1, <1>3 DEF Voids
  <2>3. [trx[x] EXCEPT !.status = "canceled"].status # "none"
    BY <2>1 DEF Transaction
  <2> QED BY <1>3, <2>1, <2>2, <2>3 DEF Transaction, NoTx
<1>4. CASE Quiet
  BY <1>4 DEF Quiet, RowsKept
<1> QED BY <1>2, <1>3, <1>4 DEF Moves, RowsKept

LEMMA StepKeepsRows ==
  ASSUME IInv, Next
  PROVE  RowsKept
BY StepMoves, MovesKeepRows

-----------------------------------------------------------------------------
(* Documents refer to the transactions that say what they say               *)

LegsOf(t) == {transfers[t].out} \cup transfers[t].in

TransferLinked(t) ==
    /\ trx[transfers[t].out] # NoTx
    /\ trx[transfers[t].out].type = "transfer_out"
    /\ trx[transfers[t].out].warehouse = transfers[t].from
    /\ trx[transfers[t].out].items = transfers[t].items
    /\ transfers[t].in # {} <=> transfers[t].status = "accepted"
    /\ \A i \in transfers[t].in : /\ trx[i] # NoTx
                                  /\ trx[i].type = "transfer_in"
                                  /\ trx[i].warehouse = transfers[t].to
                                  /\ trx[i].items = transfers[t].items
    /\ \A i, j \in transfers[t].in : i = j

RestockLinked(d) ==
    /\ restocks[d].tx # {} <=> restocks[d].status = "accepted"
    /\ \A i \in restocks[d].tx : /\ trx[i] # NoTx
                                 /\ trx[i].type = "restock"
                                 /\ trx[i].warehouse = restocks[d].warehouse

TransfersLinked ==
    /\ \A t \in TransferIds : Issued(t) => TransferLinked(t)
    /\ \A t, u \in TransferIds : Issued(t) /\ Issued(u) /\ t # u =>
          LegsOf(t) \cap LegsOf(u) = {}

RestocksLinked ==
    /\ \A d \in RestockIds : restocks[d] # NoRestock => RestockLinked(d)
    /\ \A d, e \in RestockIds :
          restocks[d] # NoRestock /\ restocks[e] # NoRestock /\ d # e =>
              restocks[d].tx \cap restocks[e].tx = {}

LinksInv == TransfersLinked /\ RestocksLinked

Unused == {x \in TxIds : trx[x] = NoTx}

LEMMA TransferTypes ==
  ASSUME IInv, NEW t \in TransferIds, Issued(t)
  PROVE  /\ transfers[t] \in Transfer
         /\ transfers[t].out \in TxIds /\ transfers[t].in \subseteq TxIds
         /\ LegsOf(t) \subseteq TxIds
         /\ transfers[t].from \in Warehouses /\ transfers[t].to \in Warehouses
         /\ transfers[t].items \in [Products -> Nat]
         /\ transfers[t].status \in {"pending", "accepted", "canceled"}
BY LedgerTypes DEF IInv, TypeOKRest, TransfersTypeOK, Issued, Transfer, LegsOf

LEMMA RestockTypes ==
  ASSUME IInv, NEW d \in RestockIds, restocks[d] # NoRestock
  PROVE  restocks[d] \in Restock /\ restocks[d].tx \subseteq TxIds
BY LedgerTypes DEF IInv, TypeOKRest, RestocksTypeOK, Restock

\* A document nobody edits stays linked: its transactions keep what they say.
LEMMA TransferStaysLinked ==
  ASSUME IInv, RowsKept, NEW t \in TransferIds, Issued(t), TransferLinked(t),
         transfers'[t] = transfers[t]
  PROVE  TransferLinked(t)'
<1>1. transfers[t].out \in TxIds /\ transfers[t].in \subseteq TxIds
  BY TransferTypes
<1> QED BY <1>1 DEF TransferLinked, RowsKept

LEMMA RestockStaysLinked ==
  ASSUME IInv, RowsKept, NEW d \in RestockIds, restocks[d] # NoRestock,
         RestockLinked(d), restocks'[d] = restocks[d]
  PROVE  RestockLinked(d)'
<1>1. restocks[d].tx \subseteq TxIds
  BY RestockTypes
<1> QED BY <1>1 DEF RestockLinked, RowsKept

\* One transfer is edited and gains at most a leg nobody had before.
LEMMA OneTransferEdited ==
  ASSUME IInv, RowsKept, TransfersLinked, NEW t \in TransferIds,
         \A u \in TransferIds \ {t} : transfers'[u] = transfers[u],
         TransferLinked(t)',
         LegsOf(t)' \subseteq Unused \cup (IF Issued(t) THEN LegsOf(t) ELSE {})
  PROVE  TransfersLinked'
<1>1. ASSUME NEW u \in TransferIds, u # t, Issued(u)'
      PROVE  Issued(u) /\ LegsOf(u)' = LegsOf(u) /\ TransferLinked(u)'
  BY <1>1, TransferStaysLinked DEF Issued, LegsOf, TransfersLinked
<1>2. ASSUME NEW u \in TransferIds, Issued(u)
      PROVE  LegsOf(u) \cap Unused = {}
  BY <1>2 DEF TransfersLinked, TransferLinked, LegsOf, Unused
<1>3. ASSUME NEW u \in TransferIds, u # t, Issued(u)'
      PROVE  LegsOf(t)' \cap LegsOf(u)' = {}
  <2>1. Issued(u) /\ LegsOf(u)' = LegsOf(u)
    BY <1>1, <1>3
  <2>2. Issued(t) => LegsOf(t) \cap LegsOf(u) = {}
    BY <1>3, <2>1 DEF TransfersLinked
  <2> QED BY <1>2, <2>1, <2>2
<1>4. \A u \in TransferIds : Issued(u)' => TransferLinked(u)'
  BY <1>1
<1>5. ASSUME NEW u \in TransferIds, NEW v \in TransferIds, Issued(u)', Issued(v)', u # v
      PROVE  LegsOf(u)' \cap LegsOf(v)' = {}
  <2>1. CASE u = t
    BY <1>3, <1>5, <2>1
  <2>2. CASE v = t
    BY <1>3, <1>5, <2>2
  <2>3. CASE u # t /\ v # t
    BY <1>1, <1>5, <2>3 DEF TransfersLinked
  <2> QED BY <2>1, <2>2, <2>3
<1> QED BY <1>4, <1>5 DEF TransfersLinked

LEMMA OneRestockEdited ==
  ASSUME IInv, RowsKept, RestocksLinked, NEW d \in RestockIds,
         \A e \in RestockIds \ {d} : restocks'[e] = restocks[e],
         RestockLinked(d)',
         restocks'[d].tx \subseteq
             Unused \cup (IF restocks[d] # NoRestock THEN restocks[d].tx ELSE {})
  PROVE  RestocksLinked'
<1>1. ASSUME NEW e \in RestockIds, e # d, restocks'[e] # NoRestock
      PROVE  restocks[e] # NoRestock /\ restocks'[e].tx = restocks[e].tx /\ RestockLinked(e)'
  BY <1>1, RestockStaysLinked DEF RestocksLinked
<1>2. ASSUME NEW e \in RestockIds, restocks[e] # NoRestock
      PROVE  restocks[e].tx \cap Unused = {}
  BY <1>2 DEF RestocksLinked, RestockLinked, Unused
<1>3. ASSUME NEW e \in RestockIds, e # d, restocks'[e] # NoRestock
      PROVE  restocks'[d].tx \cap restocks'[e].tx = {}
  <2>1. restocks[e] # NoRestock /\ restocks'[e].tx = restocks[e].tx
    BY <1>1, <1>3
  <2>2. restocks[d] # NoRestock => restocks[d].tx \cap restocks[e].tx = {}
    BY <1>3, <2>1 DEF RestocksLinked
  <2> QED BY <1>2, <2>1, <2>2
<1>4. \A e \in RestockIds : restocks'[e] # NoRestock => RestockLinked(e)'
  BY <1>1
<1>5. ASSUME NEW e \in RestockIds, NEW f \in RestockIds,
             restocks'[e] # NoRestock, restocks'[f] # NoRestock, e # f
      PROVE  restocks'[e].tx \cap restocks'[f].tx = {}
  <2>1. CASE e = d
    BY <1>3, <1>5, <2>1
  <2>2. CASE f = d
    BY <1>3, <1>5, <2>2
  <2>3. CASE e # d /\ f # d
    BY <1>1, <1>5, <2>3 DEF RestocksLinked
  <2> QED BY <2>1, <2>2, <2>3
<1> QED BY <1>4, <1>5 DEF RestocksLinked

\* Nobody edits a transfer (a restock).
LEMMA NoTransferEdited ==
  ASSUME IInv, RowsKept, TransfersLinked, transfers' = transfers
  PROVE  TransfersLinked'
BY TransferStaysLinked DEF TransfersLinked, Issued, LegsOf

LEMMA NoRestockEdited ==
  ASSUME IInv, RowsKept, RestocksLinked, restocks' = restocks
  PROVE  RestocksLinked'
BY RestockStaysLinked DEF RestocksLinked

LEMMA TransferCreateLinks ==
  ASSUME IInv, RowsKept, TransfersLinked, NEW t \in TransferIds,
         NEW from \in Warehouses, NEW to \in Warehouses, NEW items \in Requests,
         TransferCreate(t, from, to, items)
  PROVE  TransfersLinked'
<1>1. PICK tx \in TxIds :
         /\ transfers[t] = NoTransfer /\ trx[tx] = NoTx
         /\ InsertTransaction(tx, from, "transfer_out", items)
         /\ transfers' = [transfers EXCEPT ![t] =
               [from |-> from, to |-> to, items |-> items,
                status |-> "pending", out |-> tx, in |-> {}]]
  BY DEF TransferCreate, IsNextTransfer, IsNextId, ApplyTransferLeg
<1>2. /\ transfers \in [TransferIds -> Transfer \cup {NoTransfer}]
      /\ trx \in [TxIds -> Transaction \cup {NoTx}]
  BY LedgerTypes DEF IInv, TypeOKRest, TransfersTypeOK, LogTypes
<1>3. trx'[tx] = [warehouse |-> from, type |-> "transfer_out",
                  status |-> "active", items |-> items]
  BY <1>1, <1>2 DEF InsertTransaction
<1>4. /\ transfers'[t] = [from |-> from, to |-> to, items |-> items,
                          status |-> "pending", out |-> tx, in |-> {}]
      /\ \A u \in TransferIds \ {t} : transfers'[u] = transfers[u]
  BY <1>1, <1>2
<1>5. TransferLinked(t)'
  BY <1>3, <1>4 DEF TransferLinked, NoTx
<1>6. LegsOf(t)' \subseteq Unused
  BY <1>1, <1>4 DEF LegsOf, Unused
<1> QED BY <1>4, <1>5, <1>6, OneTransferEdited

LEMMA TransferAcceptLinks ==
  ASSUME IInv, RowsKept, TransfersLinked, NEW t \in TransferIds,
         NEW placed \in RackCounts, TransferAccept(t, placed)
  PROVE  TransfersLinked'
<1> DEFINE doc == transfers[t]
<1>1. PICK tx \in TxIds :
         /\ doc.status = "pending" /\ trx[tx] = NoTx
         /\ InsertTransaction(tx, doc.to, "transfer_in", doc.items)
         /\ transfers' = [transfers EXCEPT ![t].status = "accepted", ![t].in = {tx}]
  BY DEF TransferAccept, IsNextId, ApplyTransferLeg
<1>2. /\ transfers \in [TransferIds -> Transfer \cup {NoTransfer}]
      /\ trx \in [TxIds -> Transaction \cup {NoTx}]
  BY LedgerTypes DEF IInv, TypeOKRest, TransfersTypeOK, LogTypes
<1>3. Issued(t) /\ doc \in Transfer /\ TransferLinked(t) /\ doc.out \in TxIds
  BY <1>1, <1>2, PendingTransfer, TransferTypes DEF TransfersLinked, TransfersTypeOK
<1>4. /\ transfers'[t] = [doc EXCEPT !.status = "accepted", !.in = {tx}]
      /\ \A u \in TransferIds \ {t} : transfers'[u] = transfers[u]
  BY <1>1, <1>2
<1>5. /\ transfers'[t].out = doc.out /\ transfers'[t].from = doc.from
      /\ transfers'[t].to = doc.to /\ transfers'[t].items = doc.items
      /\ transfers'[t].status = "accepted" /\ transfers'[t].in = {tx}
  BY <1>3, <1>4 DEF Transfer
<1>6. trx'[tx] = [warehouse |-> doc.to, type |-> "transfer_in",
                  status |-> "active", items |-> doc.items]
  BY <1>1, <1>2 DEF InsertTransaction
<1>7. /\ trx[doc.out] # NoTx /\ trx[doc.out].type = "transfer_out"
      /\ trx[doc.out].warehouse = doc.from /\ trx[doc.out].items = doc.items
  BY <1>3 DEF TransferLinked
<1> HIDE DEF doc
<1>8. /\ trx'[doc.out] # NoTx /\ trx'[doc.out].type = "transfer_out"
      /\ trx'[doc.out].warehouse = doc.from /\ trx'[doc.out].items = doc.items
  BY <1>3, <1>7 DEF RowsKept
<1>9. TransferLinked(t)'
  BY <1>5, <1>6, <1>8 DEF TransferLinked, NoTx
<1>10. LegsOf(t)' \subseteq Unused \cup LegsOf(t)
  BY <1>1, <1>5 DEF LegsOf, Unused, doc
<1> QED BY <1>3, <1>4, <1>9, <1>10, OneTransferEdited

LEMMA TransferCancelLinks ==
  ASSUME IInv, RowsKept, TransfersLinked, NEW t \in TransferIds, TransferCancel(t)
  PROVE  TransfersLinked'
<1> DEFINE doc == transfers[t]
<1>1. doc.status = "pending" /\ transfers' = [transfers EXCEPT ![t].status = "canceled"]
  BY DEF TransferCancel
<1>2. transfers \in [TransferIds -> Transfer \cup {NoTransfer}]
  BY LedgerTypes DEF IInv, TypeOKRest, TransfersTypeOK
<1>3. Issued(t) /\ doc \in Transfer /\ TransferLinked(t) /\ doc.out \in TxIds
  BY <1>1, <1>2, PendingTransfer, TransferTypes DEF TransfersLinked, TransfersTypeOK
<1>4. /\ transfers'[t] = [doc EXCEPT !.status = "canceled"]
      /\ \A u \in TransferIds \ {t} : transfers'[u] = transfers[u]
  BY <1>1, <1>2
<1>5. /\ transfers'[t].out = doc.out /\ transfers'[t].from = doc.from
      /\ transfers'[t].to = doc.to /\ transfers'[t].items = doc.items
      /\ transfers'[t].status = "canceled" /\ transfers'[t].in = doc.in
  BY <1>3, <1>4 DEF Transfer
<1>6. /\ trx[doc.out] # NoTx /\ trx[doc.out].type = "transfer_out"
      /\ trx[doc.out].warehouse = doc.from /\ trx[doc.out].items = doc.items
      /\ doc.in = {}
  BY <1>1, <1>3 DEF TransferLinked
<1> HIDE DEF doc
<1>7. /\ trx'[doc.out] # NoTx /\ trx'[doc.out].type = "transfer_out"
      /\ trx'[doc.out].warehouse = doc.from /\ trx'[doc.out].items = doc.items
  BY <1>3, <1>6 DEF RowsKept
<1>8. TransferLinked(t)'
  BY <1>5, <1>6, <1>7 DEF TransferLinked
<1>9. LegsOf(t)' = LegsOf(t)
  BY <1>5 DEF LegsOf, doc
<1> QED BY <1>3, <1>4, <1>8, <1>9, OneTransferEdited

LEMMA RestockAcceptLinks ==
  ASSUME IInv, RowsKept, RestocksLinked, NEW d \in RestockIds,
         NEW problem \in [Products -> 0 .. MaxCount], NEW placed \in RackCounts,
         RestockAccept(d, problem, placed)
  PROVE  RestocksLinked'
<1> DEFINE doc == restocks[d]
           items == [p \in Products |-> Entering(doc.rows, problem, p)]
<1>1. PICK tx \in TxIds :
         /\ Editable(d) /\ trx[tx] = NoTx
         /\ InsertTransaction(tx, doc.warehouse, "restock", items)
         /\ restocks' = [restocks EXCEPT ![d].problem = problem,
                ![d].status = "accepted", ![d].tx = {tx}]
  BY DEF RestockAccept, IsNextId
<1>2. /\ restocks \in [RestockIds -> Restock \cup {NoRestock}]
      /\ trx \in [TxIds -> Transaction \cup {NoTx}]
  BY LedgerTypes DEF IInv, TypeOKRest, RestocksTypeOK, LogTypes
<1>3. doc \in Restock
  BY <1>1, <1>2, EditableRestock DEF RestocksTypeOK
<1>4. /\ restocks'[d] = [doc EXCEPT !.problem = problem, !.status = "accepted", !.tx = {tx}]
      /\ \A e \in RestockIds \ {d} : restocks'[e] = restocks[e]
  BY <1>1, <1>2
<1> HIDE DEF items
<1>5. trx'[tx] = [warehouse |-> doc.warehouse, type |-> "restock",
                  status |-> "active", items |-> items]
  BY <1>1, <1>2 DEF InsertTransaction
<1>6. /\ restocks'[d].warehouse = doc.warehouse
      /\ restocks'[d].status = "accepted" /\ restocks'[d].tx = {tx}
  BY <1>3, <1>4 DEF Restock
<1> HIDE DEF doc
<1>7. RestockLinked(d)'
  BY <1>5, <1>6 DEF RestockLinked, NoTx
<1>8. restocks'[d].tx \subseteq Unused
  BY <1>1, <1>6 DEF Unused
<1> QED BY <1>4, <1>7, <1>8, OneRestockEdited

\* The other actions on a restock leave it without a transaction.
RestockEdit(d) ==
    \/ \E w \in Warehouses, rows \in Rows : RestockCreate(d, w, rows)
    \/ \E status \in {"pending", "problem"} : ChangeStatus(d, status)
    \/ \E rows \in Rows : UpdateItems(d, rows)
    \/ RestockCancel(d)

LEMMA EditedWithoutTx ==
  ASSUME IInv, RestocksLinked, NEW d \in RestockIds, RestockEdit(d)
  PROVE  /\ restocks'[d].tx = {} /\ restocks'[d].status # "accepted"
         /\ \A e \in RestockIds \ {d} : restocks'[e] = restocks[e]
<1>1. restocks \in [RestockIds -> Restock \cup {NoRestock}]
  BY LedgerTypes DEF IInv, TypeOKRest, RestocksTypeOK
<1>2. \A e \in RestockIds \ {d} : restocks'[e] = restocks[e]
  BY <1>1 DEF RestockEdit, RestockCreate, ChangeStatus, UpdateItems, RestockCancel
<1>3. CASE \E w \in Warehouses, rows \in Rows : RestockCreate(d, w, rows)
  BY <1>1, <1>2, <1>3 DEF RestockCreate
<1>4. CASE Editable(d)
  <2>1. restocks[d] \in Restock /\ restocks[d] # NoRestock
    BY <1>1, <1>4, EditableRestock DEF RestocksTypeOK, Restock, NoRestock, Editable
  <2>2. restocks[d].tx = {}
    BY <1>4, <2>1 DEF RestocksLinked, RestockLinked, Editable
  <2>3. CASE \E status \in {"pending", "problem"} : ChangeStatus(d, status)
    BY <1>1, <1>2, <2>1, <2>2, <2>3 DEF ChangeStatus, Restock
  <2>4. CASE \E rows \in Rows : UpdateItems(d, rows)
    <3>1. PICK rows \in Rows : restocks' = [restocks EXCEPT ![d].rows = rows,
                                                          ![d].problem = NoItems]
      BY <2>4 DEF UpdateItems
    <3>2. restocks'[d] = [restocks[d] EXCEPT !.rows = rows, !.problem = NoItems]
      BY <1>1, <3>1
    <3>3. restocks'[d].tx = restocks[d].tx /\ restocks'[d].status = restocks[d].status
      BY <2>1, <3>2 DEF Restock
    <3> QED BY <1>2, <1>4, <2>2, <3>3 DEF Editable
  <2>5. CASE RestockCancel(d)
    BY <1>1, <1>2, <2>1, <2>2, <2>5 DEF RestockCancel, Restock
  <2> QED BY <1>3, <2>3, <2>4, <2>5 DEF RestockEdit
<1> QED BY <1>3, <1>4 DEF RestockEdit, ChangeStatus, UpdateItems, RestockCancel

LEMMA RestockEditLinks ==
  ASSUME IInv, RowsKept, RestocksLinked, NEW d \in RestockIds, RestockEdit(d)
  PROVE  RestocksLinked'
<1>1. RestockLinked(d)' /\ restocks'[d].tx \subseteq Unused
  BY EditedWithoutTx DEF RestockLinked
<1> QED BY <1>1, EditedWithoutTx, OneRestockEdited

LEMMA LinksStep == IInv /\ LinksInv /\ [Next]_vars => LinksInv'
<1> SUFFICES ASSUME IInv, LinksInv, [Next]_vars PROVE LinksInv'
  OBVIOUS
<1>1. CASE Next
  <2>1. RowsKept
    BY <1>1, StepKeepsRows
  <2>2. CASE TransferStep
    <3>1. TransfersNext /\ restocks' = restocks
      BY <2>2 DEF TransferStep
    <3>2. TransfersLinked'
      BY <2>1, <3>1, TransferCreateLinks, TransferAcceptLinks, TransferCancelLinks
         DEF TransfersNext, LinksInv
    <3> QED BY <2>1, <3>1, <3>2, NoRestockEdited DEF LinksInv
  <2>3. CASE RestockStep
    <3>1. RestocksNext /\ transfers' = transfers
      BY <2>3 DEF RestockStep
    <3>2. RestocksLinked'
      BY <2>1, <3>1, RestockAcceptLinks, RestockEditLinks
         DEF RestocksNext, RestockEdit, LinksInv
    <3> QED BY <2>1, <3>1, <3>2, NoTransferEdited DEF LinksInv
  <2>4. CASE transfers' = transfers /\ restocks' = restocks
    BY <2>1, <2>4, NoTransferEdited, NoRestockEdited DEF LinksInv
  <2> QED BY <1>1, <2>2, <2>3, <2>4
          DEF Next, TransactionStep, PlacementStep, OpnameStep
<1>2. CASE UNCHANGED vars
  <2>1. RowsKept /\ transfers' = transfers /\ restocks' = restocks
    BY <1>2 DEF vars, ledgerVars, RowsKept
  <2> QED BY <2>1, NoTransferEdited, NoRestockEdited DEF LinksInv
<1> QED BY <1>1, <1>2

LEMMA LinksHold == Spec => []LinksInv
<1>1. Init => LinksInv
  BY DEF Init, TransfersInit, RestocksInit, LinksInv, TransfersLinked, RestocksLinked,
     Issued
<1>2. IInv /\ LinksInv /\ [Next]_vars => LinksInv'
  BY LinksStep
<1> QED BY <1>1, <1>2, InventoryInvariant, PTL DEF Spec

\* No transaction serves two documents, and each leg says what its document
\* says: whatever calls come in between, an accept never links a transaction
\* that another document has, and no cancel rewrites a leg.
THEOREM DocumentsLinked == Spec => []DocumentLinks
<1>1. LinksInv => DocumentLinks
  <2> SUFFICES ASSUME LinksInv PROVE DocumentLinks
    OBVIOUS
  <2>1. \A t \in TransferIds : Issued(t) => TransferLinked(t)
    BY DEF LinksInv, TransfersLinked
  <2>2. \A d \in RestockIds : restocks[d] # NoRestock => RestockLinked(d)
    BY DEF LinksInv, RestocksLinked
  <2>3. \A t, u \in TransferIds : Issued(t) /\ Issued(u) /\ t # u =>
          (transfers[t].in \cup {transfers[t].out})
              \cap (transfers[u].in \cup {transfers[u].out}) = {}
    BY DEF LinksInv, TransfersLinked, LegsOf
  <2>4. \A d, e \in RestockIds :
          restocks[d] # NoRestock /\ restocks[e] # NoRestock /\ d # e =>
              restocks[d].tx \cap restocks[e].tx = {}
    BY DEF LinksInv, RestocksLinked
  <2> QED BY <2>1, <2>2, <2>3, <2>4 DEF DocumentLinks, TransferLinked, RestockLinked
<1> QED BY <1>1, LinksHold, PTL

-----------------------------------------------------------------------------
(* Arithmetic of racks                                                      *)

LEMMA Finite ==
  /\ IsFiniteSet(Racks) /\ IsFiniteSet(TxIds) /\ IsFiniteSet(Warehouses)
  /\ IsFiniteSet(Lines) /\ IsFiniteSet(TransferIds)
BY LedgerAssumption, RestocksAssumption, TransfersAssumption

LEMMA RackGridEq ==
  ASSUME NEW a \in RackGrid, NEW b \in RackGrid,
         \A w \in Warehouses, p \in Products, r \in Racks : a[w][p][r] = b[w][p][r]
  PROVE  a = b
<1>1. ASSUME NEW w \in Warehouses PROVE a[w] = b[w]
  <2>1. a[w] \in [Products -> [Racks -> Int]] /\ b[w] \in [Products -> [Racks -> Int]]
    BY DEF RackGrid
  <2>2. ASSUME NEW p \in Products PROVE a[w][p] = b[w][p]
    <3>1. a[w][p] \in [Racks -> Int] /\ b[w][p] \in [Racks -> Int]
      BY <2>1
    <3> QED BY <3>1
  <2> QED BY <2>1, <2>2
<1>2. a \in [Warehouses -> [Products -> [Racks -> Int]]]
      /\ b \in [Warehouses -> [Products -> [Racks -> Int]]]
  BY DEF RackGrid
<1> QED BY <1>1, <1>2

LEMMA AddValues ==
  ASSUME NEW a, NEW b, NEW w \in Warehouses, NEW p \in Products, NEW r \in Racks
  PROVE  AddMove(a, b)[w][p][r] = a[w][p][r] + b[w][p][r] /\ NoMove[w][p][r] = 0
BY DEF AddMove, NoMove, NoRacks

LEMMA NegValue ==
  ASSUME NEW a, NEW w \in Warehouses, NEW p \in Products, NEW r \in Racks
  PROVE  NegMove(a)[w][p][r] = -a[w][p][r]
BY DEF NegMove

LEMMA AddNothing ==
  ASSUME NEW a \in RackGrid
  PROVE  AddMove(a, NoMove) = a /\ AddMove(NoMove, a) = a
<1>1. AddMove(a, NoMove) \in RackGrid /\ AddMove(NoMove, a) \in RackGrid
  BY MoveTypes
<1>2. ASSUME NEW w \in Warehouses, NEW p \in Products, NEW r \in Racks
      PROVE  /\ AddMove(a, NoMove)[w][p][r] = a[w][p][r]
             /\ AddMove(NoMove, a)[w][p][r] = a[w][p][r]
  <2>1. a[w][p][r] \in Int
    BY DEF RackGrid
  <2> QED BY <2>1, AddValues
<1> QED BY <1>1, <1>2, RackGridEq

\* A cancel undoes what the transaction's racks net to.
LEMMA CancelUndoes ==
  ASSUME PlaceTypes, NEW tx \in TxIds
  PROVE  AddMove(placeNet[tx], CancelMove(tx)) = NoMove
<1> DEFINE a == placeNet[tx]
           b == RestoredRacks(tx)
<1>1. a \in RackGrid /\ b \in RackGrid /\ CancelMove(tx) \in RackGrid
  BY RestoredTypes DEF PlaceTypes
<1>2. CancelMove(tx) = AddMove(b, NegMove(AddMove(a, b)))
  BY DEF CancelMove
<1> HIDE DEF a, b
<1>3. AddMove(a, CancelMove(tx)) \in RackGrid /\ NoMove \in RackGrid
  BY <1>1, MoveTypes
<1>4. ASSUME NEW w \in Warehouses, NEW p \in Products, NEW r \in Racks
      PROVE  AddMove(a, CancelMove(tx))[w][p][r] = NoMove[w][p][r]
  <2>1. a[w][p][r] \in Int /\ b[w][p][r] \in Int
    BY <1>1 DEF RackGrid
  <2> DEFINE c == AddMove(a, b)
             d == NegMove(c)
  <2>0. c[w][p][r] = a[w][p][r] + b[w][p][r]
    BY AddValues
  <2> HIDE DEF c
  <2>4. d[w][p][r] = -c[w][p][r]
    BY NegValue
  <2>2. CancelMove(tx)[w][p][r] = b[w][p][r] + d[w][p][r]
    <3>1. CancelMove(tx) = AddMove(b, d)
      BY <1>2 DEF c
    <3> HIDE DEF d
    <3> QED BY <3>1, AddValues
  <2>3. AddMove(a, CancelMove(tx))[w][p][r] = a[w][p][r] + CancelMove(tx)[w][p][r]
    BY AddValues
  <2> QED BY <2>0, <2>1, <2>2, <2>3, <2>4, AddValues
<1>5. AddMove(a, CancelMove(tx)) = NoMove
  BY <1>3, <1>4, RackGridEq
<1> QED BY <1>5 DEF a

LEMMA RackSumOf ==
  ASSUME NEW a \in RackGrid, NEW w \in Warehouses, NEW p \in Products
  PROVE  /\ a[w][p] \in [Racks -> Int]
         /\ RackSum(a, w, p) = SumFunctionOnSet(a[w][p], Racks)
         /\ RackSum(a, w, p) \in Int
<1>1. a[w][p] \in [Racks -> Int]
  BY DEF RackGrid
<1>2. RackSum(a, w, p) = SumFunctionOnSet(a[w][p], Racks)
  BY <1>1 DEF RackSum, SumFunction
<1>3. SumFunctionOnSet(a[w][p], Racks) \in Int
  BY <1>1, SumRemove, Finite
<1> QED BY <1>1, <1>2, <1>3

LEMMA RackSumAdds ==
  ASSUME NEW a \in RackGrid, NEW b \in RackGrid,
         NEW w \in Warehouses, NEW p \in Products
  PROVE  RackSum(AddMove(a, b), w, p) = RackSum(a, w, p) + RackSum(b, w, p)
<1> DEFINE f == a[w][p]
           g == b[w][p]
           h == AddMove(a, b)[w][p]
<1>1. AddMove(a, b) \in RackGrid
  BY MoveTypes
<1>2. \A r \in Racks : f[r] \in Int /\ g[r] \in Int
  BY RackSumOf
<1>3. \A r \in Racks : h[r] = f[r] + g[r]
  BY AddValues
<1>4. /\ RackSum(a, w, p) = SumFunctionOnSet(f, Racks)
      /\ RackSum(b, w, p) = SumFunctionOnSet(g, Racks)
      /\ RackSum(AddMove(a, b), w, p) = SumFunctionOnSet(h, Racks)
  BY <1>1, RackSumOf
<1> HIDE DEF f, g, h
<1> QED BY <1>2, <1>3, <1>4, SumAdd, Finite

LEMMA RackSumOfNothing ==
  ASSUME NEW w \in Warehouses, NEW p \in Products
  PROVE  RackSum(NoMove, w, p) = 0
<1> DEFINE f == NoMove[w][p]
<1>1. RackSum(NoMove, w, p) = SumFunctionOnSet(f, Racks)
  BY MoveTypes, RackSumOf
<1>2. \A r \in Racks : f[r] = 0
  BY AddValues
<1> HIDE DEF f
<1> QED BY <1>1, <1>2, SumZero, Finite

\* A rack-to-rack leg keeps the total of every product.
LEMMA LegKeepsSum ==
  ASSUME NEW v \in Warehouses, NEW m \in MoveItems,
         NEW w \in Warehouses, NEW p \in Products
  PROVE  RackSum(AtRacks(v, Leg(m)), w, p) = 0
<1>1. AtRacks(v, Leg(m)) \in RackGrid
  BY LegTypes, MoveTypes
<1>2. CASE w = v /\ p = m.product
  <2> DEFINE f == AtRacks(v, Leg(m))[w][p]
             g == [r \in Racks |-> IF r = m.to THEN m.count ELSE 0]
             none == NoRacks[p]
  <2>1. m.count \in Int /\ m.from \in Racks /\ m.to \in Racks /\ m.from # m.to
    BY LedgerAssumption DEF MoveItems
  <2>2. \A r \in Racks : f[r] = IF r = m.to THEN m.count
                                ELSE IF r = m.from THEN -m.count ELSE 0
    BY <1>2, <2>1 DEF AtRacks, Leg
  <2>3. RackSum(AtRacks(v, Leg(m)), w, p) = SumFunctionOnSet(f, Racks)
    BY <1>1, RackSumOf
  <2>4. \A r \in Racks : none[r] = 0
    BY DEF NoRacks
  <2> HIDE DEF f, none
  <2>5. SumFunctionOnSet(none, Racks) = 0
    BY <2>4, SumZero, Finite
  <2>6. \A r \in Racks : g[r] = IF r = m.to THEN m.count ELSE 0
    OBVIOUS
  <2> HIDE DEF g
  <2>7. SumFunctionOnSet(g, Racks) = SumFunctionOnSet(none, Racks) + (g[m.to] - none[m.to])
    <3>1. \A r \in Racks \ {m.to} : none[r] = g[r]
      BY <2>4, <2>6
    <3>2. \A r \in Racks : none[r] \in Int /\ g[r] \in Int
      BY <2>1, <2>4, <2>6
    <3> QED BY <2>1, <3>1, <3>2, SumChange, Finite
  <2>8. SumFunctionOnSet(f, Racks) = SumFunctionOnSet(g, Racks) + (f[m.from] - g[m.from])
    <3>1. \A r \in Racks \ {m.from} : g[r] = f[r]
      BY <2>2, <2>6
    <3>2. \A r \in Racks : g[r] \in Int /\ f[r] \in Int
      BY <2>1, <2>2, <2>6
    <3> QED BY <2>1, <3>1, <3>2, SumChange, Finite
  <2>9. /\ none[m.to] = 0 /\ g[m.to] = m.count
        /\ g[m.from] = 0 /\ f[m.from] = -m.count
    BY <2>1, <2>2, <2>4, <2>6
  <2> QED BY <1>1, <2>1, <2>3, <2>5, <2>7, <2>8, <2>9
<1>3. CASE ~(w = v /\ p = m.product)
  <2> DEFINE f == AtRacks(v, Leg(m))[w][p]
  <2>1. \A r \in Racks : f[r] = 0
    BY <1>3 DEF AtRacks, Leg, NoRacks
  <2>2. RackSum(AtRacks(v, Leg(m)), w, p) = SumFunctionOnSet(f, Racks)
    BY <1>1, RackSumOf
  <2> HIDE DEF f
  <2> QED BY <1>1, <2>1, <2>2, SumZero, Finite
<1> QED BY <1>1, <1>2, <1>3

-----------------------------------------------------------------------------
(* What a step does to racks and batches: it enters one transaction, leaves *)
(* one canceled, or shuffles goods between racks                            *)

Minted == InboundKinds \cup {"transfer_in"}

Enters(tx, move) ==
    /\ trx[tx] = NoTx
    /\ \E w \in Warehouses, type \in Kinds, items \in [Products -> Int] :
          /\ InsertTransaction(tx, w, type, items)
          /\ IF type \in Minted
             THEN items \in [Products -> Nat] /\ MintBatches(tx, items)
             ELSE batches' = batches
          /\ type = "transfer_out" => move = NoMove
    /\ ApplyPlacements(tx, move)

Leaves(tx, move) ==
    /\ trx[tx] # NoTx
    /\ trx' = [trx EXCEPT ![tx].status = "canceled"]
    /\ ApplyPlacements(tx, move)
    /\ \/ /\ trx[tx].status = "active"
          /\ move = CancelMove(tx) /\ VoidBatches(tx)
       \/ /\ trx[tx].type = "transfer_out"
          /\ move = RestoredRacks(tx) /\ batches' = batches

Shuffles ==
    /\ UNCHANGED <<trx, batches, placeNet>>
    /\ place' \in RackGrid
    /\ \A w \in Warehouses, p \in Products : RackSum(place', w, p) = RackSum(place, w, p)

Shapes == \/ \E tx \in TxIds, move \in RackGrid : Enters(tx, move) \/ Leaves(tx, move)
          \/ Shuffles

\* A step that touches no rack moves nothing.
LEMMA UntouchedRacks ==
  ASSUME PlaceTypes, NEW tx \in TxIds, UNCHANGED <<place, placeNet>>
  PROVE  ApplyPlacements(tx, NoMove)
<1>1. place \in RackGrid /\ placeNet[tx] \in RackGrid
  BY DEF PlaceTypes
<1>2. AddMove(place, NoMove) = place /\ AddMove(placeNet[tx], NoMove) = placeNet[tx]
  BY <1>1, AddNothing
<1>3. placeNet = [placeNet EXCEPT ![tx] = placeNet[tx]]
  BY DEF PlaceTypes
<1> QED BY <1>2, <1>3 DEF ApplyPlacements

LEMMA UntouchedShuffles ==
  ASSUME PlaceTypes, UNCHANGED <<trx, batches, placeNet, place>>
  PROVE  Shuffles
BY DEF Shuffles, PlaceTypes

LEMMA TransactionStepShapes ==
  ASSUME IInv, TransactionStep
  PROVE  Shapes
<1>0. PlaceTypes
  BY LedgerTypes DEF IInv, TypeOKRest
<1>1. ASSUME NEW w \in Warehouses, NEW items \in Requests, OrderCreate(w, items)
      PROVE  Shapes
  <2>1. PICK tx \in TxIds, picks \in RackCounts :
           /\ trx[tx] = NoTx
           /\ InsertTransaction(tx, w, "order", items)
           /\ ApplyPlacements(tx, NegMove(AtRacks(w, picks)))
           /\ batches' = batches
    BY <1>1 DEF OrderCreate, IsNextId
  <2>2. NegMove(AtRacks(w, picks)) \in RackGrid
    BY MoveTypes, RackCountTypes
  <2>3. "order" \in Kinds /\ "order" \notin Minted /\ items \in [Products -> Int]
    BY RackCountTypes DEF Kinds, Minted, InboundKinds
  <2> QED BY <2>1, <2>2, <2>3 DEF Shapes, Enters
<1>2. ASSUME NEW w \in Warehouses, NEW type \in PlainKinds, NEW items \in Requests,
             PlainCreate(w, type, items)
      PROVE  Shapes
  <2>1. PICK tx \in TxIds :
           /\ trx[tx] = NoTx
           /\ InsertTransaction(tx, w, type, items)
           /\ IF type \in InboundKinds THEN MintBatches(tx, items) ELSE UNCHANGED batches
           /\ UNCHANGED <<place, placeNet>>
    BY <1>2 DEF PlainCreate, IsNextId, placeVars
  <2>2. ApplyPlacements(tx, NoMove) /\ NoMove \in RackGrid
    BY <1>0, <2>1, UntouchedRacks, MoveTypes
  <2>3. /\ type \in Kinds /\ (type \in Minted <=> type \in InboundKinds)
        /\ items \in [Products -> Int] /\ items \in [Products -> Nat]
    BY RackCountTypes DEF Kinds, Minted, InboundKinds, PlainKinds
  <2> QED BY <2>1, <2>2, <2>3 DEF Shapes, Enters
<1>3. ASSUME NEW tx \in TxIds, TransactionCancel(tx)
      PROVE  Shapes
  <2>1. CancelMove(tx) \in RackGrid
    BY <1>0, RestoredTypes
  <2> QED BY <1>3, <2>1 DEF Shapes, Leaves, TransactionCancel, Exists
<1>4. ASSUME NEW w \in Warehouses, NEW p \in Products, NEW policy \in Policies,
             ProductConfigUpdate(w, p, policy)
      PROVE  Shapes
  BY <1>0, <1>4, UntouchedShuffles DEF Shapes, ProductConfigUpdate, ledgerVars, placeVars
<1> QED BY <1>1, <1>2, <1>3, <1>4 DEF TransactionStep, TransactionsNext

LEMMA PlacementStepShapes ==
  ASSUME IInv, PlacementStep
  PROVE  Shapes
<1>0. PlaceTypes /\ place \in RackGrid
  BY LedgerTypes DEF IInv, TypeOKRest, PlaceTypes
<1>1. ASSUME NEW r \in Racks, RackCreate(r) \/ RackDelete(r)
      PROVE  Shapes
  BY <1>0, <1>1, UntouchedShuffles
     DEF Shapes, RackCreate, RackDelete, ledgerVars, placeVars
<1>2. ASSUME NEW w \in Warehouses, NEW m \in MoveItems, MoveOne(w, m)
      PROVE  Shapes
  <2> DEFINE a == AtRacks(w, Leg(m))
  <2>1. a \in RackGrid /\ \A v \in Warehouses, p \in Products : RackSum(a, v, p) = 0
    BY LegKeepsSum, LegTypes, MoveTypes
  <2>2. place' = AddMove(place, a) /\ UNCHANGED <<placeNet, trx, batches>>
    BY <1>2 DEF MoveOne
  <2> HIDE DEF a
  <2>3. place' \in RackGrid
    BY <1>0, <2>1, <2>2, MoveTypes
  <2>4. ASSUME NEW v \in Warehouses, NEW p \in Products
        PROVE  RackSum(place', v, p) = RackSum(place, v, p)
    BY <1>0, <2>1, <2>2, RackSumAdds, RackSumOf
  <2> QED BY <2>2, <2>3, <2>4 DEF Shapes, Shuffles
<1>3. ASSUME NEW w \in Warehouses, NEW m \in MoveItems, NEW n \in MoveItems,
             MoveTwo(w, m, n)
      PROVE  Shapes
  <2> DEFINE a == AtRacks(w, Leg(m))
             b == AtRacks(w, Leg(n))
             mid == AddMove(place, a)
  <2>1. /\ a \in RackGrid /\ \A v \in Warehouses, p \in Products : RackSum(a, v, p) = 0
        /\ b \in RackGrid /\ \A v \in Warehouses, p \in Products : RackSum(b, v, p) = 0
    BY LegKeepsSum, LegTypes, MoveTypes
  <2>2. place' = AddMove(mid, b) /\ UNCHANGED <<placeNet, trx, batches>>
    BY <1>3 DEF MoveTwo
  <2> HIDE DEF a, b
  <2>3. mid \in RackGrid
    BY <1>0, <2>1, MoveTypes
  <2>4. \A v \in Warehouses, p \in Products : RackSum(mid, v, p) = RackSum(place, v, p)
    BY <1>0, <2>1, RackSumAdds, RackSumOf
  <2> HIDE DEF mid
  <2>5. place' \in RackGrid
    BY <2>1, <2>2, <2>3, MoveTypes
  <2>6. ASSUME NEW v \in Warehouses, NEW p \in Products
        PROVE  RackSum(place', v, p) = RackSum(place, v, p)
    BY <2>1, <2>2, <2>3, <2>4, RackSumAdds, RackSumOf
  <2> QED BY <2>2, <2>5, <2>6 DEF Shapes, Shuffles
<1> QED BY <1>1, <1>2, <1>3 DEF PlacementStep, PlacementsNext, PlacementMove

LEMMA TransferStepShapes ==
  ASSUME IInv, LinksInv, TransferStep
  PROVE  Shapes
<1>0. PlaceTypes /\ TransfersTypeOK
  BY LedgerTypes DEF IInv, TypeOKRest
<1>1. ASSUME NEW t \in TransferIds, NEW from \in Warehouses, NEW to \in Warehouses,
             NEW items \in Requests, TransferCreate(t, from, to, items)
      PROVE  Shapes
  <2>1. PICK tx \in TxIds :
           /\ trx[tx] = NoTx
           /\ InsertTransaction(tx, from, "transfer_out", items)
           /\ UNCHANGED <<place, placeNet, batches>>
    BY <1>1 DEF TransferCreate, IsNextId, ApplyTransferLeg, placeVars
  <2>2. ApplyPlacements(tx, NoMove) /\ NoMove \in RackGrid
    BY <1>0, <2>1, UntouchedRacks, MoveTypes
  <2>3. /\ "transfer_out" \in Kinds /\ "transfer_out" \notin Minted
        /\ items \in [Products -> Int]
    BY RackCountTypes DEF Kinds, Minted, InboundKinds
  <2> QED BY <2>1, <2>2, <2>3 DEF Shapes, Enters
<1>2. ASSUME NEW t \in TransferIds, NEW placed \in RackCounts, TransferAccept(t, placed)
      PROVE  Shapes
  <2> DEFINE to == transfers[t].to
             items == transfers[t].items
  <2>1. PICK tx \in TxIds :
           /\ trx[tx] = NoTx
           /\ InsertTransaction(tx, to, "transfer_in", items)
           /\ MintBatches(tx, items)
           /\ ApplyPlacements(tx, AtRacks(to, placed))
    BY <1>2 DEF TransferAccept, IsNextId, ApplyTransferLeg
  <2>2. to \in Warehouses /\ items \in [Products -> Nat] /\ items \in [Products -> Int]
    BY <1>0, <1>2, PendingTransfer DEF TransferAccept, Transfer
  <2>3. "transfer_in" \in Kinds /\ "transfer_in" \in Minted
    BY DEF Kinds, Minted
  <2> HIDE DEF to, items
  <2>4. AtRacks(to, placed) \in RackGrid
    BY <2>2, MoveTypes, RackCountTypes
  <2> QED BY <2>1, <2>2, <2>3, <2>4 DEF Shapes, Enters
<1>3. ASSUME NEW t \in TransferIds, TransferCancel(t)
      PROVE  Shapes
  <2> DEFINE out == transfers[t].out
  <2>1. /\ transfers[t].status = "pending"
        /\ ApplyPlacements(out, RestoredRacks(out))
        /\ trx' = [trx EXCEPT ![out].status = "canceled"]
        /\ batches' = batches
    BY <1>3 DEF TransferCancel
  <2>2. Issued(t) /\ out \in TxIds /\ trx[out] # NoTx /\ trx[out].type = "transfer_out"
    BY <1>0, <2>1, PendingTransfer, TransferTypes
       DEF LinksInv, TransfersLinked, TransferLinked
  <2> HIDE DEF out
  <2>3. RestoredRacks(out) \in RackGrid
    BY <1>0, <2>2, RestoredTypes
  <2> QED BY <2>1, <2>2, <2>3 DEF Shapes, Leaves
<1> QED BY <1>1, <1>2, <1>3 DEF TransferStep, TransfersNext

LEMMA RestockStepShapes ==
  ASSUME IInv, RestockStep
  PROVE  Shapes
<1>0. PlaceTypes /\ RestocksTypeOK
  BY LedgerTypes DEF IInv, TypeOKRest
<1>1. ASSUME NEW d \in RestockIds, NEW problem \in [Products -> 0 .. MaxCount],
             NEW placed \in RackCounts, RestockAccept(d, problem, placed)
      PROVE  Shapes
  <2> DEFINE w == restocks[d].warehouse
             items == [p \in Products |-> Entering(restocks[d].rows, problem, p)]
  <2>1. PICK tx \in TxIds :
           /\ Editable(d) /\ trx[tx] = NoTx
           /\ InsertTransaction(tx, w, "restock", items)
           /\ MintBatches(tx, items)
           /\ ApplyPlacements(tx, AtRacks(w, placed))
    BY <1>1 DEF RestockAccept, IsNextId
  <2>2. w \in Warehouses /\ restocks[d].rows \in RowCounts
    BY <1>0, <2>1, EditableRestock DEF Restock
  <2>3. problem \in [Products -> Nat]
    BY LedgerAssumption
  <2>4. items \in [Products -> Nat] /\ items \in [Products -> Int]
    BY <2>2, <2>3, EnteringTypes
  <2>5. "restock" \in Kinds /\ "restock" \in Minted
    BY DEF Kinds, Minted, InboundKinds
  <2> HIDE DEF w, items
  <2>6. AtRacks(w, placed) \in RackGrid
    BY <2>2, MoveTypes, RackCountTypes
  <2> QED BY <2>1, <2>2, <2>4, <2>5, <2>6 DEF Shapes, Enters
<1>2. ASSUME UNCHANGED ledgerVars
      PROVE  Shapes
  BY <1>0, <1>2, UntouchedShuffles DEF Shapes, ledgerVars, placeVars
<1> QED BY <1>1, <1>2 DEF RestockStep, RestocksNext, RestockCreate, ChangeStatus,
        UpdateItems, RestockCancel

LEMMA OpnameStepShapes ==
  ASSUME IInv, OpnameStep
  PROVE  Shapes
<1>0. PlaceTypes /\ OpnamesTypeOK /\ place \in RackGrid
  BY LedgerTypes DEF IInv, TypeOKRest, PlaceTypes
<1>1. ASSUME NEW o \in OpnameIds, OpnameAdjust(o)
      PROVE  Shapes
  <2> DEFINE w == opnames[o].warehouse
  <2>1. PICK tx \in TxIds :
           /\ Pending(o) /\ trx[tx] = NoTx
           /\ InsertTransaction(tx, w, "opname", Variance(o))
           /\ ApplyPlacements(tx, AtRacks(w, Deltas(o)))
           /\ batches' = batches
    BY <1>1 DEF OpnameAdjust, IsNextId
  <2>2. opnames[o] \in Opname /\ w \in Warehouses
    BY <1>0, <2>1, PendingOpname DEF Opname
  <2>3. /\ Deltas(o) \in [Products -> [Racks -> Int]]
        /\ Variance(o) \in [Products -> Int]
    BY <1>0, <2>2, DeltasTypes
  <2>4. "opname" \in Kinds /\ "opname" \notin Minted
    BY DEF Kinds, Minted, InboundKinds
  <2> HIDE DEF w
  <2>5. AtRacks(w, Deltas(o)) \in RackGrid
    BY <2>2, <2>3, MoveTypes
  <2> QED BY <2>1, <2>2, <2>3, <2>4, <2>5 DEF Shapes, Enters
<1>2. ASSUME UNCHANGED ledgerVars
      PROVE  Shapes
  BY <1>0, <1>2, UntouchedShuffles DEF Shapes, ledgerVars, placeVars
<1> QED BY <1>1, <1>2 DEF OpnameStep, OpnamesNext, OpnameCreate, OpnameLineCount,
        OpnameComplete, OpnameConfirm, OpnameCancel

LEMMA StepShapes ==
  ASSUME IInv, LinksInv, [Next]_vars
  PROVE  Shapes
<1>1. CASE Next
  BY <1>1, TransactionStepShapes, PlacementStepShapes, TransferStepShapes,
     RestockStepShapes, OpnameStepShapes DEF Next
<1>2. CASE UNCHANGED vars
  <2>1. PlaceTypes
    BY LedgerTypes DEF IInv, TypeOKRest
  <2> QED BY <1>2, <2>1, UntouchedShuffles DEF vars, ledgerVars, placeVars, Shapes
<1> QED BY <1>1, <1>2

-----------------------------------------------------------------------------
(* Racks and batches say what the transactions say                          *)

LEMMA PlacedRows ==
  ASSUME PlaceTypes, NEW tx \in TxIds, NEW move, ApplyPlacements(tx, move)
  PROVE  /\ place' = AddMove(place, move)
         /\ placeNet'[tx] = AddMove(placeNet[tx], move)
         /\ \A x \in TxIds \ {tx} : placeNet'[x] = placeNet[x]
BY DEF PlaceTypes, ApplyPlacements

LEMMA EnteredRow ==
  ASSUME IInv, NEW tx \in TxIds, NEW w, NEW type, NEW items,
         InsertTransaction(tx, w, type, items)
  PROVE  /\ trx'[tx] = [warehouse |-> w, type |-> type, status |-> "active", items |-> items]
         /\ trx'[tx].status = "active" /\ trx'[tx] # NoTx
         /\ \A x \in TxIds \ {tx} : trx'[x] = trx[x]
BY LedgerTypes DEF IInv, LogTypes, InsertTransaction, NoTx

LEMMA LeftRow ==
  ASSUME IInv, NEW tx \in TxIds, trx[tx] # NoTx,
         trx' = [trx EXCEPT ![tx].status = "canceled"]
  PROVE  /\ trx'[tx].status = "canceled" /\ trx'[tx] # NoTx
         /\ trx'[tx].type = trx[tx].type /\ trx'[tx].warehouse = trx[tx].warehouse
         /\ trx'[tx].items = trx[tx].items
         /\ trx[tx].status = "canceled" => trx'[tx] = trx[tx]
         /\ trx[tx].status \in {"active", "canceled"}
         /\ \A x \in TxIds \ {tx} : trx'[x] = trx[x]
<1>1. trx \in [TxIds -> Transaction \cup {NoTx}] /\ trx[tx] \in Transaction
  BY LedgerTypes DEF IInv, LogTypes
<1>2. trx'[tx] = [trx[tx] EXCEPT !.status = "canceled"]
  BY <1>1
<1>3. trx'[tx].status = "canceled"
  BY <1>1, <1>2 DEF Transaction
<1> QED BY <1>1, <1>2, <1>3 DEF Transaction, NoTx

\* A canceled transaction has nothing left to reverse.
LEMMA NothingLeft ==
  ASSUME IInv, NEW tx \in TxIds, trx[tx].status = "canceled"
  PROVE  batchNet[tx] = NoChange /\ RestoredRacks(tx) = NoMove
<1>1. batchNet[tx] = Effect(tx)
  BY DEF IInv, LedgerInv, TransactionNet
<1>2. Effect(tx) = NoChange
  BY DEF Effect
<1> QED BY <1>1, <1>2 DEF RestoredRacks

LEMMA ExplainedInit == Init => RacksExplained
<1> SUFFICES ASSUME Init, NEW w \in Warehouses, NEW p \in Products
             PROVE  RackSum(place, w, p) = RackSum(InitPlace, w, p)
                       + SumFunction([tx \in TxIds |-> RackSum(placeNet[tx], w, p)])
  BY DEF RacksExplained
<1> DEFINE f == [tx \in TxIds |-> RackSum(placeNet[tx], w, p)]
<1>1. place = InitPlace /\ \A tx \in TxIds : placeNet[tx] = NoMove
  BY DEF Init, LedgerInit
<1>2. \A tx \in TxIds : f[tx] = 0
  BY <1>1, RackSumOfNothing
<1>3. SumFunction(f) = SumFunctionOnSet(f, TxIds)
  BY DEF SumFunction
<1>4. RackSum(InitPlace, w, p) \in Int
  BY LedgerAssumption, RackSumOf
<1> HIDE DEF f
<1>5. SumFunction(f) = 0
  BY <1>2, <1>3, SumZero, Finite
<1> QED BY <1>1, <1>4, <1>5 DEF f

LEMMA PlacedExplained ==
  ASSUME PlaceTypes, RacksExplained, NEW tx \in TxIds, NEW move \in RackGrid,
         ApplyPlacements(tx, move)
  PROVE  RacksExplained'
<1> SUFFICES ASSUME NEW w \in Warehouses, NEW p \in Products
             PROVE  RackSum(place', w, p) = RackSum(InitPlace, w, p)
                       + SumFunction([x \in TxIds |-> RackSum(placeNet'[x], w, p)])
  BY DEF RacksExplained, RackSum
<1> DEFINE f == [x \in TxIds |-> RackSum(placeNet[x], w, p)]
           g == [x \in TxIds |-> RackSum(placeNet'[x], w, p)]
<1>1. /\ place' = AddMove(place, move)
      /\ placeNet'[tx] = AddMove(placeNet[tx], move)
      /\ \A x \in TxIds \ {tx} : placeNet'[x] = placeNet[x]
  BY PlacedRows
<1>2. place \in RackGrid /\ (\A x \in TxIds : placeNet[x] \in RackGrid)
  BY DEF PlaceTypes
<1>3. PlaceTypes'
  BY PlacedTypes
<1>4. \A x \in TxIds : placeNet'[x] \in RackGrid
  BY <1>3 DEF PlaceTypes
<1>5. RackSum(place', w, p) = RackSum(place, w, p) + RackSum(move, w, p)
  BY <1>1, <1>2, RackSumAdds
<1>6. g[tx] = f[tx] + RackSum(move, w, p)
  BY <1>1, <1>2, RackSumAdds
<1>7. \A x \in TxIds : f[x] \in Int /\ g[x] \in Int
  BY <1>2, <1>4, RackSumOf
<1>8. \A x \in TxIds \ {tx} : f[x] = g[x]
  BY <1>1
<1>9. SumFunction(f) = SumFunctionOnSet(f, TxIds) /\ SumFunction(g) = SumFunctionOnSet(g, TxIds)
  BY DEF SumFunction
<1>10. RackSum(place, w, p) = RackSum(InitPlace, w, p) + SumFunction(f)
  BY DEF RacksExplained
<1>11. /\ RackSum(move, w, p) \in Int /\ RackSum(InitPlace, w, p) \in Int
       /\ SumFunctionOnSet(f, TxIds) \in Int
  BY <1>7, RackSumOf, LedgerAssumption, SumRemove, Finite
<1> HIDE DEF f, g
<1>12. SumFunctionOnSet(g, TxIds) = SumFunctionOnSet(f, TxIds) + (g[tx] - f[tx])
  BY <1>7, <1>8, SumChange, Finite
<1>13. RackSum(place', w, p) = RackSum(InitPlace, w, p) + SumFunction(g)
  BY <1>5, <1>6, <1>7, <1>9, <1>10, <1>11, <1>12
<1> QED BY <1>13 DEF g

LEMMA ExplainedStep ==
  ASSUME IInv, LinksInv, RacksExplained, [Next]_vars
  PROVE  RacksExplained'
<1>1. PlaceTypes
  BY LedgerTypes DEF IInv, TypeOKRest
<1>2. CASE \E tx \in TxIds, move \in RackGrid : Enters(tx, move) \/ Leaves(tx, move)
  BY <1>1, <1>2, PlacedExplained DEF Enters, Leaves
<1>3. CASE Shuffles
  BY <1>3 DEF Shuffles, RacksExplained, RackSum
<1> QED BY <1>2, <1>3, StepShapes DEF Shapes

\* What stands on the racks of a warehouse is what stood there at first and
\* what stock_placement_logs says: an order, an accept, a stock-take, a cancel
\* or a restored legacy row changes racks under its transaction, and a rack
\* move keeps every product's total, whatever the counts.
THEOREM RacksAreExplained == Spec => []RacksExplained
<1>1. Init => RacksExplained
  BY ExplainedInit
<1>2. IInv /\ LinksInv /\ RacksExplained /\ [Next]_vars => RacksExplained'
  BY ExplainedStep
<1> QED BY <1>1, <1>2, InventoryInvariant, LinksHold, PTL DEF Spec

LEMMA BatchesStep ==
  ASSUME IInv, LinksInv, BatchesFollowStatus, [Next]_vars
  PROVE  BatchesFollowStatus'
<1> DEFINE Has(row) == IF row.status = "active" /\ row.type \in Minted
                       THEN row.items ELSE NoItems
<1>0. /\ BatchesFollowStatus <=> \A x \in TxIds : batches[x] = Has(trx[x])
      /\ BatchesFollowStatus' <=> \A x \in TxIds : batches'[x] = Has(trx'[x])
  BY DEF BatchesFollowStatus, Minted
<1>1. batches \in [TxIds -> [Products -> Nat]]
  BY LedgerTypes DEF IInv, TypeOKRest, BatchTypes
<1>2. ASSUME NEW tx \in TxIds, NEW move \in RackGrid, Enters(tx, move)
      PROVE  BatchesFollowStatus'
  <2>1. PICK w \in Warehouses, type \in Kinds, items \in [Products -> Int] :
           /\ InsertTransaction(tx, w, type, items)
           /\ IF type \in Minted
              THEN items \in [Products -> Nat] /\ MintBatches(tx, items)
              ELSE batches' = batches
    BY <1>2 DEF Enters
  <2>2. /\ trx'[tx] = [warehouse |-> w, type |-> type, status |-> "active", items |-> items]
        /\ \A x \in TxIds \ {tx} : trx'[x] = trx[x]
    BY <2>1, EnteredRow
  <2>3. batches[tx] = NoItems
    BY <1>0, <1>2 DEF Enters, NoTx
  <2>4. CASE type \in Minted
    <3>1. batches' = [batches EXCEPT ![tx] =
             [p \in Products |-> IF batches[tx][p] = 0 THEN items[p] ELSE batches[tx][p]]]
      BY <2>1, <2>4 DEF MintBatches
    <3>2. [p \in Products |-> IF batches[tx][p] = 0 THEN items[p] ELSE batches[tx][p]] = items
      BY <2>3 DEF NoItems
    <3>3. batches' = [batches EXCEPT ![tx] = items]
      BY <3>1, <3>2
    <3> QED BY <1>0, <1>1, <2>2, <2>4, <3>3
  <2>5. CASE type \notin Minted
    BY <1>0, <2>1, <2>2, <2>3, <2>5
  <2> QED BY <2>4, <2>5
<1>3. ASSUME NEW tx \in TxIds, NEW move \in RackGrid, Leaves(tx, move)
      PROVE  BatchesFollowStatus'
  <2>1. /\ trx'[tx].status = "canceled" /\ trx'[tx].type = trx[tx].type
        /\ \A x \in TxIds \ {tx} : trx'[x] = trx[x]
    BY <1>3, LeftRow DEF Leaves
  <2>2. CASE VoidBatches(tx)
    BY <1>0, <1>1, <2>1, <2>2 DEF VoidBatches
  <2>3. CASE trx[tx].type = "transfer_out" /\ batches' = batches
    <3>1. batches[tx] = NoItems
      BY <1>0, <2>3 DEF Minted, InboundKinds
    <3> QED BY <1>0, <2>1, <2>3, <3>1
  <2> QED BY <1>3, <2>2, <2>3 DEF Leaves
<1>4. CASE Shuffles
  BY <1>0, <1>4 DEF Shuffles
<1> QED BY <1>2, <1>3, <1>4, StepShapes DEF Shapes

\* Every inbound transaction has its batches exactly while it is active, with
\* the counts it brought in, whichever document made it and whoever cancels it.
THEOREM BatchesFollow == Spec => []BatchesFollowStatus
<1>1. Init => BatchesFollowStatus
  BY DEF Init, LedgerInit, BatchesFollowStatus, NoTx
<1>2. IInv /\ LinksInv /\ BatchesFollowStatus /\ [Next]_vars => BatchesFollowStatus'
  BY BatchesStep
<1> QED BY <1>1, <1>2, InventoryInvariant, LinksHold, PTL DEF Spec

-----------------------------------------------------------------------------
(* Canceled transactions                                                    *)

LEMMA CanceledStep ==
  ASSUME IInv, LinksInv, [Next]_vars,
         NEW x \in TxIds, trx[x].status = "canceled"
  PROVE  /\ trx'[x] = trx[x]
         /\ batchNet'[x] = batchNet[x]
         /\ placeNet'[x] = placeNet[x]
         /\ batches'[x] = batches[x]
<1>1. /\ PlaceTypes /\ trx[x] # NoTx
      /\ batches \in [TxIds -> [Products -> Nat]]
  BY LedgerTypes DEF IInv, TypeOKRest, BatchTypes, NoTx
<1>2. trx'[x] = trx[x] /\ placeNet'[x] = placeNet[x] /\ batches'[x] = batches[x]
  <2>1. ASSUME NEW tx \in TxIds, NEW move \in RackGrid, Enters(tx, move)
        PROVE  trx'[x] = trx[x] /\ placeNet'[x] = placeNet[x] /\ batches'[x] = batches[x]
    <3>1. x # tx
      BY <1>1, <2>1 DEF Enters
    <3>2. placeNet'[x] = placeNet[x]
      BY <1>1, <2>1, <3>1, PlacedRows DEF Enters
    <3>3. trx'[x] = trx[x]
      BY <2>1, <3>1, EnteredRow DEF Enters
    <3> QED BY <1>1, <2>1, <3>1, <3>2, <3>3 DEF Enters, MintBatches
  <2>2. ASSUME NEW tx \in TxIds, NEW move \in RackGrid, Leaves(tx, move)
        PROVE  trx'[x] = trx[x] /\ placeNet'[x] = placeNet[x] /\ batches'[x] = batches[x]
    <3>1. trx'[x] = trx[x]
      BY <1>1, <2>2, LeftRow DEF Leaves
    <3>2. placeNet'[x] = placeNet[x]
      <4>1. CASE x # tx
        BY <1>1, <2>2, <4>1, PlacedRows DEF Leaves
      <4>2. CASE x = tx
        <5>1. move = NoMove
          BY <2>2, <4>2, NothingLeft DEF Leaves
        <5>2. AddMove(placeNet[x], NoMove) = placeNet[x]
          BY <1>1, AddNothing DEF PlaceTypes
        <5> QED BY <1>1, <2>2, <4>2, <5>1, <5>2, PlacedRows DEF Leaves
      <4> QED BY <4>1, <4>2
    <3>3. batches'[x] = batches[x]
      BY <1>1, <2>2 DEF Leaves, VoidBatches
    <3> QED BY <3>1, <3>2, <3>3
  <2>3. CASE Shuffles
    BY <2>3 DEF Shuffles
  <2> QED BY <2>1, <2>2, <2>3, StepShapes DEF Shapes
<1>3. batchNet'[x] = batchNet[x]
  <2>1. IInv'
    BY IInvStep
  <2>2. batchNet'[x] = Effect(x)' /\ batchNet[x] = Effect(x)
    BY <2>1 DEF IInv, LedgerInv, TransactionNet
  <2>3. Effect(x)' = Effect(x)
    BY <1>2 DEF Effect
  <2> QED BY <2>2, <2>3
<1> QED BY <1>2, <1>3

\* A canceled transaction is never touched again.  The call that could do it
\* is TransferCancel, which does not look at the status of the OUT leg: its
\* reversal is empty then, and it writes "canceled" over "canceled".
THEOREM CanceledStaysAsIs == Spec => CanceledIsFinal
<1>1. IInv /\ LinksInv /\ [Next]_vars =>
         [\A tx \in TxIds : trx[tx].status = "canceled" =>
             /\ trx'[tx] = trx[tx]
             /\ batchNet'[tx] = batchNet[tx]
             /\ placeNet'[tx] = placeNet[tx]
             /\ batches'[tx] = batches[tx]]_vars
  BY CanceledStep
<1> QED BY <1>1, InventoryInvariant, LinksHold, PTL DEF Spec, CanceledIsFinal

\* What the racks of a transaction net to: nothing before it exists, nothing
\* while it is an active OUT leg, nothing once it is canceled - but for an OUT
\* leg, whose cancel restores the racks of a legacy transaction of that id.
RacksFollowStatus ==
    \A tx \in TxIds :
        /\ trx[tx] = NoTx => placeNet[tx] = NoMove
        /\ trx[tx].status = "active" /\ trx[tx].type = "transfer_out" =>
              placeNet[tx] = NoMove
        /\ trx[tx].status = "canceled" =>
              \/ placeNet[tx] = NoMove
              \/ trx[tx].type = "transfer_out" /\ placeNet[tx] = Histories[tx]

LEMMA RacksStatusStep ==
  ASSUME IInv, LinksInv, RacksFollowStatus, [Next]_vars
  PROVE  RacksFollowStatus'
<1>0. PlaceTypes /\ NoMove \in RackGrid
  BY LedgerTypes, MoveTypes DEF IInv, TypeOKRest
<1> DEFINE Fits(row, net, tx) ==
               /\ row = NoTx => net = NoMove
               /\ row.status = "active" /\ row.type = "transfer_out" => net = NoMove
               /\ row.status = "canceled" =>
                     \/ net = NoMove
                     \/ row.type = "transfer_out" /\ net = Histories[tx]
<1>1. /\ RacksFollowStatus <=> \A tx \in TxIds : Fits(trx[tx], placeNet[tx], tx)
      /\ RacksFollowStatus' <=> \A tx \in TxIds : Fits(trx'[tx], placeNet'[tx], tx)
  BY DEF RacksFollowStatus
<1>2. ASSUME NEW tx \in TxIds, NEW move \in RackGrid, Enters(tx, move)
      PROVE  RacksFollowStatus'
  <2>1. /\ placeNet'[tx] = AddMove(placeNet[tx], move)
        /\ \A x \in TxIds \ {tx} : placeNet'[x] = placeNet[x]
    BY <1>0, <1>2, PlacedRows DEF Enters
  <2>2. AddMove(placeNet[tx], move) = move
    BY <1>1, <1>2, AddNothing DEF Enters
  <2>3. PICK w \in Warehouses, type \in Kinds, items \in [Products -> Int] :
           /\ InsertTransaction(tx, w, type, items)
           /\ type = "transfer_out" => move = NoMove
    BY <1>2 DEF Enters
  <2>4. /\ trx'[tx] = [warehouse |-> w, type |-> type, status |-> "active", items |-> items]
        /\ \A x \in TxIds \ {tx} : trx'[x] = trx[x]
    BY <2>3, EnteredRow
  <2>5. Fits(trx'[tx], placeNet'[tx], tx)
    BY <2>1, <2>2, <2>3, <2>4 DEF NoTx
  <2> HIDE DEF Fits
  <2> QED BY <1>1, <2>1, <2>4, <2>5
<1>3. ASSUME NEW tx \in TxIds, NEW move \in RackGrid, Leaves(tx, move)
      PROVE  RacksFollowStatus'
  <2>1. /\ placeNet'[tx] = AddMove(placeNet[tx], move)
        /\ \A x \in TxIds \ {tx} : placeNet'[x] = placeNet[x]
    BY <1>0, <1>3, PlacedRows DEF Leaves
  <2>2. /\ trx'[tx].status = "canceled" /\ trx'[tx] # NoTx
        /\ trx'[tx].type = trx[tx].type
        /\ trx[tx].status \in {"active", "canceled"}
        /\ \A x \in TxIds \ {tx} : trx'[x] = trx[x]
    BY <1>3, LeftRow DEF Leaves
  <2>3. CASE move = CancelMove(tx)
    <3>1. placeNet'[tx] = NoMove
      BY <1>0, <2>1, <2>3, CancelUndoes
    <3>2. Fits(trx'[tx], placeNet'[tx], tx)
      BY <2>2, <3>1
    <3> HIDE DEF Fits
    <3> QED BY <1>1, <2>1, <2>2, <3>2
  <2>4. CASE trx[tx].type = "transfer_out" /\ move = RestoredRacks(tx)
    <3>1. CASE trx[tx].status = "canceled"
      <4>1. move = NoMove
        BY <2>4, <3>1, NothingLeft
      <4>2. placeNet'[tx] = placeNet[tx]
        BY <1>0, <2>1, <4>1, AddNothing DEF PlaceTypes
      <4>3. Fits(trx'[tx], placeNet'[tx], tx)
        BY <1>1, <2>2, <3>1, <4>2
      <4> HIDE DEF Fits
      <4> QED BY <1>1, <2>1, <2>2, <4>3
    <3>2. CASE trx[tx].status = "active"
      <4>1. placeNet[tx] = NoMove
        BY <1>1, <2>4, <3>2
      <4>2. placeNet'[tx] = move
        BY <2>1, <4>1, AddNothing
      <4>3. Fits(trx'[tx], placeNet'[tx], tx)
        BY <2>2, <2>4, <4>2 DEF RestoredRacks
      <4> HIDE DEF Fits
      <4> QED BY <1>1, <2>1, <2>2, <4>3
    <3> QED BY <2>2, <3>1, <3>2
  <2> QED BY <1>3, <2>3, <2>4 DEF Leaves
<1>4. CASE Shuffles
  BY <1>1, <1>4 DEF Shuffles
<1> QED BY <1>2, <1>3, <1>4, StepShapes DEF Shapes

LEMMA RacksStatusHold == Spec => []RacksFollowStatus
<1>1. Init => RacksFollowStatus
  BY DEF Init, LedgerInit, RacksFollowStatus, NoTx
<1>2. IInv /\ LinksInv /\ RacksFollowStatus /\ [Next]_vars => RacksFollowStatus'
  BY RacksStatusStep
<1> QED BY <1>1, <1>2, InventoryInvariant, LinksHold, PTL DEF Spec

\* Where no legacy transaction shares an id with a new one, a cancel takes
\* back all the transaction put on racks and puts back all it took.
THEOREM CanceledLeavesRacks ==
  ASSUME \A tx \in TxIds : Histories[tx] = NoMove
  PROVE  Spec => []CanceledLeavesNoPlacement
<1>1. RacksFollowStatus => CanceledLeavesNoPlacement
  BY DEF RacksFollowStatus, CanceledLeavesNoPlacement
<1> QED BY <1>1, RacksStatusHold, PTL

-----------------------------------------------------------------------------
(* Legs and their documents                                                 *)

TransferInStep(t) ==
    /\ trx[transfers[t].out].status = "canceled" <=> transfers[t].status = "canceled"
    /\ \A i \in transfers[t].in : trx[i].status = "active"

RestockInStep(d) == \A i \in restocks[d].tx : trx[i].status = "active"

LEMMA InStep ==
  /\ LegsAsDocuments <=>
        /\ \A t \in TransferIds : Issued(t) => TransferInStep(t)
        /\ \A d \in RestockIds : restocks[d] # NoRestock => RestockInStep(d)
  /\ LegsAsDocuments' <=>
        /\ \A t \in TransferIds : Issued(t)' => TransferInStep(t)'
        /\ \A d \in RestockIds : restocks'[d] # NoRestock => RestockInStep(d)'
BY DEF LegsAsDocuments, TransferInStep, RestockInStep

LEMMA LinkedLegs ==
  ASSUME IInv, LinksInv
  PROVE  /\ \A t \in TransferIds : Issued(t) =>
               /\ LegsOf(t) \subseteq TxIds
               /\ \A x \in LegsOf(t) : trx[x] # NoTx /\ trx[x].type # "restock"
         /\ \A d \in RestockIds : restocks[d] # NoRestock =>
               /\ restocks[d].tx \subseteq TxIds
               /\ \A x \in restocks[d].tx : trx[x] # NoTx /\ trx[x].type = "restock"
<1>1. ASSUME NEW t \in TransferIds, Issued(t)
      PROVE  /\ LegsOf(t) \subseteq TxIds
             /\ \A x \in LegsOf(t) : trx[x] # NoTx /\ trx[x].type # "restock"
  <2>1. TransferLinked(t) /\ LegsOf(t) \subseteq TxIds
    BY <1>1, TransferTypes DEF LinksInv, TransfersLinked
  <2> QED BY <2>1 DEF TransferLinked, LegsOf
<1>2. ASSUME NEW d \in RestockIds, restocks[d] # NoRestock
      PROVE  /\ restocks[d].tx \subseteq TxIds
             /\ \A x \in restocks[d].tx : trx[x] # NoTx /\ trx[x].type = "restock"
  <2>1. RestockLinked(d) /\ restocks[d].tx \subseteq TxIds
    BY <1>2, RestockTypes DEF LinksInv, RestocksLinked
  <2> QED BY <2>1 DEF RestockLinked
<1> QED BY <1>1, <1>2

\* A step that edits one transfer and one transaction no other document has.
LEMMA OneInStep ==
  ASSUME IInv, LinksInv, LegsAsDocuments, restocks' = restocks,
         NEW t \in TransferIds, NEW tx \in TxIds,
         \A u \in TransferIds \ {t} : transfers'[u] = transfers[u],
         \A x \in TxIds \ {tx} : trx'[x] = trx[x],
         \A u \in TransferIds \ {t} : Issued(u) => tx \notin LegsOf(u),
         \A d \in RestockIds : restocks[d] # NoRestock => tx \notin restocks[d].tx,
         TransferInStep(t)'
  PROVE  LegsAsDocuments'
<1>1. ASSUME NEW u \in TransferIds, Issued(u)' PROVE TransferInStep(u)'
  <2>1. CASE u = t
    BY <2>1
  <2>2. CASE u # t
    <3>1. Issued(u) /\ transfers'[u] = transfers[u]
      BY <1>1, <2>2 DEF Issued
    <3>2. \A x \in LegsOf(u) : trx'[x] = trx[x]
      BY <2>2, <3>1, LinkedLegs
    <3>3. TransferInStep(u)
      BY <3>1, InStep
    <3> QED BY <3>1, <3>2, <3>3 DEF TransferInStep, LegsOf
  <2> QED BY <2>1, <2>2
<1>2. ASSUME NEW d \in RestockIds, restocks'[d] # NoRestock PROVE RestockInStep(d)'
  <2>1. \A x \in restocks[d].tx : trx'[x] = trx[x]
    BY <1>2, LinkedLegs
  <2>2. RestockInStep(d)
    BY <1>2, InStep
  <2> QED BY <2>1, <2>2 DEF RestockInStep
<1> QED BY <1>1, <1>2, InStep

LEMMA TransferKeepsInStep ==
  ASSUME IInv, LinksInv, LegsAsDocuments, TransferStep
  PROVE  LegsAsDocuments'
<1>0. TransfersNext /\ restocks' = restocks
  BY DEF TransferStep
<1>1. transfers \in [TransferIds -> Transfer \cup {NoTransfer}]
  BY LedgerTypes DEF IInv, TypeOKRest, TransfersTypeOK
\* The id an insert takes belongs to no document.
<1>2. ASSUME NEW tx \in TxIds, trx[tx] = NoTx
      PROVE  /\ \A u \in TransferIds : Issued(u) => tx \notin LegsOf(u)
             /\ \A d \in RestockIds : restocks[d] # NoRestock => tx \notin restocks[d].tx
  BY <1>2, LinkedLegs
<1>3. ASSUME NEW t \in TransferIds, NEW from \in Warehouses, NEW to \in Warehouses,
             NEW items \in Requests, TransferCreate(t, from, to, items)
      PROVE  LegsAsDocuments'
  <2>1. PICK tx \in TxIds :
           /\ trx[tx] = NoTx
           /\ InsertTransaction(tx, from, "transfer_out", items)
           /\ transfers' = [transfers EXCEPT ![t] =
                 [from |-> from, to |-> to, items |-> items,
                  status |-> "pending", out |-> tx, in |-> {}]]
    BY <1>3 DEF TransferCreate, IsNextId, ApplyTransferLeg
  <2>2. /\ trx'[tx].status = "active" /\ \A x \in TxIds \ {tx} : trx'[x] = trx[x]
    BY <2>1, EnteredRow
  <2>3. /\ transfers'[t].out = tx /\ transfers'[t].in = {} /\ transfers'[t].status = "pending"
        /\ \A u \in TransferIds \ {t} : transfers'[u] = transfers[u]
    BY <1>1, <2>1
  <2>4. TransferInStep(t)'
    BY <2>2, <2>3 DEF TransferInStep
  <2> QED BY <1>0, <1>2, <2>1, <2>2, <2>3, <2>4, OneInStep
<1>4. ASSUME NEW t \in TransferIds, NEW placed \in RackCounts, TransferAccept(t, placed)
      PROVE  LegsAsDocuments'
  <2> DEFINE doc == transfers[t]
  <2>1. PICK tx \in TxIds :
           /\ doc.status = "pending" /\ trx[tx] = NoTx
           /\ InsertTransaction(tx, doc.to, "transfer_in", doc.items)
           /\ transfers' = [transfers EXCEPT ![t].status = "accepted", ![t].in = {tx}]
    BY <1>4 DEF TransferAccept, IsNextId, ApplyTransferLeg
  <2>2. /\ trx'[tx].status = "active" /\ \A x \in TxIds \ {tx} : trx'[x] = trx[x]
    BY <2>1, EnteredRow
  <2>3. doc \in Transfer /\ Issued(t)
    BY <1>1, <2>1, PendingTransfer DEF TransfersTypeOK
  <2>4. /\ transfers'[t] = [doc EXCEPT !.status = "accepted", !.in = {tx}]
        /\ \A u \in TransferIds \ {t} : transfers'[u] = transfers[u]
    BY <1>1, <2>1
  <2>5. /\ transfers'[t].out = doc.out /\ transfers'[t].in = {tx}
        /\ transfers'[t].status = "accepted" /\ doc.out \in TxIds
    BY <2>3, <2>4 DEF Transfer
  <2>6. trx[doc.out].status # "canceled" /\ doc.out # tx
    BY <1>2, <2>1, <2>3, InStep DEF TransferInStep, LegsOf
  <2>7. TransferInStep(t)'
    BY <2>2, <2>5, <2>6 DEF TransferInStep
  <2> QED BY <1>0, <1>2, <2>1, <2>2, <2>4, <2>7, OneInStep
<1>5. ASSUME NEW t \in TransferIds, TransferCancel(t)
      PROVE  LegsAsDocuments'
  <2> DEFINE doc == transfers[t]
  <2>1. /\ doc.status = "pending"
        /\ trx' = [trx EXCEPT ![doc.out].status = "canceled"]
        /\ transfers' = [transfers EXCEPT ![t].status = "canceled"]
    BY <1>5 DEF TransferCancel
  <2>2. doc \in Transfer /\ Issued(t) /\ TransferLinked(t)
    BY <1>1, <2>1, PendingTransfer DEF TransfersTypeOK, LinksInv, TransfersLinked
  <2>3. /\ transfers'[t] = [doc EXCEPT !.status = "canceled"]
        /\ \A u \in TransferIds \ {t} : transfers'[u] = transfers[u]
    BY <1>1, <2>1
  <2>4. /\ transfers'[t].out = doc.out /\ transfers'[t].in = doc.in
        /\ transfers'[t].status = "canceled" /\ doc.out \in TxIds
    BY <2>2, <2>3 DEF Transfer
  <2>5. trx[doc.out] # NoTx /\ trx[doc.out].type = "transfer_out" /\ doc.in = {}
    BY <2>1, <2>2 DEF TransferLinked
  <2>6. /\ trx'[doc.out].status = "canceled"
        /\ \A x \in TxIds \ {doc.out} : trx'[x] = trx[x]
    BY <2>1, <2>4, <2>5, LeftRow
  <2>7. TransferInStep(t)'
    BY <2>4, <2>5, <2>6 DEF TransferInStep
  <2>8. \A u \in TransferIds \ {t} : Issued(u) => doc.out \notin LegsOf(u)
    BY <2>2 DEF LinksInv, TransfersLinked, LegsOf
  <2>9. \A d \in RestockIds : restocks[d] # NoRestock => doc.out \notin restocks[d].tx
    BY <2>5, LinkedLegs
  <2> QED BY <1>0, <2>3, <2>4, <2>6, <2>7, <2>8, <2>9, OneInStep
<1> QED BY <1>0, <1>3, <1>4, <1>5 DEF TransfersNext

\* Any other step leaves the transactions of documents alone, if it is true
\* that only own transactions are canceled by id.
LEMMA OthersKeepInStep ==
  ASSUME IInv, LinksInv, LegsAsDocuments, OwnCancelsOnly, transfers' = transfers,
         RestockStep \/ restocks' = restocks
  PROVE  LegsAsDocuments'
<1>1. \A x \in DocumentTxs : trx'[x] = trx[x]
  BY DEF OwnCancelsOnly
<1>2. ASSUME NEW u \in TransferIds, Issued(u)' PROVE TransferInStep(u)'
  <2>1. Issued(u) /\ TransferInStep(u)
    BY <1>2, InStep DEF Issued
  <2>2. LegsOf(u) \subseteq DocumentTxs
    BY <2>1 DEF DocumentTxs, TransferLegs, LegsOf
  <2> QED BY <1>1, <2>1, <2>2 DEF TransferInStep, LegsOf
<1>3. ASSUME NEW d \in RestockIds, restocks[d] # NoRestock, restocks'[d].tx = restocks[d].tx
      PROVE  RestockInStep(d)'
  <2>1. restocks[d].tx \subseteq DocumentTxs
    BY <1>3 DEF DocumentTxs, RestockTxs
  <2>2. RestockInStep(d)
    BY <1>3, InStep
  <2> QED BY <1>1, <1>3, <2>1, <2>2 DEF RestockInStep
<1>4. \A d \in RestockIds : restocks'[d] # NoRestock => RestockInStep(d)'
  <2>1. CASE restocks' = restocks
    BY <1>3, <2>1
  <2>2. CASE RestockStep
    <3>0. RestocksNext /\ restocks \in [RestockIds -> Restock \cup {NoRestock}]
      BY <2>2, LedgerTypes DEF RestockStep, IInv, TypeOKRest, RestocksTypeOK
    <3>1. ASSUME NEW d \in RestockIds, \A e \in RestockIds \ {d} : restocks'[e] = restocks[e],
                 RestockInStep(d)'
          PROVE  \A e \in RestockIds : restocks'[e] # NoRestock => RestockInStep(e)'
      BY <1>3, <3>1
    <3>2. ASSUME NEW d \in RestockIds, RestockEdit(d)
          PROVE  \A e \in RestockIds : restocks'[e] # NoRestock => RestockInStep(e)'
      BY <3>1, <3>2, EditedWithoutTx DEF RestockInStep, LinksInv
    <3>3. ASSUME NEW d \in RestockIds, NEW problem \in [Products -> 0 .. MaxCount],
                 NEW placed \in RackCounts, RestockAccept(d, problem, placed)
          PROVE  \A e \in RestockIds : restocks'[e] # NoRestock => RestockInStep(e)'
      <4> DEFINE items == [p \in Products |-> Entering(restocks[d].rows, problem, p)]
      <4>1. PICK tx \in TxIds :
               /\ Editable(d) /\ trx[tx] = NoTx
               /\ InsertTransaction(tx, restocks[d].warehouse, "restock", items)
               /\ restocks' = [restocks EXCEPT ![d].problem = problem,
                      ![d].status = "accepted", ![d].tx = {tx}]
        BY <3>3 DEF RestockAccept, IsNextId
      <4> HIDE DEF items
      <4>2. trx'[tx].status = "active"
        BY <4>1, EnteredRow
      <4>3. restocks[d] \in Restock
        BY <3>0, <4>1, EditableRestock DEF RestocksTypeOK
      <4>4. restocks'[d].tx = {tx} /\ \A e \in RestockIds \ {d} : restocks'[e] = restocks[e]
        BY <3>0, <4>1, <4>3 DEF Restock
      <4> QED BY <3>1, <4>2, <4>4 DEF RestockInStep
    <3> QED BY <3>0, <3>2, <3>3 DEF RestocksNext, RestockEdit
  <2> QED BY <2>1, <2>2
<1> QED BY <1>2, <1>4, InStep

\* As long as nobody cancels a document's transaction by its id, every leg is
\* live exactly while its document says so.
THEOREM LegsKeepInStep == Spec => LegsFollowStatus
<1>1. IInv /\ LinksInv /\ [Next]_vars =>
         [LegsAsDocuments /\ OwnCancelsOnly => LegsAsDocuments']_vars
  <2> SUFFICES ASSUME IInv, LinksInv, Next, LegsAsDocuments, OwnCancelsOnly
               PROVE  LegsAsDocuments'
    OBVIOUS
  <2>1. CASE TransferStep
    BY <2>1, TransferKeepsInStep
  <2>2. CASE transfers' = transfers /\ (RestockStep \/ restocks' = restocks)
    BY <2>2, OthersKeepInStep
  <2> QED BY <2>1, <2>2 DEF Next, TransactionStep, PlacementStep, RestockStep, OpnameStep
<1> QED BY <1>1, InventoryInvariant, LinksHold, PTL DEF Spec, LegsFollowStatus

-----------------------------------------------------------------------------
(* Conservation over the transfers                                          *)

Worth(tx, p) == SumFunction([w \in Warehouses |-> Effect(tx)[w][p]])

\* A change in one warehouse adds up to itself over all of them.
LEMMA SumAt ==
  ASSUME NEW v \in Warehouses, NEW items \in [Products -> Int], NEW p \in Products
  PROVE  SumFunction([w \in Warehouses |-> At(v, items)[w][p]]) = items[p]
<1> DEFINE f == [w \in Warehouses |-> At(v, items)[w][p]]
           none == [w \in Warehouses |-> 0]
<1>1. \A w \in Warehouses : f[w] = IF w = v THEN items[p] ELSE 0
  BY AtValues
<1>2. \A w \in Warehouses : none[w] = 0
  OBVIOUS
<1>3. SumFunction(f) = SumFunctionOnSet(f, Warehouses)
  BY DEF SumFunction
<1> HIDE DEF f, none
<1>4. SumFunctionOnSet(none, Warehouses) = 0
  BY <1>2, SumZero, Finite
<1>5. \A w \in Warehouses : none[w] \in Int /\ f[w] \in Int
  BY <1>1, <1>2
<1>6. SumFunctionOnSet(f, Warehouses) = SumFunctionOnSet(none, Warehouses) + (f[v] - none[v])
  <2>1. \A w \in Warehouses \ {v} : none[w] = f[w]
    BY <1>1, <1>2
  <2> QED BY <1>5, <2>1, SumChange, Finite
<1>7. SumFunction(f) = items[p]
  BY <1>1, <1>2, <1>3, <1>4, <1>6
<1> QED BY <1>7 DEF f

LEMMA EffectTypes ==
  ASSUME IInv, NEW tx \in TxIds
  PROVE  Effect(tx) \in Grid
<1>1. batchNet[tx] \in Grid /\ batchNet[tx] = Effect(tx)
  BY DEF IInv, LedgerInv, LogTypes, TransactionNet
<1> QED BY <1>1

\* What a leg is worth over all warehouses.
LEMMA WorthOf ==
  ASSUME IInv, NEW tx \in TxIds, trx[tx] # NoTx, NEW p \in Products
  PROVE  /\ Worth(tx, p) \in Int /\ trx[tx].items[p] \in Int
         /\ trx[tx].status = "active" =>
               Worth(tx, p) = Direction(trx[tx].type) * trx[tx].items[p]
         /\ trx[tx].status = "canceled" => Worth(tx, p) = 0
         /\ trx[tx].status \in {"active", "canceled"}
<1> DEFINE f == [w \in Warehouses |-> Effect(tx)[w][p]]
           row == trx[tx]
<1>1. row \in Transaction
  BY LedgerTypes DEF IInv, LogTypes
<1>2. row.items \in [Products -> Int] /\ row.type \in Kinds /\ row.warehouse \in Warehouses
      /\ row.status \in {"active", "canceled"}
  BY <1>1 DEF Transaction
<1>3. \A w \in Warehouses : f[w] \in Int
  BY EffectTypes DEF Grid
<1>4. Worth(tx, p) = SumFunctionOnSet(f, Warehouses)
  BY DEF Worth, SumFunction
<1>5. CASE row.status = "active"
  <2> DEFINE rows == Signed(Direction(row.type), row.items)
  <2>1. Effect(tx) = At(row.warehouse, rows)
    BY <1>5 DEF Effect
  <2>2. rows \in [Products -> Int]
    BY <1>2, VectorTypes
  <2>3. rows[p] = Direction(row.type) * row.items[p]
    BY DEF Signed
  <2> HIDE DEF row, rows
  <2>4. Worth(tx, p) = rows[p]
    BY <1>2, <2>1, <2>2, SumAt DEF Worth
  <2> QED BY <1>2, <1>5, <2>2, <2>3, <2>4 DEF row
<1>6. CASE row.status = "canceled"
  <2>1. \A w \in Warehouses : f[w] = 0
    BY <1>6 DEF Effect, NoChange, NoItems
  <2> HIDE DEF f
  <2>2. SumFunctionOnSet(f, Warehouses) = 0
    BY <2>1, SumZero, Finite
  <2> QED BY <1>2, <1>4, <1>6, <2>2
<1> QED BY <1>2, <1>5, <1>6

\* The legs of one transfer and its goods on the road add up to nothing.
LEMMA LegsBalance ==
  ASSUME IInv, LinksInv, LegsAsDocuments, NEW p \in Products,
         NEW t \in TransferIds, Issued(t), NEW e, \A x \in TxIds : e[x] = Worth(x, p)
  PROVE  /\ transfers[t].items[p] \in Int
         /\ SumFunctionOnSet(e, LegsOf(t))
               = IF transfers[t].status = "pending" THEN -transfers[t].items[p] ELSE 0
<1> DEFINE doc == transfers[t]
           n == doc.items[p]
<1>1. /\ doc.out \in TxIds /\ doc.in \subseteq TxIds /\ n \in Int
      /\ doc.status \in {"pending", "accepted", "canceled"}
  BY TransferTypes
<1>2. TransferLinked(t) /\ TransferInStep(t)
  BY InStep DEF LinksInv, TransfersLinked
<1>3. /\ trx[doc.out] # NoTx /\ trx[doc.out].type = "transfer_out"
      /\ trx[doc.out].items = doc.items
      /\ trx[doc.out].status = "canceled" <=> doc.status = "canceled"
      /\ doc.in # {} <=> doc.status = "accepted"
      /\ \A i \in doc.in : /\ trx[i] # NoTx /\ trx[i].type = "transfer_in"
                           /\ trx[i].items = doc.items /\ trx[i].status = "active"
      /\ \A i, j \in doc.in : i = j
  BY <1>2 DEF TransferLinked, TransferInStep
<1>4. LegsOf(t) = {doc.out} \cup doc.in
  BY DEF LegsOf
<1> HIDE DEF doc
<1>5. e[doc.out] = IF doc.status = "canceled" THEN 0 ELSE -n
  <2>1. trx[doc.out].status \in {"active", "canceled"}
    BY <1>1, <1>3, WorthOf
  <2>2. trx[doc.out].status = "active" => Worth(doc.out, p) = (-1) * n
    BY <1>1, <1>3, WorthOf DEF Direction
  <2>3. trx[doc.out].status = "canceled" => Worth(doc.out, p) = 0
    BY <1>1, <1>3, WorthOf
  <2> QED BY <1>1, <1>3, <2>1, <2>2, <2>3
<1>6. \A i \in doc.in : e[i] = n
  <2> TAKE i \in doc.in
  <2>1. Worth(i, p) = 1 * n
    BY <1>1, <1>3, WorthOf DEF Direction
  <2> QED BY <1>1, <2>1
<1>7. CASE doc.status = "accepted"
  <2>1. PICK i \in doc.in : doc.in = {i}
    BY <1>3, <1>7
  <2>2. i # doc.out
    BY <1>3, <2>1
  <2>3. e[i] = n /\ e[doc.out] = -n
    BY <1>5, <1>6, <1>7, <2>1
  <2>4. IsFiniteSet({doc.out}) /\ IsFiniteSet({i})
    BY FS_Singleton
  <2>5. SumFunctionOnSet(e, {doc.out}) = -n /\ SumFunctionOnSet(e, {i}) = n
    <3>1. e[doc.out] \in Int /\ e[i] \in Int
      BY <1>1, <2>3
    <3>2. SumFunctionOnSet(e, {doc.out}) = e[doc.out]
      BY <3>1, SumOne
    <3>3. SumFunctionOnSet(e, {i}) = e[i]
      BY <3>1, SumOne
    <3> QED BY <2>3, <3>2, <3>3
  <2>6. SumFunctionOnSet(e, {doc.out} \cup {i})
           = SumFunctionOnSet(e, {doc.out}) + SumFunctionOnSet(e, {i})
    <3>1. {doc.out} \cap {i} = {} /\ \A x \in {doc.out} \cup {i} : e[x] \in Int
      BY <1>1, <2>2, <2>3
    <3> QED BY <2>4, <3>1, SumDisjoint
  <2>7. SumFunctionOnSet(e, LegsOf(t)) = 0
    <3>1. LegsOf(t) = {doc.out} \cup {i}
      BY <1>4, <2>1
    <3>2. SumFunctionOnSet(e, {doc.out} \cup {i}) = -n + n
      BY <2>5, <2>6
    <3> HIDE DEF n
    <3> QED BY <1>1, <3>1, <3>2
  <2> QED BY <1>1, <1>7, <2>7 DEF doc
<1>8. CASE doc.status # "accepted"
  <2>1. LegsOf(t) = {doc.out}
    BY <1>3, <1>4, <1>8
  <2>2. SumFunctionOnSet(e, {doc.out}) = e[doc.out]
    BY <1>1, <1>5, SumOne
  <2>3. doc.status = "pending" \/ doc.status = "canceled"
    BY <1>1, <1>8
  <2> QED BY <1>1, <1>5, <2>1, <2>2, <2>3 DEF doc
<1> QED BY <1>7, <1>8

LEMMA RoadBalances ==
  ASSUME IInv, LinksInv, LegsAsDocuments, NEW p \in Products,
         NEW e, \A x \in TxIds : e[x] = Worth(x, p) /\ e[x] \in Int
  PROVE  /\ OnTheRoad(p) \in Int /\ TransferLegs \subseteq TxIds
         /\ SumFunctionOnSet(e, TransferLegs) + OnTheRoad(p) = 0
<1> DEFINE G == [t \in TransferIds |-> IF Issued(t) THEN LegsOf(t) ELSE {}]
           part == [t \in TransferIds |-> SumFunctionOnSet(e, G[t])]
           road == [t \in TransferIds |->
                      IF transfers[t].status = "pending" THEN transfers[t].items[p] ELSE 0]
           none == [t \in TransferIds |-> 0]
<1>1. \A t \in TransferIds : Issued(t) => LegsOf(t) \subseteq TxIds
  BY TransferTypes
<1>2. G \in [TransferIds -> SUBSET TxIds]
  BY <1>1
<1>3. \A t, u \in TransferIds : t # u => G[t] \cap G[u] = {}
  BY DEF LinksInv, TransfersLinked
<1>4. TransferLegs = UNION {G[t] : t \in TransferIds}
  BY DEF TransferLegs, LegsOf
<1>5. OnTheRoad(p) = SumFunctionOnSet(road, TransferIds)
  BY DEF OnTheRoad, SumFunction
<1>6. ASSUME NEW t \in TransferIds
      PROVE  part[t] \in Int /\ road[t] \in Int /\ none[t] = part[t] + road[t]
  <2>1. CASE Issued(t)
    <3>1. part[t] = SumFunctionOnSet(e, LegsOf(t))
      BY <2>1
    <3> HIDE DEF part
    <3> QED BY <2>1, <3>1, LegsBalance
  <2>2. CASE ~Issued(t)
    <3>1. part[t] = SumFunctionOnSet(e, {}) /\ road[t] = 0
      BY <2>2 DEF Issued, NoTransfer
    <3>2. SumFunctionOnSet(e, {}) = 0
      BY SumUnfold, FS_EmptySet
    <3> HIDE DEF part, road
    <3> QED BY <3>1, <3>2
  <2> QED BY <2>1, <2>2
<1>7. \A t \in TransferIds : none[t] = 0
  OBVIOUS
<1>8. part = [t \in TransferIds |-> SumFunctionOnSet(e, G[t])]
  OBVIOUS
<1> HIDE DEF G, part, road, none
<1>9. SumFunctionOnSet(e, TransferLegs) = SumFunctionOnSet(part, TransferIds)
  BY <1>2, <1>3, <1>4, <1>8, SumGroups, Finite
<1>10. SumFunctionOnSet(none, TransferIds)
          = SumFunctionOnSet(part, TransferIds) + SumFunctionOnSet(road, TransferIds)
  BY <1>6, SumAdd, Finite
<1>11. SumFunctionOnSet(none, TransferIds) = 0
  BY <1>7, SumZero, Finite
<1>12. SumFunctionOnSet(road, TransferIds) \in Int
  BY <1>6, SumRemove, Finite
<1>13. TransferLegs \subseteq TxIds
  BY <1>2, <1>4
<1> QED BY <1>5, <1>9, <1>10, <1>11, <1>12, <1>13

LEMMA ConservedIfLinked ==
  ASSUME IInv, LinksInv
  PROVE  TransfersConserve
<1> SUFFICES ASSUME LegsAsDocuments, NEW p \in Products
             PROVE  SumFunction([w \in Warehouses |-> stock[w][p]]) + OnTheRoad(p)
                       = SumFunction([w \in Warehouses |-> InitStock[w][p]]) + Traded(p)
  BY DEF TransfersConserve
<1> DEFINE now == [w \in Warehouses |-> stock[w][p]]
           first == [w \in Warehouses |-> InitStock[w][p]]
           m == [x \in TxIds |-> [w \in Warehouses |-> Effect(x)[w][p]]]
           e == [x \in TxIds |-> SumFunctionOnSet(m[x], Warehouses)]
           col == [w \in Warehouses |-> SumFunctionOnSet([x \in TxIds |-> m[x][w]], TxIds)]
           rest == TxIds \ TransferLegs
           traded == [x \in rest |-> SumFunction([w \in Warehouses |-> Effect(x)[w][p]])]
<1>1. \A x \in TxIds, w \in Warehouses : m[x][w] \in Int
  BY EffectTypes DEF Grid
<1>2. \A x \in TxIds : e[x] = Worth(x, p)
  BY DEF Worth, SumFunction
<1>3. \A w \in Warehouses : now[w] \in Int /\ first[w] \in Int
  BY LedgerAssumption DEF IInv, LedgerInv, LogTypes, Grid
<1>4. \A w \in Warehouses : now[w] = first[w] + col[w]
  <2> TAKE w \in Warehouses
  <2> DEFINE g == [x \in TxIds |-> m[x][w]]
             g2 == [x \in TxIds |-> Effect(x)[w][p]]
  <2>1. g = g2
    OBVIOUS
  <2>2. stock[w][p] = InitStock[w][p] + SumFunction(g2)
    BY ActiveTransactionsAddUp DEF IInv, StockIsActiveTransactions
  <2>3. SumFunction(g2) = SumFunctionOnSet(g2, TxIds)
    BY DEF SumFunction
  <2>4. col[w] = SumFunctionOnSet(g, TxIds)
    OBVIOUS
  <2> QED BY <2>1, <2>2, <2>3, <2>4
<1>5. \A x \in TxIds : m[x] = [w \in Warehouses |-> Effect(x)[w][p]]
  OBVIOUS
<1>6. \A x \in TxIds : e[x] = SumFunctionOnSet(m[x], Warehouses)
  OBVIOUS
<1>7. /\ e = [x \in TxIds |-> SumFunctionOnSet(m[x], Warehouses)]
      /\ col = [w \in Warehouses |-> SumFunctionOnSet([x \in TxIds |-> m[x][w]], TxIds)]
  OBVIOUS
<1>8. SumFunction(now) = SumFunctionOnSet(now, Warehouses)
      /\ SumFunction(first) = SumFunctionOnSet(first, Warehouses)
  BY DEF SumFunction
<1>9. Traded(p) = SumFunctionOnSet(traded, rest)
  BY DEF Traded, SumFunction
<1>10. \A x \in rest : traded[x] = Worth(x, p)
  BY DEF Worth
<1> HIDE DEF now, first, m, traded
<1>11. \A x \in TxIds : e[x] \in Int
  <2> TAKE x \in TxIds
  <2>1. SumFunctionOnSet(m[x], Warehouses) \in Int
    BY <1>1, SumRemove, Finite
  <2> QED BY <1>6, <2>1
<1>12. \A w \in Warehouses : col[w] \in Int
  <2> TAKE w \in Warehouses
  <2> DEFINE g == [x \in TxIds |-> m[x][w]]
  <2>1. \A x \in TxIds : g[x] \in Int
    BY <1>1
  <2>2. col[w] = SumFunctionOnSet(g, TxIds)
    OBVIOUS
  <2> HIDE DEF g, col
  <2> QED BY <2>1, <2>2, SumRemove, Finite
<1>13. SumFunctionOnSet(e, TxIds) = SumFunctionOnSet(col, Warehouses)
  BY <1>1, SumSwap, Finite
<1> HIDE DEF e, col
<1>14. SumFunctionOnSet(now, Warehouses)
          = SumFunctionOnSet(first, Warehouses) + SumFunctionOnSet(col, Warehouses)
  BY <1>3, <1>4, <1>12, SumAdd, Finite
<1>15. /\ OnTheRoad(p) \in Int /\ TransferLegs \subseteq TxIds
       /\ SumFunctionOnSet(e, TransferLegs) + OnTheRoad(p) = 0
  BY <1>2, <1>11, RoadBalances
<1>16. /\ IsFiniteSet(rest) /\ IsFiniteSet(TransferLegs)
       /\ rest \cap TransferLegs = {} /\ rest \cup TransferLegs = TxIds
       /\ rest \subseteq TxIds
  BY <1>15, FS_Subset, Finite
<1> HIDE DEF rest
<1>17. SumFunctionOnSet(e, TxIds)
          = SumFunctionOnSet(e, rest) + SumFunctionOnSet(e, TransferLegs)
  BY <1>11, <1>16, SumDisjoint
<1>18. SumFunctionOnSet(e, rest) = SumFunctionOnSet(traded, rest)
  <2>1. \A x \in rest : e[x] = traded[x] /\ e[x] \in Int
    BY <1>2, <1>10, <1>11, <1>16
  <2> QED BY <1>16, <2>1, SumCongruent
<1>19. /\ SumFunctionOnSet(e, rest) \in Int /\ SumFunctionOnSet(e, TransferLegs) \in Int
       /\ SumFunctionOnSet(first, Warehouses) \in Int
  <2>1. \A x \in rest \cup TransferLegs : e[x] \in Int
    BY <1>11, <1>16
  <2> QED BY <1>3, <1>16, <2>1, SumRemove, Finite
<1>20. SumFunction(now) + OnTheRoad(p) = SumFunction(first) + Traded(p)
  BY <1>8, <1>9, <1>13, <1>14, <1>15, <1>17, <1>18, <1>19
<1> QED BY <1>20 DEF now, first

\* Transfers neither create nor destroy goods, whatever is ordered, counted,
\* moved and canceled beside them: on hand and on the road together is what
\* there was plus what the other transactions brought.
THEOREM TransfersKeepGoods == Spec => []TransfersConserve
<1>1. IInv /\ LinksInv => TransfersConserve
  BY ConservedIfLinked
<1> QED BY <1>1, InventoryInvariant, LinksHold, PTL

-----------------------------------------------------------------------------
(* What an accepted document brought in stands on racks                     *)

DocumentLegs == TransferLegs \cup RestockTxs

StandsOnRacks(x) ==
    \A p \in Products : RackSum(placeNet[x], trx[x].warehouse, p) = trx[x].items[p]

LEMMA RackSumAt ==
  ASSUME NEW w \in Warehouses, NEW take \in [Products -> [Racks -> Int]],
         NEW p \in Products
  PROVE  /\ AtRacks(w, take) \in RackGrid
         /\ RackSum(AtRacks(w, take), w, p) = SumFunction(take[p])
BY MoveTypes DEF AtRacks, RackSum

\* The racks of a transaction that an accept has just made hold what the
\* request placed.
LEMMA PlacedInFull ==
  ASSUME PlaceTypes, RacksFollowStatus, NEW tx \in TxIds, trx[tx] = NoTx,
         NEW w \in Warehouses, NEW placed \in RackCounts, NEW items \in [Products -> Nat],
         ApplyPlacements(tx, AtRacks(w, placed)),
         trx'[tx].warehouse = w, trx'[tx].items = items,
         \A p \in Products : SumFunction(placed[p]) = items[p]
  PROVE  StandsOnRacks(tx)'
<1>1. placed \in [Products -> [Racks -> Int]]
  BY RackCountTypes
<1>2. AtRacks(w, placed) \in RackGrid
  BY <1>1, MoveTypes
<1>3. placeNet[tx] = NoMove
  BY DEF RacksFollowStatus
<1>4. placeNet'[tx] = AtRacks(w, placed)
  BY <1>2, <1>3, PlacedRows, AddNothing
<1>5. \A p \in Products : RackSum(placeNet'[tx], w, p) = items[p]
  BY <1>1, <1>4, RackSumAt
<1> QED BY <1>5 DEF StandsOnRacks, RackSum

\* With one row per product, what enters the stock is what the placements are
\* compared with.
LEMMA OneRowEnters ==
  ASSUME \A i, j \in Lines : i = j,
         NEW rows \in RowCounts, NEW problem \in [Products -> Nat], NEW p \in Products,
         problem[p] <= LastRow(rows, p)
  PROVE  Entering(rows, problem, p) = LastRow(rows, p) - problem[p]
<1> DEFINE f == [i \in Lines |-> Positive(rows[p][i] - problem[p])]
<1>1. Entering(rows, problem, p) = SumFunctionOnSet(f, Lines)
  BY DEF Entering, SumFunction
<1>2. CASE Lines = {}
  <2>1. LastRow(rows, p) = 0
    BY <1>2 DEF LastRow, Ordered
  <2>2. SumFunctionOnSet(f, {}) = 0
    BY SumUnfold, FS_EmptySet
  <2>3. problem[p] = 0
    BY <2>1
  <2> HIDE DEF f
  <2> QED BY <1>1, <1>2, <2>1, <2>2, <2>3
<1>3. ASSUME NEW i \in Lines
      PROVE  Entering(rows, problem, p) = LastRow(rows, p) - problem[p]
  <2>1. Lines = {i} /\ rows[p][i] \in Nat
    BY <1>3 DEF RowCounts
  <2>2. LastRow(rows, p) = rows[p][i]
    <3>1. CASE rows[p][i] > 0
      <4>1. Ordered(rows, p) = {i}
        BY <2>1, <3>1 DEF Ordered
      <4>2. (CHOOSE k \in {i} : \A j \in {i} : j <= k) = i
        BY <1>3, RestocksAssumption
      <4> QED BY <4>1, <4>2 DEF LastRow
    <3>2. CASE ~(rows[p][i] > 0)
      <4>1. Ordered(rows, p) = {} /\ rows[p][i] = 0
        BY <2>1, <3>2 DEF Ordered
      <4> QED BY <4>1 DEF LastRow
    <3> QED BY <3>1, <3>2
  <2>3. f[i] = rows[p][i] - problem[p]
    BY <1>3, <2>1, <2>2 DEF Positive
  <2>4. f[i] \in Int
    BY <2>1, <2>3
  <2> HIDE DEF f
  <2>5. SumFunctionOnSet(f, {i}) = f[i]
    BY <2>4, SumOne
  <2> QED BY <1>1, <2>1, <2>2, <2>3, <2>5
<1> QED BY <1>2, <1>3

\* A document gains no leg but the OUT leg of its create and the transaction
\* of its accept, and that one stands on racks.
LEMMA LegsGained ==
  ASSUME IInv, LinksInv, RacksFollowStatus, Next, \A i, j \in Lines : i = j,
         NEW x \in DocumentLegs'
  PROVE  \/ x \in DocumentLegs
         \/ trx'[x].type = "transfer_out"
         \/ StandsOnRacks(x)'
<1>0. PlaceTypes /\ TransfersTypeOK /\ RestocksTypeOK
  BY LedgerTypes DEF IInv, TypeOKRest
<1>1. /\ \A u \in TransferIds : Issued(u) => LegsOf(u) \subseteq DocumentLegs
      /\ \A d \in RestockIds : restocks[d] # NoRestock => restocks[d].tx \subseteq DocumentLegs
  BY DEF DocumentLegs, TransferLegs, RestockTxs, LegsOf
<1>2. \/ \E u \in TransferIds : Issued(u)' /\ x \in LegsOf(u)'
      \/ \E d \in RestockIds : restocks'[d] # NoRestock /\ x \in restocks'[d].tx
  BY DEF DocumentLegs, TransferLegs, RestockTxs, LegsOf
<1>3. ASSUME NEW t \in TransferIds,
             \A u \in TransferIds \ {t} : transfers'[u] = transfers[u],
             restocks' = restocks, x \notin DocumentLegs
      PROVE  x \in LegsOf(t)'
  BY <1>1, <1>2, <1>3 DEF Issued, LegsOf
<1>4. ASSUME NEW d \in RestockIds,
             \A e \in RestockIds \ {d} : restocks'[e] = restocks[e],
             transfers' = transfers, x \notin DocumentLegs
      PROVE  x \in restocks'[d].tx
  BY <1>1, <1>2, <1>4 DEF Issued, LegsOf
<1>5. CASE transfers' = transfers /\ restocks' = restocks
  BY <1>1, <1>2, <1>5 DEF Issued, LegsOf
<1>6. ASSUME restocks' = restocks, NEW t \in TransferIds, NEW from \in Warehouses,
             NEW to \in Warehouses, NEW items \in Requests, TransferCreate(t, from, to, items)
      PROVE  x \in DocumentLegs \/ trx'[x].type = "transfer_out"
  <2>1. PICK tx \in TxIds :
           /\ InsertTransaction(tx, from, "transfer_out", items)
           /\ transfers' = [transfers EXCEPT ![t] =
                 [from |-> from, to |-> to, items |-> items,
                  status |-> "pending", out |-> tx, in |-> {}]]
    BY <1>6 DEF TransferCreate, ApplyTransferLeg
  <2>2. /\ LegsOf(t)' = {tx}
        /\ \A u \in TransferIds \ {t} : transfers'[u] = transfers[u]
    BY <1>0, <2>1 DEF LegsOf, TransfersTypeOK
  <2>3. trx'[tx].type = "transfer_out"
    <3>1. trx'[tx] = [warehouse |-> from, type |-> "transfer_out",
                      status |-> "active", items |-> items]
      BY <2>1, EnteredRow
    <3> QED BY <3>1
  <2> QED BY <1>3, <1>6, <2>2, <2>3
<1>7. ASSUME restocks' = restocks, NEW t \in TransferIds, NEW placed \in RackCounts,
             TransferAccept(t, placed)
      PROVE  x \in DocumentLegs \/ StandsOnRacks(x)'
  <2> DEFINE doc == transfers[t]
  <2>1. PICK tx \in TxIds :
           /\ doc.status = "pending" /\ trx[tx] = NoTx
           /\ FullyPlaced(doc.to, doc.items, placed)
           /\ InsertTransaction(tx, doc.to, "transfer_in", doc.items)
           /\ ApplyPlacements(tx, AtRacks(doc.to, placed))
           /\ transfers' = [transfers EXCEPT ![t].status = "accepted", ![t].in = {tx}]
    BY <1>7 DEF TransferAccept, IsNextId, ApplyTransferLeg
  <2>2. doc \in Transfer /\ Issued(t)
    BY <1>0, <2>1, PendingTransfer
  <2>3. doc.to \in Warehouses /\ doc.items \in [Products -> Nat]
    BY <2>2 DEF Transfer
  <2>4. /\ transfers'[t] = [doc EXCEPT !.status = "accepted", !.in = {tx}]
        /\ \A u \in TransferIds \ {t} : transfers'[u] = transfers[u]
    BY <1>0, <2>1 DEF TransfersTypeOK
  <2>5. transfers'[t].out = doc.out /\ transfers'[t].in = {tx}
    BY <2>2, <2>4 DEF Transfer
  <2>6. doc.out \in DocumentLegs
    BY <1>1, <2>2 DEF LegsOf
  <2>7. trx'[tx] = [warehouse |-> doc.to, type |-> "transfer_in",
                    status |-> "active", items |-> doc.items]
    BY <2>1, EnteredRow
  <2> HIDE DEF doc
  <2>8. StandsOnRacks(tx)'
    BY <1>0, <2>1, <2>3, <2>7, PlacedInFull DEF FullyPlaced
  <2> QED BY <1>3, <1>7, <2>4, <2>5, <2>6, <2>8 DEF LegsOf
<1>8. ASSUME restocks' = restocks, NEW t \in TransferIds, TransferCancel(t)
      PROVE  x \in DocumentLegs
  <2>1. /\ transfers[t].status = "pending"
        /\ transfers' = [transfers EXCEPT ![t].status = "canceled"]
    BY <1>8 DEF TransferCancel
  <2>2. transfers[t] \in Transfer /\ Issued(t)
    BY <1>0, <2>1, PendingTransfer
  <2>3. LegsOf(t)' = LegsOf(t) /\ \A u \in TransferIds \ {t} : transfers'[u] = transfers[u]
    BY <1>0, <2>1, <2>2 DEF TransfersTypeOK, Transfer, LegsOf
  <2> QED BY <1>1, <1>3, <1>8, <2>2, <2>3
<1>9. ASSUME transfers' = transfers, NEW d \in RestockIds,
             NEW problem \in [Products -> 0 .. MaxCount], NEW placed \in RackCounts,
             RestockAccept(d, problem, placed)
      PROVE  x \in DocumentLegs \/ StandsOnRacks(x)'
  <2> DEFINE doc == restocks[d]
             items == [p \in Products |-> Entering(doc.rows, problem, p)]
             last == [p \in Products |-> LastRow(doc.rows, p) - problem[p]]
  <2>1. PICK tx \in TxIds :
           /\ Editable(d) /\ trx[tx] = NoTx
           /\ \A p \in Products : problem[p] <= LastRow(doc.rows, p)
           /\ FullyPlaced(doc.warehouse, last, placed)
           /\ InsertTransaction(tx, doc.warehouse, "restock", items)
           /\ ApplyPlacements(tx, AtRacks(doc.warehouse, placed))
           /\ restocks' = [restocks EXCEPT ![d].problem = problem,
                  ![d].status = "accepted", ![d].tx = {tx}]
    BY <1>9 DEF RestockAccept, IsNextId
  <2>2. doc \in Restock
    BY <1>0, <2>1, EditableRestock
  <2>3. /\ doc.warehouse \in Warehouses /\ doc.rows \in RowCounts
        /\ problem \in [Products -> Nat]
    BY <2>2, LedgerAssumption DEF Restock
  <2>4. items \in [Products -> Nat]
    BY <2>3, EnteringTypes
  <2>5. restocks'[d].tx = {tx} /\ \A e \in RestockIds \ {d} : restocks'[e] = restocks[e]
    BY <1>0, <2>1, <2>2 DEF RestocksTypeOK, Restock
  <2> HIDE DEF doc
  <2>6. \A p \in Products : last[p] = items[p]
    BY <2>1, <2>3, OneRowEnters
  <2> HIDE DEF items, last
  <2>7. trx'[tx] = [warehouse |-> doc.warehouse, type |-> "restock",
                    status |-> "active", items |-> items]
    BY <2>1, EnteredRow
  <2>8. StandsOnRacks(tx)'
    BY <1>0, <2>1, <2>3, <2>4, <2>6, <2>7, PlacedInFull DEF FullyPlaced
  <2> QED BY <1>4, <1>9, <2>5, <2>8
<1>10. ASSUME transfers' = transfers, NEW d \in RestockIds, RestockEdit(d)
       PROVE  x \in DocumentLegs
  BY <1>4, <1>10, EditedWithoutTx DEF LinksInv
<1>11. CASE TransferStep
  BY <1>6, <1>7, <1>8, <1>11 DEF TransferStep, TransfersNext
<1>12. CASE RestockStep
  BY <1>9, <1>10, <1>12 DEF RestockStep, RestocksNext, RestockEdit
<1> QED BY <1>5, <1>11, <1>12 DEF Next, TransactionStep, PlacementStep, OpnameStep

LEMMA PlacedStep ==
  ASSUME IInv, LinksInv, RacksFollowStatus, AcceptedPlaced, [Next]_vars,
         \A i, j \in Lines : i = j
  PROVE  AcceptedPlaced'
<1> DEFINE Due(x) == /\ x \in DocumentLegs /\ trx[x].status = "active"
                     /\ trx[x].type # "transfer_out"
<1>1. AcceptedPlaced <=> \A x \in TxIds : Due(x) => StandsOnRacks(x)
  BY DEF AcceptedPlaced, DocumentLegs, StandsOnRacks
<1>4. AcceptedPlaced' <=> \A x \in TxIds : Due(x)' => StandsOnRacks(x)'
  BY DEF AcceptedPlaced, DocumentLegs, StandsOnRacks, RackSum
<1>2. CASE UNCHANGED vars
  BY <1>1, <1>2, <1>4 DEF vars, ledgerVars, placeVars, DocumentLegs, TransferLegs,
     RestockTxs, Issued, StandsOnRacks, RackSum
<1>3. CASE Next
  <2> SUFFICES ASSUME NEW x \in TxIds, x \in DocumentLegs, x \in DocumentLegs',
                      trx'[x].status = "active", trx'[x].type # "transfer_out"
               PROVE  StandsOnRacks(x)'
    BY <1>3, <1>4, LegsGained
  <2>0. PlaceTypes
    BY LedgerTypes DEF IInv, TypeOKRest
  <2>1. trx[x] # NoTx
    BY LinkedLegs DEF DocumentLegs, TransferLegs, RestockTxs, LegsOf
  <2>2. trx[x].type # "transfer_out"
    BY <1>3, <2>1, StepKeepsRows DEF RowsKept
  <2>3. trx'[x] = trx[x] /\ placeNet'[x] = placeNet[x]
    <3>1. ASSUME NEW tx \in TxIds, NEW move \in RackGrid, Enters(tx, move)
          PROVE  trx'[x] = trx[x] /\ placeNet'[x] = placeNet[x]
      BY <2>0, <2>1, <3>1, EnteredRow, PlacedRows DEF Enters
    <3>2. ASSUME NEW tx \in TxIds, NEW move \in RackGrid, Leaves(tx, move)
          PROVE  trx'[x] = trx[x] /\ placeNet'[x] = placeNet[x]
      <4>1. trx'[tx].status = "canceled" /\ \A y \in TxIds \ {tx} : trx'[y] = trx[y]
        BY <3>2, LeftRow DEF Leaves
      <4>2. x # tx
        BY <4>1
      <4> QED BY <2>0, <3>2, <4>1, <4>2, PlacedRows DEF Leaves
    <3> QED BY <3>1, <3>2, StepShapes DEF Shapes, Shuffles
  <2>4. StandsOnRacks(x)
    BY <1>1, <2>2, <2>3
  <2> QED BY <2>3, <2>4 DEF StandsOnRacks, RackSum
<1> QED BY <1>2, <1>3

\* When no document has two rows of one product, what an accept brought in
\* stands on racks of its warehouse, unit for unit, until it is canceled.  The
\* hypothesis is needed: with two rows the code places the last and counts both.
THEOREM AcceptedStands ==
  ASSUME \A i, j \in Lines : i = j
  PROVE  Spec => []AcceptedPlaced
<1>1. Init => AcceptedPlaced
  BY DEF Init, LedgerInit, AcceptedPlaced, NoTx
<1>2. IInv /\ LinksInv /\ RacksFollowStatus /\ AcceptedPlaced /\ [Next]_vars => AcceptedPlaced'
  BY PlacedStep
<1> QED BY <1>1, <1>2, InventoryInvariant, LinksHold, RacksStatusHold, PTL DEF Spec

-----------------------------------------------------------------------------
(* Racks are not overdrawn                                                  *)

\* The rack falls below zero in this step.
Overdrawn(w, p, r) == place'[w][p][r] < place[w][p][r] /\ place'[w][p][r] < 0

CancelTakes(w, p, r) ==
    \E tx \in TxIds : /\ trx[tx].status = "active"
                      /\ trx'[tx].status = "canceled"
                      /\ placeNet[tx][w][p][r] > 0

LEMMA MoveValues ==
  ASSUME NEW v \in Warehouses, NEW w \in Warehouses, NEW p \in Products, NEW r \in Racks,
         NEW take
  PROVE  AtRacks(v, take)[w][p][r] = IF w = v THEN take[p][r] ELSE 0
BY DEF AtRacks, NoRacks

\* Goods that are placed overdraw no rack.
LEMMA PlacingIsSafe ==
  ASSUME place \in RackGrid, NEW move,
         place' = AddMove(place, move),
         NEW w \in Warehouses, NEW p \in Products, NEW r \in Racks,
         move[w][p][r] \in Nat
  PROVE  ~Overdrawn(w, p, r)
<1>1. place'[w][p][r] = place[w][p][r] + move[w][p][r]
  BY AddValues
<1>2. place[w][p][r] \in Int
  BY DEF RackGrid
<1> QED BY <1>1, <1>2 DEF Overdrawn

LEMMA OrderIsSafe ==
  ASSUME IInv, NEW v \in Warehouses, NEW items \in Requests, OrderCreate(v, items),
         NEW w \in Warehouses, NEW p \in Products, NEW r \in Racks
  PROVE  ~Overdrawn(w, p, r)
<1>1. PICK picks \in RackCounts :
         /\ IsPick(v, p, items[p], picks[p])
         /\ place' = AddMove(place, NegMove(AtRacks(v, picks)))
  BY DEF OrderCreate, ApplyPlacements
<1> DEFINE out == AtRacks(v, picks)
           move == NegMove(out)
<1>2. out[w][p][r] = IF w = v THEN picks[p][r] ELSE 0
  BY MoveValues
<1>3. place' = AddMove(place, move)
  BY <1>1
<1> HIDE DEF out
<1>4. move[w][p][r] = -out[w][p][r]
  BY NegValue
<1> HIDE DEF move
<1>5. place'[w][p][r] = place[w][p][r] + move[w][p][r]
  BY <1>3, AddValues
<1>6. place[w][p][r] \in Int /\ picks[p][r] \in Int
  BY LedgerTypes, RackCountTypes DEF IInv, TypeOKRest, PlaceTypes, RackGrid
<1>7. CASE w = v /\ r \in Pickable(v, p)
  <2>1. picks[p][r] <= place[v][p][r]
    BY <1>1, <1>7 DEF IsPick
  <2> QED BY <1>2, <1>4, <1>5, <1>6, <1>7, <2>1 DEF Overdrawn
<1>8. CASE w = v /\ r \notin Pickable(v, p)
  <2>1. picks[p][r] = 0
    BY <1>1, <1>8 DEF IsPick
  <2> QED BY <1>2, <1>4, <1>5, <1>6, <2>1 DEF Overdrawn
<1>9. CASE w # v
  BY <1>2, <1>4, <1>5, <1>6, <1>9 DEF Overdrawn
<1> QED BY <1>7, <1>8, <1>9

LEMMA CancelIsNamed ==
  ASSUME IInv, NEW tx \in TxIds, TransactionCancel(tx),
         NEW w \in Warehouses, NEW p \in Products, NEW r \in Racks, Overdrawn(w, p, r)
  PROVE  CancelTakes(w, p, r)
<1> DEFINE a == placeNet[tx]
           move == CancelMove(tx)
<1>0. PlaceTypes
  BY LedgerTypes DEF IInv, TypeOKRest
<1>1. AddMove(a, move) = NoMove /\ place' = AddMove(place, move)
  BY <1>0, CancelUndoes DEF TransactionCancel, ApplyPlacements
<1>2. a \in RackGrid /\ move \in RackGrid /\ place \in RackGrid
  BY <1>0, RestoredTypes DEF PlaceTypes
<1>3. trx[tx].status = "active" /\ trx'[tx].status = "canceled"
  BY LeftRow DEF TransactionCancel, Exists
<1> HIDE DEF a, move
<1>4. a[w][p][r] + move[w][p][r] = 0 /\ place'[w][p][r] = place[w][p][r] + move[w][p][r]
  BY <1>1, AddValues
<1>5. a[w][p][r] \in Int /\ move[w][p][r] \in Int /\ place[w][p][r] \in Int
  BY <1>2 DEF RackGrid
<1>6. a[w][p][r] > 0
  BY <1>4, <1>5 DEF Overdrawn
<1> QED BY <1>3, <1>6 DEF CancelTakes, a

LEMMA LegValues ==
  ASSUME NEW m \in MoveItems, NEW p \in Products, NEW r \in Racks
  PROVE  /\ Leg(m)[p][r] = IF p = m.product /\ r = m.to THEN m.count
                           ELSE IF p = m.product /\ r = m.from THEN -m.count ELSE 0
         /\ m.count \in Nat /\ m.product \in Products
         /\ m.from \in Racks /\ m.to \in Racks /\ m.from # m.to
         /\ Leg(m)[p][r] \in Int
         /\ Leg(m)[p][r] < 0 => p = m.product /\ r = m.from /\ Leg(m)[p][r] = -m.count
<1>1. /\ m.count \in Nat /\ m.product \in Products
      /\ m.from \in Racks /\ m.to \in Racks /\ m.from # m.to
  BY LedgerAssumption DEF MoveItems
<1>2. Leg(m)[p][r] = IF p = m.product /\ r = m.to THEN m.count
                     ELSE IF p = m.product /\ r = m.from THEN -m.count ELSE 0
  BY <1>1 DEF Leg
<1> QED BY <1>1, <1>2

LEMMA RackMoveIsSafe ==
  ASSUME IInv, NEW v \in Warehouses, PlacementMove(v),
         NEW w \in Warehouses, NEW p \in Products, NEW r \in Racks
  PROVE  ~Overdrawn(w, p, r)
<1>0. place \in RackGrid /\ place[w][p][r] \in Int
  BY LedgerTypes DEF IInv, TypeOKRest, PlaceTypes, RackGrid
<1>1. ASSUME NEW m \in MoveItems, MoveOne(v, m)
      PROVE  ~Overdrawn(w, p, r)
  <2> DEFINE a == AtRacks(v, Leg(m))
  <2>1. a[w][p][r] = IF w = v THEN Leg(m)[p][r] ELSE 0
    BY MoveValues
  <2>2. m.count <= place[v][m.product][m.from] /\ place' = AddMove(place, a)
    BY <1>1 DEF MoveOne
  <2> HIDE DEF a
  <2>3. place'[w][p][r] = place[w][p][r] + a[w][p][r]
    BY <2>2, AddValues
  <2> QED BY <1>0, <2>1, <2>2, <2>3, LegValues DEF Overdrawn
<1>2. ASSUME NEW m \in MoveItems, NEW n \in MoveItems, MoveTwo(v, m, n)
      PROVE  ~Overdrawn(w, p, r)
  <2> DEFINE a == AtRacks(v, Leg(m))
             b == AtRacks(v, Leg(n))
             mid == AddMove(place, a)
  <2>1. /\ a[w][p][r] = IF w = v THEN Leg(m)[p][r] ELSE 0
        /\ b[w][p][r] = IF w = v THEN Leg(n)[p][r] ELSE 0
    BY MoveValues
  <2>2. /\ m.count <= place[v][m.product][m.from]
        /\ n.count <= place[v][n.product][n.from] + Leg(m)[n.product][n.from]
        /\ place' = AddMove(mid, b)
    BY <1>2 DEF MoveTwo
  <2> HIDE DEF a, b
  <2>3. mid[w][p][r] = place[w][p][r] + a[w][p][r]
    BY AddValues
  <2> HIDE DEF mid
  <2>4. place'[w][p][r] = mid[w][p][r] + b[w][p][r]
    BY <2>2, AddValues
  <2> DEFINE x == Leg(m)[p][r]
             y == Leg(n)[p][r]
  <2>5. /\ x \in Int /\ (x < 0 => p = m.product /\ r = m.from /\ x = -m.count)
        /\ y \in Int /\ (y < 0 => p = n.product /\ r = n.from /\ y = -n.count)
        /\ m.count \in Nat /\ n.count \in Nat
    BY LegValues
  <2>6. x < 0 /\ w = v => -x <= place[w][p][r]
    BY <1>0, <2>2, <2>5
  <2>7. y < 0 /\ w = v => -y <= place[w][p][r] + x
    BY <1>0, <2>2, <2>5
  <2> HIDE DEF x, y
  <2>8. place'[w][p][r] = IF w = v THEN place[w][p][r] + x + y ELSE place[w][p][r]
    BY <1>0, <2>1, <2>3, <2>4, <2>5 DEF x, y
  <2> QED BY <1>0, <2>5, <2>6, <2>7, <2>8 DEF Overdrawn
<1> QED BY <1>1, <1>2 DEF PlacementMove

LEMMA AdjustIsSafe ==
  ASSUME IInv, NEW o \in OpnameIds, OpnameAdjust(o),
         NEW w \in Warehouses, NEW p \in Products, NEW r \in Racks
  PROVE  ~Overdrawn(w, p, r)
<1> DEFINE v == opnames[o].warehouse
           move == AtRacks(v, Deltas(o))
           n == opnames[o].counted[p][r]
<1>1. Pending(o) /\ place' = AddMove(place, move)
  BY DEF OpnameAdjust, ApplyPlacements
<1>2. opnames[o] \in Opname
  BY <1>1, LedgerTypes, PendingOpname DEF IInv, TypeOKRest
<1>3. v \in Warehouses /\ n \in CountOf
  BY <1>2 DEF Opname
<1>4. Deltas(o)[p][r] = IF n = Uncounted THEN 0 ELSE n - place[v][p][r]
  BY DEF Deltas
<1> HIDE DEF v, n
<1>5. move[w][p][r] = IF w = v THEN Deltas(o)[p][r] ELSE 0
  BY <1>3, MoveValues
<1> HIDE DEF move
<1>6. place'[w][p][r] = place[w][p][r] + move[w][p][r]
  BY <1>1, AddValues
<1>7. place[w][p][r] \in Int
  BY LedgerTypes DEF IInv, TypeOKRest, PlaceTypes, RackGrid
<1> QED BY <1>3, <1>4, <1>5, <1>6, <1>7 DEF Overdrawn, CountOf, Uncounted

LEMMA AcceptIsSafe ==
  ASSUME IInv, NEW v \in Warehouses, NEW placed \in RackCounts,
         place' = AddMove(place, AtRacks(v, placed)),
         NEW w \in Warehouses, NEW p \in Products, NEW r \in Racks
  PROVE  ~Overdrawn(w, p, r)
<1> DEFINE move == AtRacks(v, placed)
<1>1. move[w][p][r] = IF w = v THEN placed[p][r] ELSE 0
  BY MoveValues
<1>2. placed[p][r] \in Nat
  BY LedgerAssumption DEF RackCounts
<1>3. place \in RackGrid /\ place' = AddMove(place, move)
  BY LedgerTypes DEF IInv, TypeOKRest, PlaceTypes
<1> HIDE DEF move
<1> QED BY <1>1, <1>2, <1>3, PlacingIsSafe

LEMMA HistoryCounts ==
  ASSUME NEW tx \in TxIds, NEW w \in Warehouses, NEW p \in Products, NEW r \in Racks
  PROVE  Histories[tx][w][p][r] \in Nat
<1> DEFINE h == Histories[tx]
<1>1. h \in [Warehouses -> [Products -> [Racks -> Nat]]]
  BY LedgerAssumption
<1> HIDE DEF h
<1>2. h[w][p][r] \in Nat
  BY <1>1
<1> QED BY <1>2 DEF h

LEMMA TransferIsSafe ==
  ASSUME IInv, TransfersNext,
         NEW w \in Warehouses, NEW p \in Products, NEW r \in Racks
  PROVE  ~Overdrawn(w, p, r)
<1>0. /\ place \in RackGrid /\ place[w][p][r] \in Int
      /\ PlaceTypes /\ TransfersTypeOK
  BY LedgerTypes DEF IInv, TypeOKRest, PlaceTypes, RackGrid
<1>1. ASSUME NEW t \in TransferIds, NEW from \in Warehouses, NEW to \in Warehouses,
             NEW items \in Requests, TransferCreate(t, from, to, items)
      PROVE  ~Overdrawn(w, p, r)
  BY <1>0, <1>1 DEF TransferCreate, placeVars, Overdrawn
<1>2. ASSUME NEW t \in TransferIds, NEW placed \in RackCounts, TransferAccept(t, placed)
      PROVE  ~Overdrawn(w, p, r)
  <2>1. /\ transfers[t].status = "pending"
        /\ place' = AddMove(place, AtRacks(transfers[t].to, placed))
    BY <1>2 DEF TransferAccept, ApplyPlacements
  <2>2. transfers[t].to \in Warehouses
    BY <1>0, <2>1, PendingTransfer DEF Transfer
  <2> QED BY <2>1, <2>2, AcceptIsSafe
<1>3. ASSUME NEW t \in TransferIds, TransferCancel(t)
      PROVE  ~Overdrawn(w, p, r)
  <2> DEFINE out == transfers[t].out
             move == RestoredRacks(out)
  <2>1. transfers[t].status = "pending" /\ place' = AddMove(place, move)
    BY <1>3 DEF TransferCancel, ApplyPlacements
  <2>2. out \in TxIds
    BY <1>0, <2>1, PendingTransfer DEF Transfer
  <2>3. move[w][p][r] \in Nat
    <3>1. Histories[out][w][p][r] \in Nat
      BY <2>2, HistoryCounts
    <3>2. NoMove[w][p][r] = 0
      BY DEF NoMove, NoRacks
    <3> QED BY <3>1, <3>2 DEF RestoredRacks
  <2> HIDE DEF out, move
  <2> QED BY <1>0, <2>1, <2>3, PlacingIsSafe
<1> QED BY <1>1, <1>2, <1>3 DEF TransfersNext

\* Orders, rack moves, accepts and stock-takes never take from a rack what it
\* does not hold, two legs of one request and recounts of stale snapshots
\* included: a rack that falls below zero was emptied by the cancel of a
\* transaction whose goods it held.
THEOREM RacksNotOverdrawn == Spec => OnlyCancelsOverdraw
<1>1. ASSUME IInv, Next, NEW w \in Warehouses, NEW p \in Products, NEW r \in Racks,
             Overdrawn(w, p, r)
      PROVE  CancelTakes(w, p, r)
  <2>0. place[w][p][r] \in Int
    BY <1>1, LedgerTypes DEF IInv, TypeOKRest, PlaceTypes, RackGrid
  <2>1. place' # place
    BY <1>1, <2>0 DEF Overdrawn
  <2>2. CASE TransactionStep
    <3>1. ASSUME NEW v \in Warehouses, NEW type \in PlainKinds, NEW items \in Requests,
                 PlainCreate(v, type, items)
          PROVE  FALSE
      BY <2>1, <3>1 DEF PlainCreate, placeVars
    <3>2. ASSUME NEW v \in Warehouses, NEW q \in Products, NEW policy \in Policies,
                 ProductConfigUpdate(v, q, policy)
          PROVE  FALSE
      BY <2>1, <3>2 DEF ProductConfigUpdate, ledgerVars, placeVars
    <3> QED BY <1>1, <2>2, <3>1, <3>2, OrderIsSafe, CancelIsNamed
            DEF TransactionStep, TransactionsNext
  <2>3. CASE PlacementStep
    <3>1. ASSUME NEW q \in Racks, RackCreate(q) \/ RackDelete(q)
          PROVE  FALSE
      BY <2>1, <3>1 DEF RackCreate, RackDelete, ledgerVars, placeVars
    <3> QED BY <1>1, <2>3, <3>1, RackMoveIsSafe DEF PlacementStep, PlacementsNext
  <2>4. CASE TransferStep
    BY <1>1, <2>4, TransferIsSafe DEF TransferStep
  <2>5. CASE RestockStep
    <3>1. PICK d \in RestockIds, problem \in [Products -> 0 .. MaxCount],
               placed \in RackCounts : RestockAccept(d, problem, placed)
      BY <2>1, <2>5 DEF RestockStep, RestocksNext, RestockCreate, ChangeStatus,
         UpdateItems, RestockCancel, ledgerVars, placeVars
    <3>2. Editable(d) /\ place' = AddMove(place, AtRacks(restocks[d].warehouse, placed))
      BY <3>1 DEF RestockAccept, ApplyPlacements
    <3>3. restocks[d].warehouse \in Warehouses
      BY <1>1, <3>2, EditableRestock, LedgerTypes DEF IInv, TypeOKRest, Restock
    <3> QED BY <1>1, <3>2, <3>3, AcceptIsSafe
  <2>6. CASE OpnameStep
    <3>1. PICK o \in OpnameIds : OpnameAdjust(o)
      BY <2>1, <2>6 DEF OpnameStep, OpnamesNext, OpnameCreate, OpnameLineCount,
         OpnameComplete, OpnameConfirm, OpnameCancel, ledgerVars, placeVars
    <3> QED BY <1>1, <3>1, AdjustIsSafe
  <2> QED BY <1>1, <2>2, <2>3, <2>4, <2>5, <2>6 DEF Next
<1>2. IInv /\ [Next]_vars =>
         [\A w \in Warehouses, p \in Products, r \in Racks :
             place'[w][p][r] < place[w][p][r] /\ place'[w][p][r] < 0 =>
                 \E tx \in TxIds : /\ trx[tx].status = "active"
                                   /\ trx'[tx].status = "canceled"
                                   /\ placeNet[tx][w][p][r] > 0]_vars
  BY <1>1 DEF Overdrawn, CancelTakes
<1> QED BY <1>2, InventoryInvariant, PTL DEF Spec, OnlyCancelsOverdraw

-----------------------------------------------------------------------------
(* A completed stock-take                                                   *)

CountsMatch(o) ==
    LET w == opnames[o].warehouse IN
    \A p \in Products :
       /\ \A r \in Racks : place'[w][p][r] =
             IF opnames[o].counted[p][r] = Uncounted
             THEN place[w][p][r] ELSE opnames[o].counted[p][r]
       /\ stock'[w][p] - stock[w][p] = RackSum(place', w, p) - RackSum(place, w, p)

LEMMA AdjustMatches ==
  ASSUME IInv, NEW o \in OpnameIds, OpnameAdjust(o)
  PROVE  CountsMatch(o)
<1>0. PlaceTypes /\ place \in RackGrid /\ OpnamesTypeOK /\ LogTypes
  BY LedgerTypes DEF IInv, TypeOKRest, PlaceTypes
<1> DEFINE w == opnames[o].warehouse
           move == AtRacks(w, Deltas(o))
<1>1. PICK tx \in TxIds :
         /\ Pending(o)
         /\ ProcessStockBatchLog(tx, At(w, Variance(o)))
         /\ place' = AddMove(place, move)
  BY DEF OpnameAdjust, ApplyPlacements
<1>2. opnames[o] \in Opname
  BY <1>0, <1>1, PendingOpname
<1>3. w \in Warehouses /\ opnames[o].counted \in [Products -> [Racks -> CountOf]]
  BY <1>2 DEF Opname
<1>4. /\ Deltas(o) \in [Products -> [Racks -> Int]]
      /\ Variance(o) \in [Products -> Int]
  BY <1>0, <1>2, DeltasTypes
<1>5. \A p \in Products, r \in Racks : Deltas(o)[p][r] =
         IF opnames[o].counted[p][r] = Uncounted THEN 0
         ELSE opnames[o].counted[p][r] - place[w][p][r]
  BY DEF Deltas
<1>6. \A p \in Products : Variance(o)[p] = SumFunction(Deltas(o)[p])
  BY DEF Variance
<1> HIDE DEF w
<1>7. /\ move \in RackGrid
      /\ \A p \in Products : RackSum(move, w, p) = SumFunction(Deltas(o)[p])
  BY <1>3, <1>4, RackSumAt, MoveTypes
<1>8. \A p \in Products, r \in Racks : move[w][p][r] = Deltas(o)[p][r]
  BY <1>3, MoveValues
<1> HIDE DEF move
<1>9. ASSUME NEW p \in Products, NEW r \in Racks
      PROVE  place'[w][p][r] = IF opnames[o].counted[p][r] = Uncounted
                               THEN place[w][p][r] ELSE opnames[o].counted[p][r]
  <2>1. place'[w][p][r] = place[w][p][r] + move[w][p][r]
    BY <1>1, <1>3, AddValues
  <2>2. place[w][p][r] \in Int /\ opnames[o].counted[p][r] \in Int
    BY <1>0, <1>3 DEF RackGrid, CountOf, Uncounted
  <2> QED BY <1>5, <1>8, <2>1, <2>2
<1>10. ASSUME NEW p \in Products
       PROVE  stock'[w][p] - stock[w][p] = RackSum(place', w, p) - RackSum(place, w, p)
  <2>1. stock'[w][p] = stock[w][p] + At(w, Variance(o))[w][p]
    BY <1>0, <1>1, <1>3, <1>4, LogAt
  <2>2. At(w, Variance(o))[w][p] = Variance(o)[p]
    BY <1>3, <1>4, AtValues
  <2>3. RackSum(place', w, p) = RackSum(place, w, p) + RackSum(move, w, p)
    BY <1>0, <1>1, <1>3, <1>7, RackSumAdds
  <2>4. RackSum(place, w, p) \in Int /\ Variance(o)[p] \in Int /\ stock[w][p] \in Int
    BY <1>0, <1>3, <1>4, RackSumOf DEF LogTypes, Grid
  <2> QED BY <1>6, <1>7, <2>1, <2>2, <2>3, <2>4
<1> QED BY <1>9, <1>10 DEF CountsMatch, w

LEMMA ConfirmMatches ==
  ASSUME IInv, NEW o \in OpnameIds, OpnameConfirm(o)
  PROVE  CountsMatch(o)
<1>0. place \in RackGrid /\ OpnamesTypeOK /\ stock \in Grid
  BY LedgerTypes DEF IInv, TypeOKRest, PlaceTypes, LogTypes
<1> DEFINE w == opnames[o].warehouse
<1>1. Pending(o) /\ Deltas(o) = NoRacks /\ place' = place /\ stock' = stock
  BY DEF OpnameConfirm, ledgerVars, placeVars, logVars
<1>2. opnames[o] \in Opname
  BY <1>0, <1>1, PendingOpname
<1>3. w \in Warehouses /\ opnames[o].counted \in [Products -> [Racks -> CountOf]]
  BY <1>2 DEF Opname
<1>4. \A p \in Products, r \in Racks : NoRacks[p][r] =
         IF opnames[o].counted[p][r] = Uncounted THEN 0
         ELSE opnames[o].counted[p][r] - place[w][p][r]
  BY <1>1 DEF Deltas
<1> HIDE DEF w
<1>5. ASSUME NEW p \in Products, NEW r \in Racks
      PROVE  place'[w][p][r] = IF opnames[o].counted[p][r] = Uncounted
                               THEN place[w][p][r] ELSE opnames[o].counted[p][r]
  <2>1. place[w][p][r] \in Int /\ opnames[o].counted[p][r] \in Int /\ NoRacks[p][r] = 0
    BY <1>0, <1>3 DEF RackGrid, CountOf, Uncounted, NoRacks
  <2> QED BY <1>1, <1>4, <2>1
<1>6. \A p \in Products : stock[w][p] \in Int /\ RackSum(place, w, p) \in Int
  BY <1>0, <1>3, RackSumOf DEF Grid
<1>7. \A p \in Products :
         stock'[w][p] - stock[w][p] = RackSum(place', w, p) - RackSum(place, w, p)
  BY <1>1, <1>6
<1> QED BY <1>5, <1>7 DEF CountsMatch, w

\* However stale the snapshot and whatever moved since, the step that completes
\* a session leaves every counted rack holding what was counted, keeps the
\* others, and corrects the stock by what it did to the racks.
THEOREM CountsBecomeTruth == Spec => CountedIsTruth
<1>1. ASSUME IInv, Next, NEW o \in OpnameIds,
             opnames[o].status = "pending", opnames'[o].status = "completed"
      PROVE  CountsMatch(o)
  <2>0. opnames \in [OpnameIds -> Opname \cup {NoOpname}] /\ opnames[o] \in Opname
    BY <1>1, LedgerTypes, PendingOpname DEF IInv, TypeOKRest, OpnamesTypeOK, Pending
  <2>1. OpnamesNext
    BY <1>1 DEF Next, TransactionStep, PlacementStep, TransferStep, RestockStep, OpnameStep
  <2>2. ASSUME NEW q \in OpnameIds, OpnameComplete(q)
        PROVE  q = o
    BY <1>1, <2>0, <2>2 DEF OpnameComplete, OpnameAdjust, OpnameConfirm, CompleteInto
  <2>3. ASSUME NEW q \in OpnameIds,
               \/ \E w \in Warehouses : OpnameCreate(q, w)
               \/ OpnameCancel(q)
        PROVE  FALSE
    BY <1>1, <2>0, <2>3 DEF OpnameCreate, OpnameCancel, Opname
  <2>4. ASSUME NEW q \in OpnameIds, NEW r \in Racks,
               NEW count \in [Products -> {Uncounted} \cup 0 .. MaxCount],
               OpnameLineCount(q, r, count)
        PROVE  FALSE
    <3>1. opnames'[o] = opnames[o] \/ (q = o /\ \E new :
              opnames'[o] = [opnames[o] EXCEPT !.counted = new])
      BY <2>0, <2>4 DEF OpnameLineCount
    <3> QED BY <1>1, <2>0, <3>1 DEF Opname
  <2> QED BY <1>1, <2>1, <2>2, <2>3, <2>4, AdjustMatches, ConfirmMatches
          DEF OpnamesNext, OpnameComplete
<1>2. IInv /\ [Next]_vars =>
         [\A o \in OpnameIds :
             opnames[o].status = "pending" /\ opnames'[o].status = "completed" =>
             LET w == opnames[o].warehouse IN
             \A p \in Products :
                /\ \A r \in Racks : place'[w][p][r] =
                      IF opnames[o].counted[p][r] = Uncounted
                      THEN place[w][p][r] ELSE opnames[o].counted[p][r]
                /\ stock'[w][p] - stock[w][p]
                      = RackSum(place', w, p) - RackSum(place, w, p)]_vars
  BY <1>1 DEF CountsMatch
<1> QED BY <1>2, InventoryInvariant, PTL DEF Spec, CountedIsTruth

-----------------------------------------------------------------------------
(* A short pick                                                             *)

\* A pick that takes less than was asked takes all the racks hold.
LEMMA ShortPickTakesAll ==
  ASSUME place \in RackGrid, NEW w \in Warehouses, NEW p \in Products,
         NEW need \in Nat, NEW take \in [Racks -> Nat],
         IsPick(w, p, need, take), SumFunction(take) < need
  PROVE  \A r \in Pickable(w, p) : take[r] = place[w][p][r]
<1> DEFINE held == place[w][p]
           racks == Pickable(w, p)
           rest == Racks \ racks
<1>1. held \in [Racks -> Int]
  BY DEF RackGrid
<1>2. /\ racks \subseteq Racks /\ IsFiniteSet(racks) /\ IsFiniteSet(rest)
      /\ racks \cap rest = {} /\ racks \cup rest = Racks
  <2>1. racks \subseteq Racks
    BY DEF Pickable
  <2> QED BY <2>1, FS_Subset, Finite
<1>3. /\ \A r \in rest : take[r] = 0
      /\ \A r \in racks : take[r] <= held[r]
      /\ SumFunction(take) = IF need < SumFunctionOnSet(held, racks) THEN need
                             ELSE SumFunctionOnSet(held, racks)
  BY DEF IsPick
<1>4. SumFunction(take) = SumFunctionOnSet(take, Racks)
  BY DEF SumFunction
<1> HIDE DEF held, racks, rest
<1>5. SumFunctionOnSet(take, racks \cup rest)
         = SumFunctionOnSet(take, racks) + SumFunctionOnSet(take, rest)
  BY <1>2, SumDisjoint
<1>6. SumFunctionOnSet(take, rest) = 0
  BY <1>2, <1>3, SumZero
<1>7. \A r \in racks : take[r] \in Int /\ held[r] \in Int /\ take[r] <= held[r]
  BY <1>1, <1>2, <1>3
<1>8. SumFunctionOnSet(take, racks) \in Int /\ SumFunctionOnSet(held, racks) \in Int
  BY <1>2, <1>7, SumRemove
<1>9. SumFunctionOnSet(take, racks) = SumFunctionOnSet(held, racks)
  <2>1. racks \cup rest = Racks
    BY <1>2
  <2>2. SumFunction(take) = SumFunctionOnSet(take, racks)
    <3>1. SumFunctionOnSet(take, Racks) = SumFunctionOnSet(take, racks \cup rest)
      BY <2>1
    <3>2. SumFunctionOnSet(take, racks) + 0 = SumFunctionOnSet(take, racks)
      BY <1>8
    <3>3. SumFunctionOnSet(take, racks \cup rest) = SumFunctionOnSet(take, racks) + 0
      BY <1>5, <1>6
    <3> QED BY <1>4, <3>1, <3>2, <3>3
  <2> DEFINE got == SumFunction(take)
             all == SumFunctionOnSet(held, racks)
  <2>3. got < need /\ got = IF need < all THEN need ELSE all
    BY <1>3
  <2>4. got \in Int /\ all \in Int
    BY <1>8, <2>2
  <2> HIDE DEF got, all
  <2>5. got = all
    BY <2>3, <2>4
  <2> QED BY <2>2, <2>5 DEF got, all
<1>10. \A r \in racks : take[r] = held[r]
  BY <1>2, <1>7, <1>9, SumAtMost
<1> QED BY <1>10 DEF held, racks

LEMMA NegSum ==
  ASSUME NEW w \in Warehouses, NEW take \in [Products -> [Racks -> Int]], NEW p \in Products
  PROVE  /\ SumFunction(take[p]) \in Int
         /\ RackSum(NegMove(AtRacks(w, take)), w, p) = -SumFunction(take[p])
<1> DEFINE a == AtRacks(w, take)
           b == NegMove(a)
<1>1. a \in RackGrid /\ RackSum(a, w, p) = SumFunction(take[p])
  BY RackSumAt
<1> HIDE DEF a
<1>2. b \in RackGrid
  BY <1>1, MoveTypes
<1>3. AddMove(a, b) = NoMove
  <2>1. AddMove(a, b) \in RackGrid /\ NoMove \in RackGrid
    BY <1>1, <1>2, MoveTypes
  <2>2. ASSUME NEW v \in Warehouses, NEW q \in Products, NEW r \in Racks
        PROVE  AddMove(a, b)[v][q][r] = NoMove[v][q][r]
    <3>1. b[v][q][r] = -a[v][q][r]
      BY NegValue
    <3> HIDE DEF b
    <3>2. AddMove(a, b)[v][q][r] = a[v][q][r] + b[v][q][r]
      BY AddValues
    <3>4. NoMove[v][q][r] = 0
      BY DEF NoMove, NoRacks
    <3>3. a[v][q][r] \in Int
      BY <1>1 DEF RackGrid
    <3> QED BY <3>1, <3>2, <3>3, <3>4
  <2> QED BY <2>1, <2>2, RackGridEq
<1> HIDE DEF b
<1>4. RackSum(AddMove(a, b), w, p) = RackSum(a, w, p) + RackSum(b, w, p)
  BY <1>1, <1>2, RackSumAdds
<1>5. RackSum(NoMove, w, p) = 0 /\ RackSum(a, w, p) \in Int /\ RackSum(b, w, p) \in Int
  BY <1>1, <1>2, RackSumOfNothing, RackSumOf
<1> QED BY <1>1, <1>3, <1>4, <1>5 DEF a, b

\* The row an order inserts is the only new row of type order in a step.
LEMMA NewOrder ==
  ASSUME IInv, LinksInv, Next, NEW tx \in TxIds, trx[tx] = NoTx, trx'[tx] # NoTx,
         trx'[tx].type = "order"
  PROVE  \E w \in Warehouses, items \in Requests : OrderCreate(w, items)
<1>1. ASSUME NEW x \in TxIds, NEW w, NEW type, NEW items, InsertTransaction(x, w, type, items)
      PROVE  type = "order"
  <2>1. x = tx
    BY <1>1, EnteredRow
  <2>2. trx'[tx] = [warehouse |-> w, type |-> type, status |-> "active", items |-> items]
    BY <1>1, <2>1, EnteredRow
  <2> QED BY <2>2
<1>2. ASSUME NEW x \in TxIds, trx[x] # NoTx, trx' = [trx EXCEPT ![x].status = "canceled"]
      PROVE  FALSE
  BY <1>2, LeftRow
<1>3. trx' # trx
  OBVIOUS
<1>4. CASE TransactionStep
  <2>1. ASSUME NEW w \in Warehouses, NEW type \in PlainKinds, NEW items \in Requests,
               PlainCreate(w, type, items)
        PROVE  FALSE
    BY <1>1, <2>1 DEF PlainCreate, PlainKinds, InboundKinds
  <2>2. ASSUME NEW x \in TxIds, TransactionCancel(x)
        PROVE  FALSE
    BY <1>2, <2>2 DEF TransactionCancel, Exists
  <2>3. ASSUME NEW w \in Warehouses, NEW p \in Products, NEW policy \in Policies,
               ProductConfigUpdate(w, p, policy)
        PROVE  FALSE
    BY <1>3, <2>3 DEF ProductConfigUpdate, ledgerVars
  <2> QED BY <1>4, <2>1, <2>2, <2>3 DEF TransactionStep, TransactionsNext
<1>5. CASE PlacementStep
  BY <1>3, <1>5 DEF PlacementStep, PlacementsNext, RackCreate, RackDelete, PlacementMove,
     MoveOne, MoveTwo, ledgerVars
<1>6. CASE TransferStep
  <2>1. ASSUME NEW t \in TransferIds, NEW from \in Warehouses, NEW to \in Warehouses,
               NEW items \in Requests, TransferCreate(t, from, to, items)
        PROVE  FALSE
    BY <1>1, <2>1 DEF TransferCreate, ApplyTransferLeg
  <2>2. ASSUME NEW t \in TransferIds, NEW placed \in RackCounts, TransferAccept(t, placed)
        PROVE  FALSE
    BY <1>1, <2>2 DEF TransferAccept, ApplyTransferLeg
  <2>3. ASSUME NEW t \in TransferIds, TransferCancel(t)
        PROVE  FALSE
    <3>1. transfers[t] \in Transfer /\ Issued(t)
      BY <2>3, LedgerTypes, PendingTransfer DEF IInv, TypeOKRest, TransferCancel
    <3>2. transfers[t].out \in TxIds /\ trx[transfers[t].out] # NoTx
      BY <3>1 DEF Transfer, IInv, OutExists
    <3> QED BY <1>2, <2>3, <3>2 DEF TransferCancel
  <2> QED BY <1>6, <2>1, <2>2, <2>3 DEF TransferStep, TransfersNext
<1>7. CASE RestockStep
  <2>1. ASSUME NEW d \in RestockIds, NEW problem \in [Products -> 0 .. MaxCount],
               NEW placed \in RackCounts, RestockAccept(d, problem, placed)
        PROVE  FALSE
    BY <1>1, <2>1 DEF RestockAccept
  <2> QED BY <1>3, <1>7, <2>1 DEF RestockStep, RestocksNext, RestockCreate, ChangeStatus,
          UpdateItems, RestockCancel, ledgerVars
<1>8. CASE OpnameStep
  <2>1. ASSUME NEW o \in OpnameIds, OpnameAdjust(o)
        PROVE  FALSE
    BY <1>1, <2>1 DEF OpnameAdjust
  <2> QED BY <1>3, <1>8, <2>1 DEF OpnameStep, OpnamesNext, OpnameCreate, OpnameLineCount,
          OpnameComplete, OpnameConfirm, OpnameCancel, ledgerVars
<1> QED BY <1>4, <1>5, <1>6, <1>7, <1>8 DEF Next

LEMMA ShortOrder ==
  ASSUME IInv, RacksFollowStatus, NEW w \in Warehouses, NEW items \in Requests,
         OrderCreate(w, items),
         NEW tx \in TxIds, trx[tx] = NoTx, trx'[tx] # NoTx,
         NEW p \in Products, RackSum(placeNet'[tx], w, p) + trx'[tx].items[p] > 0
  PROVE  trx'[tx].warehouse = w /\ \A r \in Racks : place'[w][p][r] <= 0
<1>0. PlaceTypes /\ place \in RackGrid
  BY LedgerTypes DEF IInv, TypeOKRest, PlaceTypes
<1>1. PICK x \in TxIds, picks \in RackCounts :
         /\ IsPick(w, p, items[p], picks[p])
         /\ InsertTransaction(x, w, "order", items)
         /\ ApplyPlacements(x, NegMove(AtRacks(w, picks)))
  BY DEF OrderCreate
<1>2. x = tx
  BY <1>1, EnteredRow
<1>3. trx'[tx] = [warehouse |-> w, type |-> "order", status |-> "active", items |-> items]
  BY <1>1, <1>2, EnteredRow
<1> DEFINE out == AtRacks(w, picks)
           move == NegMove(out)
<1>4. picks \in [Products -> [Racks -> Int]] /\ picks[p] \in [Racks -> Nat]
      /\ items[p] \in Nat
  BY RackCountTypes, LedgerAssumption DEF RackCounts
<1>5. \A r \in Racks : out[w][p][r] = picks[p][r]
  BY MoveValues
<1>6. move \in RackGrid
  BY <1>4, MoveTypes
<1>7. RackSum(move, w, p) = -SumFunction(picks[p]) /\ SumFunction(picks[p]) \in Int
  BY <1>4, NegSum
<1>8. ApplyPlacements(tx, move)
  BY <1>1, <1>2
<1> HIDE DEF out
<1>9. \A r \in Racks : move[w][p][r] = -picks[p][r]
  BY <1>5, NegValue
<1> HIDE DEF move
<1>10. placeNet'[tx] = move
  BY <1>0, <1>6, <1>8, PlacedRows, AddNothing DEF RacksFollowStatus
<1>11. SumFunction(picks[p]) < items[p]
  BY <1>3, <1>4, <1>7, <1>10
<1>12. \A r \in Pickable(w, p) : picks[p][r] = place[w][p][r]
  <2> DEFINE take == picks[p]
             need == items[p]
  <2>1. take \in [Racks -> Nat] /\ need \in Nat /\ IsPick(w, p, need, take)
        /\ SumFunction(take) < need
    BY <1>1, <1>4, <1>11
  <2> HIDE DEF take, need
  <2>2. \A r \in Pickable(w, p) : take[r] = place[w][p][r]
    BY <1>0, <2>1, ShortPickTakesAll
  <2> QED BY <2>2 DEF take
<1>13. ASSUME NEW r \in Racks PROVE place'[w][p][r] <= 0
  <2>1. place'[w][p][r] = place[w][p][r] + move[w][p][r]
    BY <1>0, <1>8, PlacedRows, AddValues
  <2>2. place[w][p][r] \in Int /\ picks[p][r] \in Nat
    BY <1>0, <1>4 DEF RackGrid
  <2>3. r \notin Pickable(w, p) => place[w][p][r] <= 0
    BY <2>2 DEF Pickable
  <2> QED BY <1>9, <1>12, <2>1, <2>2, <2>3
<1> QED BY <1>3, <1>13

\* An order that finds too little leaves none of that product on any rack of
\* its warehouse, whatever the picking policy and the ties: the remainder is
\* drift between stock and racks, never a rack the loop passed over.
THEOREM ShortPicksEmpty == Spec => ShortPickEmptiesRacks
<1>1. ASSUME IInv, LinksInv, RacksFollowStatus, Next,
             NEW tx \in TxIds, NEW w \in Warehouses, NEW p \in Products,
             trx[tx] = NoTx, trx'[tx] # NoTx,
             trx'[tx].type = "order", trx'[tx].warehouse = w,
             RackSum(placeNet'[tx], w, p) + trx'[tx].items[p] > 0
      PROVE  \A r \in Racks : place'[w][p][r] <= 0
  <2>1. PICK v \in Warehouses, items \in Requests : OrderCreate(v, items)
    BY <1>1, NewOrder
  <2>2. v = w
    <3>1. PICK x \in TxIds : InsertTransaction(x, v, "order", items)
      BY <2>1 DEF OrderCreate
    <3>2. x = tx
      BY <1>1, <3>1, EnteredRow
    <3>3. trx'[tx] = [warehouse |-> v, type |-> "order", status |-> "active", items |-> items]
      BY <1>1, <3>1, <3>2, EnteredRow
    <3> QED BY <1>1, <3>3
  <2> QED BY <1>1, <2>1, <2>2, ShortOrder
<1>2. IInv /\ LinksInv /\ RacksFollowStatus /\ [Next]_vars =>
         [\A tx \in TxIds, w \in Warehouses, p \in Products :
             /\ trx[tx] = NoTx /\ trx'[tx] # NoTx
             /\ trx'[tx].type = "order" /\ trx'[tx].warehouse = w
             /\ RackSum(placeNet'[tx], w, p) + trx'[tx].items[p] > 0
             => \A r \in Racks : place'[w][p][r] <= 0]_vars
  BY <1>1
<1> QED BY <1>2, InventoryInvariant, LinksHold, RacksStatusHold, PTL
        DEF Spec, ShortPickEmptiesRacks
=============================================================================
