-------------------------- MODULE StockEventsProofs --------------------------
(***************************************************************************)
(* What events and reconciles keep, for any warehouses, products, racks    *)
(* and any history of the older service.  An event may be applied several  *)
(* times; the invariant says what the log of its transaction nets to as    *)
(* long as it was applied once, which is what a cancel reads.              *)
(***************************************************************************)
EXTENDS StockEvents, SumLemmas

Own(tx)   == Legacy[tx].warehouse
Items(tx) == Signed(Direction(Legacy[tx].kind), ExpandTxItems(tx))

\* What the event of a transaction does to the stock.
Moved(tx) == At(Own(tx), Items(tx))

Times(tx) == applied[<<"source", tx>>]

\* reconstructCancel reverses what one warehouse logged.
OneWarehouse ==
    \A tx \in LegacyIds, w \in Warehouses, p \in Products :
        w # Own(tx) => batchNet[tx][w][p] = 0

LoggedApplied == \A tx \in LegacyIds : tx \in logged \cup Undone => Times(tx) > 0

\* The log of a transaction that was applied once, and the cancel of it.
NetOfApplied ==
    \A tx \in LegacyIds :
        /\ Times(tx) = 0 => batchNet[tx] = NoChange
        /\ Times(tx) = 1 => batchNet[tx] = IF tx \in Undone THEN NoChange ELSE Moved(tx)

BatchOnce ==
    \A tx \in LegacyIds : batches[tx] # NoItems =>
        Legacy[tx].kind \in Inbound /\ batches[tx] = InboundCount[tx]

IInv == TypeOK /\ OneWarehouse /\ LoggedApplied /\ NetOfApplied
        /\ BatchOnce /\ InboundBatchedOnce

-----------------------------------------------------------------------------
(* Counts per warehouse and product                                         *)

LEMMA GridEq ==
  ASSUME NEW a \in Grid, NEW b \in Grid,
         \A w \in Warehouses, p \in Products : a[w][p] = b[w][p]
  PROVE  a = b
<1>1. \A w \in Warehouses : a[w] = b[w]
  <2>1. ASSUME NEW w \in Warehouses PROVE a[w] = b[w]
    <3>1. a[w] \in [Products -> Int] /\ b[w] \in [Products -> Int]
      BY DEF Grid
    <3> QED BY <3>1
  <2> QED BY <2>1
<1> QED BY <1>1 DEF Grid

LEMMA AtValues ==
  ASSUME NEW w \in Warehouses, NEW items \in [Products -> Int]
  PROVE  /\ At(w, items) \in Grid
         /\ \A v \in Warehouses, p \in Products :
               At(w, items)[v][p] = IF v = w THEN items[p] ELSE 0
<1>1. NoItems \in [Products -> Int] /\ \A p \in Products : NoItems[p] = 0
  BY DEF NoItems
<1> QED BY <1>1 DEF At, Grid

LEMMA NoChangeValues ==
  NoChange \in Grid /\ \A w \in Warehouses, p \in Products : NoChange[w][p] = 0
BY DEF NoChange, NoItems, Grid

LEMMA NoMoveValues ==
  /\ NoMove \in RackGrid
  /\ \A w \in Warehouses, p \in Products, r \in Racks : NoMove[w][p][r] = 0
BY DEF NoMove, NoRacks, RackGrid

\* A change of one warehouse reaches exactly its own state row: the cache
\* holds one row per product, and it is the right one.
LEMMA CacheIsSound ==
  ASSUME NEW w \in Warehouses, NEW items \in [Products -> Int],
         NEW v \in Warehouses, NEW p \in Products
  PROVE  (IF IsCachedRow(At(w, items), p, v)
          THEN CachedDelta(At(w, items), p) ELSE 0) = At(w, items)[v][p]
<1> DEFINE change == At(w, items)
<1>1. \A u \in Warehouses : change[u][p] = IF u = w THEN items[p] ELSE 0
  BY AtValues
<1> HIDE DEF change
<1>2. CASE items[p] = 0
  <2>1. Touched(change, p) = {}
    BY <1>1, <1>2 DEF Touched
  <2> QED BY <1>1, <1>2, <2>1 DEF change, IsCachedRow
<1>3. CASE items[p] # 0
  <2>1. Touched(change, p) = {w}
    BY <1>1, <1>3 DEF Touched
  <2>2. IsCachedRow(change, p, v) <=> v = w
    BY <2>1, LedgerAssumption DEF IsCachedRow
  <2> DEFINE f == [u \in Warehouses |-> change[u][p]]
  <2>3. f[w] = items[p] /\ f[w] \in Int /\ CachedDelta(change, p) = SumFunctionOnSet(f, {w})
    BY <1>1, <2>1 DEF CachedDelta
  <2> HIDE DEF f
  <2>4. CachedDelta(change, p) = items[p]
    BY <2>3, SumOne
  <2> QED BY <1>1, <2>2, <2>4 DEF change
<1> QED BY <1>2, <1>3

\* The rows of one transaction in one warehouse: state and net move by them.
LEMMA LogAt ==
  ASSUME TypeOK, NEW tx \in TxIds, NEW w \in Warehouses, NEW items \in [Products -> Int],
         ProcessStockBatchLog(tx, At(w, items))
  PROVE  /\ stock' \in Grid /\ logTotal' \in Grid
         /\ batchNet' \in [TxIds -> Grid]
         /\ logged' \subseteq TxIds /\ logged \subseteq logged' /\ logged' \subseteq logged \cup {tx}
         /\ \A v \in Warehouses, p \in Products :
               /\ stock'[v][p] = stock[v][p] + At(w, items)[v][p]
               /\ batchNet'[tx][v][p] = batchNet[tx][v][p] + At(w, items)[v][p]
         /\ \A t \in TxIds \ {tx} : batchNet'[t] = batchNet[t]
<1> DEFINE change == At(w, items)
           net == [v \in Warehouses |-> [p \in Products |-> batchNet[tx][v][p] + change[v][p]]]
<1>1. change \in Grid
  BY AtValues
<1>2. ASSUME NEW v \in Warehouses, NEW p \in Products
      PROVE  /\ change[v][p] \in Int /\ stock[v][p] \in Int /\ logTotal[v][p] \in Int
             /\ batchNet[tx][v][p] \in Int
  BY <1>1 DEF Grid, TypeOK, LedgerTypeOK
<1>3. ASSUME NEW v \in Warehouses, NEW p \in Products
      PROVE  stock'[v][p] = stock[v][p] + change[v][p]
  <2>1. stock'[v][p] = IF IsCachedRow(change, p, v)
                       THEN stock[v][p] + CachedDelta(change, p) ELSE stock[v][p]
    BY DEF ProcessStockBatchLog
  <2>2. (IF IsCachedRow(change, p, v) THEN CachedDelta(change, p) ELSE 0) = change[v][p]
    BY CacheIsSound
  <2> HIDE DEF change
  <2> QED BY <1>2, <2>1, <2>2
<1> HIDE DEF change
<1>4. ProcessStockBatchLog(tx, change)
  BY DEF change
<1>5. stock' \in Grid
  <2>1. stock' = [v \in Warehouses |-> [p \in Products |-> stock'[v][p]]]
    BY <1>4 DEF ProcessStockBatchLog
  <2>2. \A v \in Warehouses, p \in Products : stock'[v][p] \in Int
    BY <1>2, <1>3
  <2> QED BY <2>1, <2>2 DEF Grid
<1>6. logTotal' \in Grid
  <2>1. logTotal' = [v \in Warehouses |-> [p \in Products |-> logTotal[v][p] + change[v][p]]]
    BY <1>4 DEF ProcessStockBatchLog
  <2> QED BY <1>2, <2>1 DEF Grid
<1>7. batchNet' = [batchNet EXCEPT ![tx] = net] /\ net \in Grid
  <2>1. batchNet' = [batchNet EXCEPT ![tx] = net]
    BY <1>4 DEF ProcessStockBatchLog
  <2> QED BY <1>2, <2>1 DEF Grid
<1>8. \A v \in Warehouses, p \in Products : net[v][p] = batchNet[tx][v][p] + change[v][p]
  OBVIOUS
<1> HIDE DEF net
<1>9. /\ batchNet' \in [TxIds -> Grid] /\ batchNet'[tx] = net
      /\ \A t \in TxIds \ {tx} : batchNet'[t] = batchNet[t]
  BY <1>7 DEF TypeOK, LedgerTypeOK
<1>10. logged' \subseteq TxIds /\ logged \subseteq logged' /\ logged' \subseteq logged \cup {tx}
  BY <1>4 DEF ProcessStockBatchLog, TypeOK, LedgerTypeOK
<1> QED BY <1>3, <1>5, <1>6, <1>8, <1>9, <1>10 DEF change

LEMMA PlaceAt ==
  ASSUME TypeOK, NEW tx \in TxIds, NEW move \in RackGrid, ApplyPlacements(tx, move)
  PROVE  /\ place' \in RackGrid /\ placeNet' \in [TxIds -> RackGrid]
         /\ \A w \in Warehouses, p \in Products, r \in Racks :
               place'[w][p][r] = place[w][p][r] + move[w][p][r]
<1>1. ASSUME NEW a \in RackGrid
      PROVE  /\ AddMove(a, move) \in RackGrid
             /\ \A w \in Warehouses, p \in Products, r \in Racks :
                   AddMove(a, move)[w][p][r] = a[w][p][r] + move[w][p][r]
  <2>1. \A w \in Warehouses, p \in Products, r \in Racks :
           a[w][p][r] \in Int /\ move[w][p][r] \in Int
    BY DEF RackGrid
  <2> QED BY <2>1 DEF AddMove, RackGrid
<1>2. place \in RackGrid /\ placeNet \in [TxIds -> RackGrid]
  BY DEF TypeOK, LedgerTypeOK
<1>3. /\ place' = AddMove(place, move)
      /\ placeNet' = [placeNet EXCEPT ![tx] = AddMove(placeNet[tx], move)]
  BY <1>2 DEF ApplyPlacements
<1>4. placeNet[tx] \in RackGrid
  BY <1>2
<1>5. AddMove(placeNet[tx], move) \in RackGrid
  BY <1>1, <1>4
<1> QED BY <1>1, <1>2, <1>3, <1>5

-----------------------------------------------------------------------------
(* The older service                                                        *)

LEMMA LegacyFacts ==
  ASSUME NEW tx \in LegacyIds
  PROVE  /\ tx \in TxIds /\ tx # 0 /\ tx # OldLot /\ Own(tx) \in Warehouses
         /\ Direction(Legacy[tx].kind) \in {-1, 1}
         /\ tx \in Cancelable => Direction(Legacy[tx].kind) = -1
         /\ ExpandTxItems(tx) \in [Products -> Nat]
         /\ Items(tx) \in [Products -> Int]
         /\ \A p \in Products :
               Items(tx)[p] = IF Direction(Legacy[tx].kind) = 1
                              THEN ExpandTxItems(tx)[p] ELSE -ExpandTxItems(tx)[p]
<1>1. /\ tx \in TxIds /\ tx # 0 /\ tx # OldLot /\ Own(tx) \in Warehouses
      /\ Legacy[tx].items \in [Products -> Nat] /\ Legacy[tx].problems \in [Products -> Nat]
      /\ \A p \in Products : Legacy[tx].problems[p] <= Legacy[tx].items[p]
  BY LegacyAssumption DEF Own
<1>2. /\ Direction(Legacy[tx].kind) \in {-1, 1}
      /\ tx \in Cancelable => Direction(Legacy[tx].kind) = -1
  BY DEF Direction, Cancelable
<1>3. ExpandTxItems(tx) \in [Products -> Nat]
  <2>1. \A p \in Products : Legacy[tx].items[p] - Legacy[tx].problems[p] \in Nat
    BY <1>1
  <2> QED BY <1>1, <2>1 DEF ExpandTxItems
<1> DEFINE d == Direction(Legacy[tx].kind)
           e == ExpandTxItems(tx)
<1> HIDE DEF d, e
<1>4. Items(tx) = [p \in Products |-> d * e[p]]
  BY DEF Items, Signed, d, e
<1>5. \A p \in Products : d * e[p] = IF d = 1 THEN e[p] ELSE -e[p]
  <2>1. d = 1 \/ d = -1
    BY <1>2 DEF d
  <2>2. \A p \in Products : e[p] \in Int
    BY <1>3 DEF e
  <2> QED BY <2>1, <2>2
<1>6. Items(tx) \in [Products -> Int]
  <2>1. \A p \in Products : d * e[p] \in Int
    <3>1. \A p \in Products : e[p] \in Int
      BY <1>3 DEF e
    <3> QED BY <1>5, <3>1
  <2> QED BY <1>4, <2>1
<1> QED BY <1>1, <1>2, <1>3, <1>4, <1>5, <1>6 DEF d, e

LEMMA MoveFacts ==
  ASSUME NEW tx \in LegacyIds, NEW w \in Warehouses, NEW p \in Products
  PROVE  /\ \A r \in Racks :
               /\ Histories[tx][w][p][r] \in Nat
               /\ LegacyMove[tx][w][p][r] = IF Direction(Legacy[tx].kind) = 1
                     THEN Histories[tx][w][p][r] ELSE -Histories[tx][w][p][r]
         /\ DOMAIN LegacyMove[tx][w][p] = Racks /\ DOMAIN Histories[tx][w][p] = Racks
         /\ SumFunctionOnSet(LegacyMove[tx][w][p], Racks) = Moved(tx)[w][p]
<1> DEFINE d == Direction(Legacy[tx].kind)
           h == Histories[tx][w][p]
           m == LegacyMove[tx][w][p]
<1>1. /\ Histories \in [TxIds -> [Warehouses -> [Products -> [Racks -> Nat]]]]
      /\ tx \in TxIds /\ IsFiniteSet(Racks) /\ d \in {-1, 1}
  BY LegacyFacts, LedgerAssumption
<1>2. h \in [Racks -> Nat]
  BY <1>1
<1>3. m = [r \in Racks |-> d * h[r]]
  BY DEF LegacyMove
<1>4. SumFunctionOnSet(h, Racks) = At(Own(tx), ExpandTxItems(tx))[w][p]
  <2>1. SumFunction(h) = At(Own(tx), ExpandTxItems(tx))[w][p]
    BY HistoriesAssumption DEF Own
  <2>2. DOMAIN h = Racks
    BY <1>2
  <2> HIDE DEF h
  <2> QED BY <2>1, <2>2 DEF SumFunction
<1> DEFINE n == SumFunctionOnSet(h, Racks)
<1>5. /\ n = (IF w = Own(tx) THEN ExpandTxItems(tx)[p] ELSE 0)
      /\ Moved(tx)[w][p] = (IF w = Own(tx) THEN Items(tx)[p] ELSE 0)
  <2>1. \A q \in Products : ExpandTxItems(tx)[q] \in Int
    BY LegacyFacts
  <2>2. ExpandTxItems(tx) \in [Products -> Int] /\ Items(tx) \in [Products -> Int]
    BY LegacyFacts, <2>1
  <2> QED BY <1>4, <2>2, AtValues, LegacyFacts DEF Moved
<1> HIDE DEF d, h, m
<1>6. \A r \in Racks : h[r] \in Nat /\ m[r] = IF d = 1 THEN h[r] ELSE -h[r]
  <2>1. d = 1 \/ d = -1
    BY <1>1
  <2> QED BY <1>2, <1>3, <2>1
<1>7. n \in Int
  <2> HIDE DEF n
  <2>1. \A r \in Racks : h[r] \in Int
    BY <1>6
  <2> QED BY <1>1, <2>1, SumRemove DEF n
<1>8. SumFunctionOnSet(m, Racks) = IF d = 1 THEN n ELSE -n
  <2>1. CASE d = 1
    <3>1. \A r \in Racks : m[r] = h[r] /\ m[r] \in Int
      BY <1>6, <2>1
    <3>2. SumFunctionOnSet(m, Racks) = SumFunctionOnSet(h, Racks)
      BY <1>1, <3>1, SumCongruent
    <3> QED BY <2>1, <3>2
  <2>2. CASE d # 1
    <3> DEFINE z == [r \in Racks |-> 0]
    <3>1. \A r \in Racks : m[r] \in Int /\ h[r] \in Int /\ z[r] = m[r] + h[r]
      BY <1>6, <2>2
    <3>2. \A r \in Racks : z[r] = 0
      OBVIOUS
    <3> HIDE DEF z, n
    <3>3. SumFunctionOnSet(z, Racks) = SumFunctionOnSet(m, Racks) + SumFunctionOnSet(h, Racks)
      BY <1>1, <3>1, SumAdd
    <3>4. SumFunctionOnSet(z, Racks) = 0
      BY <1>1, <3>2, SumZero
    <3>5. SumFunctionOnSet(m, Racks) \in Int
      BY <1>1, <3>1, SumRemove
    <3> QED BY <1>7, <2>2, <3>3, <3>4, <3>5 DEF n
  <2> QED BY <2>1, <2>2
<1>9. Moved(tx)[w][p] = IF d = 1 THEN n ELSE -n
  <2>1. w = Own(tx) => Items(tx)[p] = IF d = 1 THEN n ELSE -n
    <3> HIDE DEF n
    <3> QED BY <1>5, LegacyFacts DEF d
  <2>2. w # Own(tx) => n = 0 /\ Moved(tx)[w][p] = 0
    BY <1>5
  <2> HIDE DEF n
  <2> QED BY <1>5, <2>1, <2>2
<1>10. DOMAIN m = Racks /\ DOMAIN h = Racks
  BY <1>2, <1>3
<1> QED BY <1>6, <1>8, <1>9, <1>10 DEF d, h, m

\* One more transaction in view.
LEMMA ViewGrows ==
  ASSUME NEW V \in SUBSET LegacyIds, NEW tx \in LegacyIds \ V,
         NEW w \in Warehouses, NEW p \in Products
  PROVE  \A r \in Racks : RackCount(V \cup {tx}, w, p, r)
                             = RackCount(V, w, p, r) + LegacyMove[tx][w][p][r]
<1> SUFFICES ASSUME NEW r \in Racks
             PROVE  RackCount(V \cup {tx}, w, p, r)
                       = RackCount(V, w, p, r) + LegacyMove[tx][w][p][r]
  OBVIOUS
<1> DEFINE f == [t \in V |-> LegacyMove[t][w][p][r]]
           g == [t \in V \cup {tx} |-> LegacyMove[t][w][p][r]]
<1>1. IsFiniteSet(V) /\ IsFiniteSet(V \cup {tx})
  <2>1. IsFiniteSet(LegacyIds)
    BY LegacyAssumption, LedgerAssumption, FS_Subset
  <2> QED BY <2>1, FS_Subset
<1>2. \A t \in LegacyIds : LegacyMove[t][w][p][r] \in Int
  BY MoveFacts
<1>3. OldRacks[w][p][r] \in Int
  BY LegacyAssumption DEF RackGrid
<1>4. /\ \A t \in V : f[t] = g[t] /\ f[t] \in Int
      /\ \A t \in V \cup {tx} : g[t] \in Int
      /\ g[tx] = LegacyMove[tx][w][p][r]
  BY <1>2
<1>5. /\ RackCount(V \cup {tx}, w, p, r) = OldRacks[w][p][r] + SumFunctionOnSet(g, V \cup {tx})
      /\ RackCount(V, w, p, r) = OldRacks[w][p][r] + SumFunctionOnSet(f, V)
  BY DEF RackCount, SumFunction
<1> HIDE DEF f, g
<1>6. SumFunctionOnSet(g, V \cup {tx}) = g[tx] + SumFunctionOnSet(g, V)
  <2>1. (V \cup {tx}) \ {tx} = V
    OBVIOUS
  <2>2. SumFunctionOnSet(g, V \cup {tx}) = g[tx] + SumFunctionOnSet(g, (V \cup {tx}) \ {tx})
    BY <1>1, <1>4, SumRemove
  <2> QED BY <2>1, <2>2
<1>7. SumFunctionOnSet(f, V) = SumFunctionOnSet(g, V)
  BY <1>1, <1>4, SumCongruent
<1>8. SumFunctionOnSet(f, V) \in Int
  BY <1>1, <1>4, SumRemove
<1> QED BY <1>3, <1>4, <1>5, <1>6, <1>7, <1>8

LEMMA OnHandFacts ==
  ASSUME NEW V \in SUBSET LegacyIds, NEW w \in Warehouses, NEW p \in Products
  PROVE  /\ \A r \in Racks : RackCount(V, w, p, r) \in Int
         /\ OnHand(V, w, p) \in Int
         /\ \A tx \in LegacyIds \ V :
               OnHand(V \cup {tx}, w, p) = OnHand(V, w, p) + Moved(tx)[w][p]
<1>1. IsFiniteSet(LegacyIds) /\ IsFiniteSet(Racks)
  BY LegacyAssumption, LedgerAssumption, FS_Subset
<1>2. ASSUME NEW U \in SUBSET LegacyIds
      PROVE  \A r \in Racks : RackCount(U, w, p, r) \in Int
  <2> SUFFICES ASSUME NEW r \in Racks PROVE RackCount(U, w, p, r) \in Int
    OBVIOUS
  <2> DEFINE f == [t \in U |-> LegacyMove[t][w][p][r]]
  <2>1. \A t \in U : f[t] \in Int
    BY MoveFacts
  <2>2. IsFiniteSet(U)
    BY <1>1, FS_Subset
  <2>3. OldRacks[w][p][r] \in Int
    BY LegacyAssumption DEF RackGrid
  <2>4. RackCount(U, w, p, r) = OldRacks[w][p][r] + SumFunctionOnSet(f, U)
    BY DEF RackCount, SumFunction
  <2> HIDE DEF f
  <2>5. SumFunctionOnSet(f, U) \in Int
    BY <2>1, <2>2, SumRemove
  <2> QED BY <2>3, <2>4, <2>5
<1>3. ASSUME NEW U \in SUBSET LegacyIds
      PROVE  /\ OnHand(U, w, p) = SumFunctionOnSet([r \in Racks |-> RackCount(U, w, p, r)], Racks)
             /\ OnHand(U, w, p) \in Int
  <2> DEFINE f == [r \in Racks |-> RackCount(U, w, p, r)]
  <2>1. OnHand(U, w, p) = SumFunctionOnSet(f, Racks)
    BY DEF OnHand, SumFunction
  <2>2. \A r \in Racks : f[r] \in Int
    BY <1>2
  <2> HIDE DEF f
  <2>3. SumFunctionOnSet(f, Racks) \in Int
    BY <1>1, <2>2, SumRemove
  <2> QED BY <2>1, <2>3 DEF f
<1>4. ASSUME NEW tx \in LegacyIds \ V
      PROVE  OnHand(V \cup {tx}, w, p) = OnHand(V, w, p) + Moved(tx)[w][p]
  <2> DEFINE f == [r \in Racks |-> RackCount(V, w, p, r)]
             g == [r \in Racks |-> RackCount(V \cup {tx}, w, p, r)]
             m == LegacyMove[tx][w][p]
  <2>1. \A r \in Racks : f[r] \in Int /\ m[r] \in Int /\ g[r] = f[r] + m[r]
    BY <1>2, ViewGrows, MoveFacts
  <2>2. /\ OnHand(V, w, p) = SumFunctionOnSet(f, Racks)
        /\ OnHand(V \cup {tx}, w, p) = SumFunctionOnSet(g, Racks)
    BY <1>3
  <2>3. SumFunctionOnSet(m, Racks) = Moved(tx)[w][p]
    BY MoveFacts
  <2> HIDE DEF f, g, m
  <2>4. SumFunctionOnSet(g, Racks) = SumFunctionOnSet(f, Racks) + SumFunctionOnSet(m, Racks)
    BY <1>1, <2>1, SumAdd
  <2> QED BY <2>2, <2>3, <2>4
<1> QED BY <1>2, <1>3, <1>4

-----------------------------------------------------------------------------
(* Events                                                                   *)

LEMMA NegValues ==
  ASSUME NEW g \in Grid
  PROVE  /\ Neg(g) \in Grid
         /\ \A w \in Warehouses, p \in Products : Neg(g)[w][p] + g[w][p] = 0
<1>1. \A w \in Warehouses, p \in Products : g[w][p] \in Int
  BY DEF Grid
<1>2. \A n \in Int : -n \in Int /\ -n + n = 0
  OBVIOUS
<1>3. ASSUME NEW w \in Warehouses, NEW p \in Products
      PROVE  Neg(g)[w][p] \in Int /\ Neg(g)[w][p] + g[w][p] = 0
  <2>1. Neg(g)[w][p] = -(g[w][p])
    BY DEF Neg
  <2> QED BY <1>1, <1>2, <2>1
<1>4. Neg(g) = [w \in Warehouses |-> [p \in Products |-> Neg(g)[w][p]]]
  BY DEF Neg
<1> QED BY <1>3, <1>4 DEF Grid

\* Items without a count: the racks of the transaction hold nothing.
LEMMA PlacementFacts ==
  ASSUME NEW tx \in LegacyIds
  PROVE  /\ LegacyMove[tx] \in RackGrid
         /\ Moved(tx) = NoChange => \A w \in Warehouses, p \in Products, r \in Racks :
                                       Histories[tx][w][p][r] = 0 /\ LegacyMove[tx][w][p][r] = 0
         /\ PlacementMove(tx) \in RackGrid
         /\ \A w \in Warehouses, p \in Products, r \in Racks :
               PlacementMove(tx)[w][p][r] = LegacyMove[tx][w][p][r]
<1>1. LegacyMove[tx] \in RackGrid
  <2>1. \A w \in Warehouses, p \in Products, r \in Racks : LegacyMove[tx][w][p][r] \in Int
    BY MoveFacts
  <2>2. LegacyMove[tx] = [w \in Warehouses |-> [p \in Products |-> [r \in Racks |->
                             LegacyMove[tx][w][p][r]]]]
    BY DEF LegacyMove
  <2> QED BY <2>1, <2>2 DEF RackGrid
<1>2. ASSUME NEW w \in Warehouses, NEW p \in Products, Moved(tx)[w][p] = 0, NEW r \in Racks
      PROVE  Histories[tx][w][p][r] = 0 /\ LegacyMove[tx][w][p][r] = 0
  <2> DEFINE h == Histories[tx][w][p]
             m == LegacyMove[tx][w][p]
             z == [s \in Racks |-> 0]
             d == Direction(Legacy[tx].kind)
  <2>1. /\ \A s \in Racks : h[s] \in Nat /\ m[s] = IF d = 1 THEN h[s] ELSE -h[s]
        /\ SumFunctionOnSet(m, Racks) = 0
    BY <1>2, MoveFacts
  <2>2. \A s \in Racks : z[s] = 0
    OBVIOUS
  <2>3. IsFiniteSet(Racks)
    BY LedgerAssumption
  <2> HIDE DEF h, m, z, d
  <2>4. SumFunctionOnSet(z, Racks) = 0
    BY <2>2, <2>3, SumZero
  <2>5. \A s \in Racks : m[s] = 0
    <3>1. CASE d = 1
      <4>1. \A s \in Racks : z[s] \in Int /\ m[s] \in Int /\ z[s] <= m[s]
        BY <2>1, <2>2, <3>1
      <4>2. \A s \in Racks : z[s] = m[s]
        BY <2>1, <2>3, <2>4, <4>1, SumAtMost
      <4> QED BY <2>2, <4>2
    <3>2. CASE d # 1
      <4>1. \A s \in Racks : z[s] \in Int /\ m[s] \in Int /\ m[s] <= z[s]
        BY <2>1, <2>2, <3>2
      <4>2. \A s \in Racks : m[s] = z[s]
        BY <2>1, <2>3, <2>4, <4>1, SumAtMost
      <4> QED BY <2>2, <4>2
    <3> QED BY <3>1, <3>2
  <2>6. h[r] = 0
    <3>1. m[r] = 0 /\ h[r] \in Int /\ m[r] = IF d = 1 THEN h[r] ELSE -h[r]
      BY <2>1, <2>5
    <3> QED BY <3>1
  <2> QED BY <2>5, <2>6 DEF h, m
<1>3. ASSUME Moved(tx) = NoChange, NEW w \in Warehouses, NEW p \in Products, NEW r \in Racks
      PROVE  Histories[tx][w][p][r] = 0 /\ LegacyMove[tx][w][p][r] = 0
  <2>1. Moved(tx)[w][p] = 0
    BY <1>3, NoChangeValues
  <2> QED BY <1>2, <2>1
<1>4. ASSUME ExpandTxItems(tx) = NoItems, NEW w \in Warehouses, NEW p \in Products, NEW r \in Racks
      PROVE  LegacyMove[tx][w][p][r] = 0
  <2>1. SumFunctionOnSet(Histories[tx][w][p], Racks) = At(Own(tx), NoItems)[w][p]
    <3>1. SumFunction(Histories[tx][w][p]) = At(Own(tx), NoItems)[w][p]
      BY <1>4, HistoriesAssumption DEF Own
    <3>2. DOMAIN Histories[tx][w][p] = Racks
      BY MoveFacts
    <3> QED BY <3>1, <3>2 DEF SumFunction
  <2> DEFINE h == Histories[tx][w][p]
             z == [s \in Racks |-> 0]
  <2>2. SumFunctionOnSet(h, Racks) = 0
    BY <2>1 DEF At, NoItems
  <2>3. \A s \in Racks : h[s] \in Nat /\ z[s] = 0
    BY MoveFacts
  <2>4. IsFiniteSet(Racks)
    BY LedgerAssumption
  <2> HIDE DEF h, z
  <2>5. SumFunctionOnSet(z, Racks) = 0
    BY <2>3, <2>4, SumZero
  <2>6. \A s \in Racks : z[s] \in Int /\ h[s] \in Int /\ z[s] <= h[s]
    BY <2>3
  <2>7. \A s \in Racks : z[s] = h[s]
    BY <2>2, <2>4, <2>5, <2>6, SumAtMost
  <2>8. h[r] = 0
    BY <2>3, <2>7
  <2>9. Direction(Legacy[tx].kind) * h[r] = 0
    <3>1. Direction(Legacy[tx].kind) \in Int
      BY LegacyFacts
    <3> QED BY <2>8, <3>1
  <2> QED BY <2>9 DEF h, LegacyMove
<1>5. PlacementMove(tx) \in RackGrid
  BY <1>1, NoMoveValues DEF PlacementMove
<1>6. \A w \in Warehouses, p \in Products, r \in Racks :
         PlacementMove(tx)[w][p][r] = LegacyMove[tx][w][p][r]
  BY <1>4, NoMoveValues DEF PlacementMove
<1> QED BY <1>1, <1>3, <1>5, <1>6

\* What both kinds of event do: rows of one transaction in its own warehouse,
\* and a move of its racks.
Writes(tx, change, move) ==
    /\ stock' \in Grid /\ logTotal' \in Grid /\ batchNet' \in [TxIds -> Grid]
    /\ logged' \subseteq TxIds /\ logged' \subseteq logged \cup {tx}
    /\ place' \in RackGrid /\ placeNet' \in [TxIds -> RackGrid]
    /\ change \in Grid /\ move \in RackGrid
    /\ \A w \in Warehouses, p \in Products :
          /\ w # Own(tx) => change[w][p] = 0
          /\ stock'[w][p] = stock[w][p] + change[w][p]
          /\ batchNet'[tx][w][p] = batchNet[tx][w][p] + change[w][p]
          /\ \A r \in Racks : place'[w][p][r] = place[w][p][r] + move[w][p][r]
    /\ \A t \in TxIds \ {tx} : batchNet'[t] = batchNet[t]

LEMMA SourceWrites ==
  ASSUME IInv, NEW tx \in LegacyIds, ApplyTxItems(tx)
  PROVE  /\ Writes(tx, Moved(tx), LegacyMove[tx])
         /\ IF Legacy[tx].kind \in Inbound THEN CreateStockBatches(tx) ELSE UNCHANGED batches
<1>1. /\ ProcessStockBatchLog(tx, At(Own(tx), Items(tx)))
      /\ ApplyPlacements(tx, PlacementMove(tx))
  BY DEF ApplyTxItems, ApplyStockLogs, Own, Items
<1>2. /\ tx \in TxIds /\ Own(tx) \in Warehouses /\ Items(tx) \in [Products -> Int]
  BY LegacyFacts
<1>3. TypeOK
  BY DEF IInv
<1>4. /\ stock' \in Grid /\ logTotal' \in Grid
      /\ batchNet' \in [TxIds -> Grid]
      /\ logged' \subseteq TxIds /\ logged' \subseteq logged \cup {tx}
      /\ \A v \in Warehouses, p \in Products :
               /\ stock'[v][p] = stock[v][p] + Moved(tx)[v][p]
               /\ batchNet'[tx][v][p] = batchNet[tx][v][p] + Moved(tx)[v][p]
      /\ \A t \in TxIds \ {tx} : batchNet'[t] = batchNet[t]
  BY <1>1, <1>2, <1>3, LogAt DEF Moved
<1>5. /\ place' \in RackGrid /\ placeNet' \in [TxIds -> RackGrid]
      /\ \A w \in Warehouses, p \in Products, r \in Racks :
            place'[w][p][r] = place[w][p][r] + PlacementMove(tx)[w][p][r]
  BY <1>1, <1>2, <1>3, PlacementFacts, PlaceAt
<1>6. /\ LegacyMove[tx] \in RackGrid
      /\ \A w \in Warehouses, p \in Products, r \in Racks :
            PlacementMove(tx)[w][p][r] = LegacyMove[tx][w][p][r]
  BY PlacementFacts
<1>7. /\ Moved(tx) \in Grid
      /\ \A w \in Warehouses, p \in Products : w # Own(tx) => Moved(tx)[w][p] = 0
  BY <1>2, AtValues DEF Moved
<1>8. IF Legacy[tx].kind \in Inbound THEN CreateStockBatches(tx) ELSE UNCHANGED batches
  BY DEF ApplyTxItems
<1> QED BY <1>4, <1>5, <1>6, <1>7, <1>8 DEF Writes

LEMMA CancelWrites ==
  ASSUME IInv, NEW tx \in Cancelable, ApplyCancel(tx)
  PROVE  /\ Writes(tx, Neg(batchNet[tx]), RestoredRacks(tx))
         /\ tx \in logged /\ batches' = batches
         /\ batchNet'[tx] = NoChange
<1>1. tx \in LegacyIds /\ tx \in TxIds /\ Own(tx) \in Warehouses
  BY LegacyFacts DEF Cancelable
<1>2. /\ tx \in logged /\ batches' = batches
      /\ ProcessStockBatchLog(tx, Neg(batchNet[tx]))
      /\ ApplyPlacements(tx, RestoredRacks(tx))
  BY DEF ApplyCancel, ReconstructCancel
<1>3. TypeOK /\ batchNet[tx] \in Grid
  BY <1>1 DEF IInv, TypeOK, LedgerTypeOK
<1> DEFINE undo == Neg(batchNet[tx])
           items == [p \in Products |-> undo[Own(tx)][p]]
<1>4. /\ undo \in Grid
      /\ \A w \in Warehouses, p \in Products : undo[w][p] + batchNet[tx][w][p] = 0
  BY <1>3, NegValues
<1>5. \A w \in Warehouses, p \in Products : undo[w][p] \in Int /\ batchNet[tx][w][p] \in Int
  BY <1>3, <1>4 DEF Grid
<1> HIDE DEF undo
<1>6. \A w \in Warehouses, p \in Products : w # Own(tx) => undo[w][p] = 0
  <2>1. \A w \in Warehouses, p \in Products : w # Own(tx) => batchNet[tx][w][p] = 0
    BY <1>1 DEF IInv, OneWarehouse
  <2> QED BY <1>4, <1>5, <2>1
<1>7. items \in [Products -> Int] /\ undo = At(Own(tx), items)
  <2>1. items \in [Products -> Int]
    BY <1>1, <1>5
  <2>2. \A w \in Warehouses, p \in Products : undo[w][p] = At(Own(tx), items)[w][p]
    BY <1>1, <1>6, <2>1, AtValues
  <2>3. At(Own(tx), items) \in Grid
    BY <1>1, <2>1, AtValues
  <2> HIDE DEF items
  <2>4. undo = At(Own(tx), items)
    BY <1>4, <2>2, <2>3, GridEq
  <2> QED BY <2>1, <2>4
<1> HIDE DEF items
<1>8. ProcessStockBatchLog(tx, At(Own(tx), items))
  BY <1>2, <1>7 DEF undo
<1>9. /\ stock' \in Grid /\ logTotal' \in Grid
      /\ batchNet' \in [TxIds -> Grid]
      /\ logged' \subseteq TxIds /\ logged' \subseteq logged \cup {tx}
      /\ \A v \in Warehouses, p \in Products :
               /\ stock'[v][p] = stock[v][p] + undo[v][p]
               /\ batchNet'[tx][v][p] = batchNet[tx][v][p] + undo[v][p]
      /\ \A t \in TxIds \ {tx} : batchNet'[t] = batchNet[t]
  BY <1>1, <1>3, <1>7, <1>8, LogAt
<1>10. RestoredRacks(tx) \in RackGrid
  <2>1. Histories[tx] \in RackGrid
    BY <1>1, LedgerAssumption DEF RackGrid
  <2> QED BY <2>1, NoMoveValues DEF RestoredRacks
<1>11. /\ place' \in RackGrid /\ placeNet' \in [TxIds -> RackGrid]
       /\ \A w \in Warehouses, p \in Products, r \in Racks :
             place'[w][p][r] = place[w][p][r] + RestoredRacks(tx)[w][p][r]
  BY <1>1, <1>2, <1>3, <1>10, PlaceAt
<1>12. Writes(tx, undo, RestoredRacks(tx))
  BY <1>4, <1>6, <1>9, <1>10, <1>11 DEF Writes
<1>13. batchNet'[tx] = NoChange
  <2>1. \A w \in Warehouses, p \in Products : batchNet'[tx][w][p] = NoChange[w][p]
    BY <1>4, <1>5, <1>9, NoChangeValues
  <2>2. batchNet'[tx] \in Grid
    BY <1>1, <1>9
  <2> QED BY <2>1, <2>2, NoChangeValues, GridEq
<1> QED BY <1>2, <1>12, <1>13 DEF undo

-----------------------------------------------------------------------------
(* The invariant                                                            *)

LEMMA MessageFacts ==
  ASSUME NEW m \in Messages
  PROVE  \/ m[1] = "source" /\ m[2] \in LegacyIds /\ m = <<"source", m[2]>>
         \/ m[1] = "cancel" /\ m[2] \in Cancelable /\ m[2] \in LegacyIds /\ m = <<"cancel", m[2]>>
BY DEF Messages, Cancelable

LEMMA AppliedFacts ==
  ASSUME TypeOK, NEW m \in Messages, applied' = [applied EXCEPT ![m] = @ + 1]
  PROVE  /\ applied' \in [Messages -> Nat]
         /\ \A t \in LegacyIds : /\ Times(t) \in Nat
                                 /\ Times(t)' = IF m = <<"source", t>> THEN Times(t) + 1 ELSE Times(t)
         /\ Undone' = IF m[1] = "cancel" THEN Undone \cup {m[2]} ELSE Undone
<1>1. applied \in [Messages -> Nat]
  BY DEF TypeOK
<1>2. \A n \in Messages : /\ applied[n] \in Nat
                          /\ applied'[n] = IF n = m THEN applied[n] + 1 ELSE applied[n]
  BY <1>1
<1>3. applied' \in [Messages -> Nat]
  BY <1>1, <1>2
<1>4. ASSUME NEW t \in LegacyIds
      PROVE  /\ Times(t) \in Nat
             /\ Times(t)' = IF m = <<"source", t>> THEN Times(t) + 1 ELSE Times(t)
  <2>1. <<"source", t>> \in Messages
    BY DEF Messages
  <2> QED BY <1>2, <2>1 DEF Times
<1>5. Undone' = IF m[1] = "cancel" THEN Undone \cup {m[2]} ELSE Undone
  <2>1. \A t \in Cancelable : <<"cancel", t>> \in Messages
    BY DEF Messages
  <2>2. ASSUME NEW t \in Cancelable
        PROVE  applied'[<<"cancel", t>>] > 0
                  <=> applied[<<"cancel", t>>] > 0 \/ m = <<"cancel", t>>
    BY <1>2, <2>1
  <2>3. \A t \in Cancelable : m = <<"cancel", t>> <=> m[1] = "cancel" /\ m[2] = t
    BY MessageFacts
  <2>4. m[1] = "cancel" => m[2] \in Cancelable
    BY MessageFacts
  <2> QED BY <2>2, <2>3, <2>4 DEF Undone
<1> QED BY <1>3, <1>4, <1>5

LEMMA InboundCountFacts ==
  ASSUME NEW tx \in LegacyIds
  PROVE  InboundCount[tx] \in [Products -> Nat]
<1>1. ASSUME NEW p \in Products
      PROVE  SumFunction(Histories[tx][Own(tx)][p]) \in Nat
  <2>1. Own(tx) \in Warehouses
    BY LegacyFacts
  <2>2. DOMAIN Histories[tx][Own(tx)][p] = Racks
    BY <2>1, MoveFacts
  <2>3. \A r \in Racks : Histories[tx][Own(tx)][p][r] \in Nat
    BY <2>1, MoveFacts
  <2>4. IsFiniteSet(Racks)
    BY LedgerAssumption
  <2> DEFINE h == Histories[tx][Own(tx)][p]
  <2> HIDE DEF h
  <2>5. SumFunctionOnSet(h, Racks) \in Nat
    BY <2>3, <2>4, SumNat DEF h
  <2> QED BY <2>2, <2>5 DEF h, SumFunction
<1>2. InboundCount[tx] = [p \in Products |-> SumFunction(Histories[tx][Own(tx)][p])]
  BY DEF InboundCount, Own
<1> QED BY <1>1, <1>2

\* A step of an event keeps what the log says of each transaction.
LEMMA LogKept ==
  ASSUME IInv, NEW m \in Messages, applied' = [applied EXCEPT ![m] = @ + 1],
         NEW change, NEW move, Writes(m[2], change, move),
         m[1] = "source" => change = Moved(m[2]),
         m[1] = "cancel" => m[2] \in logged /\ batchNet'[m[2]] = NoChange
  PROVE  OneWarehouse' /\ LoggedApplied' /\ NetOfApplied'
<1> DEFINE tx == m[2]
<1>1. TypeOK /\ tx \in LegacyIds /\ (m[1] = "source" \/ m[1] = "cancel")
  BY MessageFacts DEF IInv
<1>2. LegacyIds \subseteq TxIds
  BY LegacyAssumption
<1>3. /\ \A t \in LegacyIds : /\ Times(t) \in Nat
                              /\ Times(t)' = IF m = <<"source", t>> THEN Times(t) + 1 ELSE Times(t)
      /\ Undone' = IF m[1] = "cancel" THEN Undone \cup {tx} ELSE Undone
  BY <1>1, AppliedFacts
<1>4. \A t \in LegacyIds : m = <<"source", t>> <=> m[1] = "source" /\ tx = t
  BY MessageFacts
<1> HIDE DEF tx
<1>5. /\ batchNet' \in [TxIds -> Grid] /\ change \in Grid
      /\ logged' \subseteq logged \cup {tx}
      /\ \A w \in Warehouses, p \in Products :
            /\ w # Own(tx) => change[w][p] = 0
            /\ batchNet'[tx][w][p] = batchNet[tx][w][p] + change[w][p]
      /\ \A t \in TxIds \ {tx} : batchNet'[t] = batchNet[t]
  BY DEF Writes, tx
<1>6. OneWarehouse /\ LoggedApplied /\ NetOfApplied
  BY DEF IInv
<1>7. ASSUME NEW t \in LegacyIds, NEW w \in Warehouses, NEW p \in Products, w # Own(t)
      PROVE  batchNet'[t][w][p] = 0
  <2>1. batchNet[t][w][p] = 0
    BY <1>6, <1>7 DEF OneWarehouse
  <2>2. CASE t = tx
    BY <1>5, <1>7, <2>1, <2>2
  <2>3. CASE t # tx
    BY <1>2, <1>5, <2>1, <2>3
  <2> QED BY <2>2, <2>3
<1>8. ASSUME NEW t \in LegacyIds, t \in logged' \cup Undone' PROVE Times(t)' > 0
  <2>1. CASE t = tx /\ m[1] = "source"
    BY <1>3, <1>4, <2>1
  <2>2. CASE t = tx /\ m[1] = "cancel"
    <3>1. Times(t) > 0
      BY <1>6, <2>2 DEF LoggedApplied, tx
    <3> QED BY <1>3, <1>4, <2>2, <3>1
  <2>3. CASE t # tx
    <3>1. t \in logged \cup Undone
      BY <1>3, <1>5, <1>8, <2>3
    <3>2. Times(t) > 0
      BY <1>6, <3>1 DEF LoggedApplied
    <3> QED BY <1>3, <1>4, <2>3, <3>2
  <2> QED BY <1>1, <2>1, <2>2, <2>3
<1>9. ASSUME NEW t \in LegacyIds
      PROVE  /\ Times(t)' = 0 => batchNet'[t] = NoChange
             /\ Times(t)' = 1 => batchNet'[t] = IF t \in Undone' THEN NoChange ELSE Moved(t)
  <2>1. CASE t # tx
    <3>1. /\ Times(t)' = Times(t) /\ batchNet'[t] = batchNet[t]
          /\ t \in Undone' <=> t \in Undone
      BY <1>2, <1>3, <1>4, <1>5, <2>1
    <3> QED BY <1>6, <3>1 DEF NetOfApplied
  <2>2. CASE t = tx /\ m[1] = "source"
    <3>1. Times(t)' = Times(t) + 1 /\ Times(t) \in Nat
      BY <1>3, <1>4, <2>2
    <3>2. ASSUME Times(t)' = 1 PROVE batchNet'[t] = Moved(t) /\ t \notin Undone'
      <4>1. Times(t) = 0
        BY <3>1, <3>2
      <4>2. batchNet[t] = NoChange /\ t \notin Undone
        BY <1>6, <4>1 DEF NetOfApplied, LoggedApplied
      <4>3. change = Moved(t)
        BY <2>2 DEF tx
      <4>4. \A w \in Warehouses, p \in Products : batchNet'[t][w][p] = change[w][p]
        <5>1. \A w \in Warehouses, p \in Products : batchNet[t][w][p] = 0 /\ change[w][p] \in Int
          BY <1>5, <4>2, NoChangeValues DEF Grid
        <5> QED BY <1>5, <2>2, <5>1
      <4>5. batchNet'[t] \in Grid
        BY <1>2, <1>5
      <4>6. batchNet'[t] = Moved(t)
        BY <1>5, <4>3, <4>4, <4>5, GridEq
      <4> QED BY <1>3, <2>2, <4>2, <4>6
    <3> QED BY <3>1, <3>2
  <2>3. CASE t = tx /\ m[1] = "cancel"
    <3>1. batchNet'[t] = NoChange /\ t \in Undone'
      BY <1>3, <2>3 DEF tx
    <3> QED BY <3>1
  <2> QED BY <1>1, <2>1, <2>2, <2>3
<1> QED BY <1>7, <1>8, <1>9 DEF OneWarehouse, LoggedApplied, NetOfApplied

\* A batch is created once, with what came in, under a code nobody has.
LEMMA BatchesKept ==
  ASSUME IInv, NEW tx \in LegacyIds, lots' = lots,
         IF Legacy[tx].kind \in Inbound THEN CreateStockBatches(tx) ELSE UNCHANGED batches
  PROVE  /\ batches' \in [TxIds -> [Products -> Nat]] /\ BatchOnce'
         /\ Legacy[tx].kind \in Inbound => batches'[tx] = InboundCount[tx]
         /\ \A t \in LegacyIds \ {tx} : batches'[t] = batches[t]
         /\ \A t \in LegacyIds, p \in Products : batches'[t][p] = 0 \/ lots'[p][t] = 0
<1>1. /\ batches \in [TxIds -> [Products -> Nat]] /\ LegacyIds \subseteq TxIds /\ BatchOnce
      /\ \A t \in LegacyIds, p \in Products : batches[t][p] = 0 \/ lots[p][t] = 0
  BY LegacyAssumption DEF IInv, TypeOK, LedgerTypeOK, InboundBatchedOnce
<1>2. CASE UNCHANGED batches /\ Legacy[tx].kind \notin Inbound
  BY <1>1, <1>2 DEF BatchOnce
<1>3. CASE Legacy[tx].kind \in Inbound /\ batches[tx] # NoItems
  <2>1. batches' = batches
    BY <1>3 DEF CreateStockBatches
  <2> QED BY <1>1, <1>3, <2>1 DEF BatchOnce
<1>4. CASE Legacy[tx].kind \in Inbound /\ batches[tx] = NoItems
  <2>1. /\ batches' = [batches EXCEPT ![tx] = InboundCount[tx]]
        /\ \A p \in Products : InboundCount[tx][p] > 0 => lots[p][tx] = 0
    BY <1>4 DEF CreateStockBatches
  <2>2. InboundCount[tx] \in [Products -> Nat]
    BY InboundCountFacts
  <2>3. /\ batches' \in [TxIds -> [Products -> Nat]] /\ batches'[tx] = InboundCount[tx]
        /\ \A t \in LegacyIds \ {tx} : batches'[t] = batches[t]
    BY <1>1, <2>1, <2>2
  <2>4. \A p \in Products : InboundCount[tx][p] = 0 \/ lots[p][tx] = 0
    BY <2>1, <2>2
  <2> QED BY <1>1, <1>4, <2>3, <2>4 DEF BatchOnce
<1> QED BY <1>2, <1>3, <1>4

LEMMA EventStep ==
  ASSUME IInv, NEW m \in Messages, ProcessStockEvent(m), inbox' \subseteq Messages
  PROVE  IInv'
<1> DEFINE tx == m[2]
<1>1. /\ applied' = [applied EXCEPT ![m] = @ + 1]
      /\ UNCHANGED <<trx, legacy, lots, phase, seen>>
      /\ m[1] = "source" => ApplyTxItems(tx)
      /\ m[1] = "cancel" => ApplyCancel(tx)
  BY DEF ProcessStockEvent
<1>2. tx \in LegacyIds /\ tx \in TxIds
  BY MessageFacts, LegacyFacts
<1>3. /\ applied' \in [Messages -> Nat]
      /\ \A t \in LegacyIds : /\ Times(t) \in Nat
                              /\ Times(t)' = IF m = <<"source", t>> THEN Times(t) + 1 ELSE Times(t)
  BY <1>1, AppliedFacts DEF IInv
<1>4. \E change, move :
         /\ Writes(tx, change, move)
         /\ m[1] = "source" => change = Moved(tx)
         /\ m[1] = "cancel" => tx \in logged /\ batchNet'[tx] = NoChange
  <2>1. CASE m[1] = "source"
    <3>1. Writes(tx, Moved(tx), LegacyMove[tx])
      BY <1>1, <1>2, <2>1, SourceWrites
    <3> QED BY <2>1, <3>1
  <2>2. CASE m[1] = "cancel"
    <3>1. tx \in Cancelable
      BY <2>2, MessageFacts
    <3>2. Writes(tx, Neg(batchNet[tx]), RestoredRacks(tx)) /\ tx \in logged /\ batchNet'[tx] = NoChange
      BY <1>1, <2>2, <3>1, CancelWrites
    <3> QED BY <2>2, <3>2
  <2> QED BY <2>1, <2>2, MessageFacts
<1>5. OneWarehouse' /\ LoggedApplied' /\ NetOfApplied'
  <2>1. PICK change, move :
           /\ Writes(tx, change, move)
           /\ m[1] = "source" => change = Moved(tx)
           /\ m[1] = "cancel" => tx \in logged /\ batchNet'[tx] = NoChange
    BY <1>4
  <2> QED BY <1>1, <2>1, LogKept
<1>6. /\ batches' \in [TxIds -> [Products -> Nat]] /\ BatchOnce'
      /\ m[1] = "source" /\ Legacy[tx].kind \in Inbound => batches'[tx] = InboundCount[tx]
      /\ \A t \in LegacyIds : m # <<"source", t>> => batches'[t] = batches[t]
      /\ \A t \in LegacyIds, p \in Products : batches'[t][p] = 0 \/ lots'[p][t] = 0
  <2>1. CASE m[1] = "source"
    <3>1. IF Legacy[tx].kind \in Inbound THEN CreateStockBatches(tx) ELSE UNCHANGED batches
      BY <1>1, <1>2, <2>1, SourceWrites
    <3>2. lots' = lots
      BY <1>1
    <3>3. \A t \in LegacyIds : m # <<"source", t>> => t \in LegacyIds \ {tx}
      BY <2>1, MessageFacts
    <3> HIDE DEF tx
    <3>4. /\ batches' \in [TxIds -> [Products -> Nat]] /\ BatchOnce'
          /\ Legacy[tx].kind \in Inbound => batches'[tx] = InboundCount[tx]
          /\ \A t \in LegacyIds \ {tx} : batches'[t] = batches[t]
          /\ \A t \in LegacyIds, p \in Products : batches'[t][p] = 0 \/ lots'[p][t] = 0
      BY <1>2, <3>1, <3>2, BatchesKept
    <3> QED BY <3>3, <3>4
  <2>2. CASE m[1] = "cancel"
    <3>1. batches' = batches /\ lots' = lots
      BY <1>1, <2>2, MessageFacts, CancelWrites
    <3> QED BY <2>2, <3>1 DEF IInv, TypeOK, LedgerTypeOK, BatchOnce, InboundBatchedOnce
  <2> QED BY <2>1, <2>2, MessageFacts
<1>7. TypeOK'
  <2>1. /\ stock' \in Grid /\ logTotal' \in Grid /\ batchNet' \in [TxIds -> Grid]
        /\ logged' \subseteq TxIds /\ place' \in RackGrid /\ placeNet' \in [TxIds -> RackGrid]
    BY <1>4 DEF Writes
  <2> HIDE DEF tx
  <2>2. trx' \in [TxIds -> Transaction \cup {NoTx}]
    BY <1>1 DEF IInv, TypeOK, LedgerTypeOK
  <2>3. LedgerTypeOK'
    BY <1>6, <2>1, <2>2 DEF LedgerTypeOK
  <2> QED BY <1>1, <1>3, <2>3 DEF IInv, TypeOK
<1>8. InboundBatchedOnce'
  <2>1. ASSUME NEW t \in LegacyIds, Legacy[t].kind \in Inbound, Times(t)' > 0
        PROVE  batches'[t] = InboundCount[t]
    <3>1. CASE m = <<"source", t>>
      BY <1>6, <2>1, <3>1
    <3>2. CASE m # <<"source", t>>
      <4>1. Times(t) > 0
        BY <1>3, <2>1, <3>2
      <4>2. batches[t] = InboundCount[t]
        BY <2>1, <4>1 DEF IInv, InboundBatchedOnce, Times
      <4> QED BY <1>6, <3>2, <4>2
    <3> QED BY <3>1, <3>2
  <2> HIDE DEF tx
  <2> QED BY <1>6, <1>7, <2>1 DEF InboundBatchedOnce, Times
<1> HIDE DEF tx
<1> QED BY <1>5, <1>6, <1>7, <1>8 DEF IInv

\* A step that writes neither the log nor a batch nor the lots.
LEMMA OtherStep ==
  ASSUME IInv, UNCHANGED <<batchNet, logged, batches, applied, lots>>, TypeOK'
  PROVE  IInv'
BY DEF IInv, OneWarehouse, LoggedApplied, NetOfApplied, BatchOnce, InboundBatchedOnce, Times, Undone

LEMMA InitIInv == Init => IInv
<1> SUFFICES ASSUME Init PROVE IInv
  OBVIOUS
<1>1. /\ NoItems \in [Products -> Nat] /\ \A p \in Products : NoItems[p] = 0
      /\ LegacyIds \subseteq TxIds
  BY LegacyAssumption DEF NoItems
<1>2. LedgerTypeOK
  BY <1>1, NoChangeValues, NoMoveValues, LedgerAssumption DEF Init, LedgerInit, LedgerTypeOK
<1>3. TypeOK
  BY <1>2 DEF Init, TypeOK, Statuses
<1>4. /\ \A t \in LegacyIds : batchNet[t] = NoChange /\ batches[t] = NoItems /\ Times(t) = 0
      /\ logged = {} /\ Undone = {}
  <2>1. \A t \in LegacyIds : <<"source", t>> \in Messages
    BY DEF Messages
  <2>2. \A t \in Cancelable : <<"cancel", t>> \in Messages
    BY DEF Messages
  <2> QED BY <1>1, <2>1, <2>2 DEF Init, LedgerInit, Times, Undone
<1>5. OneWarehouse /\ LoggedApplied /\ NetOfApplied /\ BatchOnce
  BY <1>4, NoChangeValues DEF OneWarehouse, LoggedApplied, NetOfApplied, BatchOnce
<1>6. InboundBatchedOnce
  BY <1>1, <1>3, <1>4 DEF InboundBatchedOnce, Times
<1> QED BY <1>3, <1>5, <1>6 DEF IInv

-----------------------------------------------------------------------------
(* Reconciles                                                               *)

LEMMA CommittedView == Committed \in SUBSET LegacyIds
BY DEF Committed

\* Rows of id 0 are no legacy transaction's.
LEMMA ReconcileStep ==
  ASSUME IInv, NEW k \in Keys, ReconcileStock(k)
  PROVE  /\ IInv'
         /\ \A j \in Keys :
               stock'[j[1]][j[2]] = IF j = k THEN OnHand(seen[k], k[1], k[2]) ELSE stock[j[1]][j[2]]
         /\ \A j \in Keys, r \in Racks :
               place'[j[1]][j[2]][r] = IF j = k THEN RackCount(Committed, k[1], k[2], r)
                                       ELSE place[j[1]][j[2]][r]
<1> DEFINE w == k[1]
           p == k[2]
           diff == [q \in Products |-> IF q = p THEN OnHand(seen[k], w, p) - stock[w][p] ELSE 0]
           take == [q \in Products |-> [r \in Racks |->
                       IF q = p THEN RackDiff(Committed, w, p, r) ELSE 0]]
<1>1. /\ phase[k] = "read" /\ phase' = [phase EXCEPT ![k] = "batches"]
      /\ ProcessStockBatchLog(0, At(w, diff))
      /\ ApplyPlacements(0, AtRacks(w, take))
      /\ UNCHANGED <<trx, batches, legacy, inbox, applied, lots, seen>>
  BY DEF ReconcileStock
<1>2. /\ TypeOK /\ w \in Warehouses /\ p \in Products /\ k = <<w, p>>
      /\ 0 \in TxIds /\ LegacyIds \subseteq TxIds \ {0}
      /\ seen[k] \in SUBSET LegacyIds
  BY LegacyAssumption DEF Keys, IInv, TypeOK
<1>3. /\ \A v \in Warehouses, q \in Products : stock[v][q] \in Int
      /\ \A v \in Warehouses, q \in Products, r \in Racks : place[v][q][r] \in Int
  BY <1>2 DEF TypeOK, LedgerTypeOK, Grid, RackGrid
<1>4. /\ OnHand(seen[k], w, p) \in Int
      /\ \A r \in Racks : RackCount(Committed, w, p, r) \in Int
  BY <1>2, OnHandFacts, CommittedView
<1>5. diff \in [Products -> Int]
      /\ \A q \in Products : diff[q] = IF q = p THEN OnHand(seen[k], w, p) - stock[w][p] ELSE 0
  BY <1>2, <1>3, <1>4
<1>6. /\ take \in [Products -> [Racks -> Int]]
      /\ \A q \in Products, r \in Racks :
            take[q][r] = IF q = p THEN RackCount(Committed, w, p, r) - place[w][p][r] ELSE 0
  <2>1. \A r \in Racks : /\ RackDiff(Committed, w, p, r) \in Int
                         /\ RackDiff(Committed, w, p, r)
                              = RackCount(Committed, w, p, r) - place[w][p][r]
    BY <1>2, <1>3, <1>4 DEF RackDiff
  <2> QED BY <2>1
<1> HIDE DEF diff, take, w, p
<1>7. /\ stock' \in Grid /\ logTotal' \in Grid
      /\ batchNet' \in [TxIds -> Grid]
      /\ logged' \subseteq TxIds /\ logged' \subseteq logged \cup {0}
      /\ \A v \in Warehouses, q \in Products : stock'[v][q] = stock[v][q] + At(w, diff)[v][q]
      /\ \A t \in TxIds \ {0} : batchNet'[t] = batchNet[t]
  BY <1>1, <1>2, <1>5, LogAt
<1>8. /\ AtRacks(w, take) \in RackGrid
      /\ \A v \in Warehouses, q \in Products, r \in Racks :
            AtRacks(w, take)[v][q][r] = IF v = w THEN take[q][r] ELSE 0
  <2>1. NoRacks \in [Products -> [Racks -> Int]] /\ \A q \in Products, r \in Racks : NoRacks[q][r] = 0
    BY DEF NoRacks
  <2> QED BY <1>6, <2>1 DEF AtRacks, RackGrid
<1>9. /\ place' \in RackGrid /\ placeNet' \in [TxIds -> RackGrid]
      /\ \A v \in Warehouses, q \in Products, r \in Racks :
            place'[v][q][r] = place[v][q][r] + AtRacks(w, take)[v][q][r]
  BY <1>1, <1>2, <1>8, PlaceAt
<1>10. \A j \in Keys : j[1] \in Warehouses /\ j[2] \in Products /\ j = <<j[1], j[2]>>
  BY DEF Keys
<1>11. ASSUME NEW j \in Keys
       PROVE  stock'[j[1]][j[2]] = IF j = k THEN OnHand(seen[k], w, p) ELSE stock[j[1]][j[2]]
  <2>1. At(w, diff)[j[1]][j[2]] = IF j[1] = w THEN diff[j[2]] ELSE 0
    BY <1>2, <1>5, <1>10, AtValues
  <2>2. stock'[j[1]][j[2]] = stock[j[1]][j[2]] + At(w, diff)[j[1]][j[2]]
    BY <1>7, <1>10
  <2>3. CASE j = k
    <3>1. j[1] = w /\ j[2] = p
      BY <2>3 DEF w, p
    <3> QED BY <1>2, <1>3, <1>4, <1>5, <2>1, <2>2, <2>3, <3>1
  <2>4. CASE j # k
    <3>1. At(w, diff)[j[1]][j[2]] = 0
      BY <1>2, <1>5, <1>10, <2>1, <2>4
    <3> QED BY <1>3, <1>10, <2>2, <2>4, <3>1
  <2> QED BY <2>3, <2>4
<1>12. ASSUME NEW j \in Keys, NEW r \in Racks
       PROVE  place'[j[1]][j[2]][r] = IF j = k THEN RackCount(Committed, w, p, r)
                                      ELSE place[j[1]][j[2]][r]
  <2>1. AtRacks(w, take)[j[1]][j[2]][r] = IF j[1] = w THEN take[j[2]][r] ELSE 0
    BY <1>8, <1>10
  <2>2. place'[j[1]][j[2]][r] = place[j[1]][j[2]][r] + AtRacks(w, take)[j[1]][j[2]][r]
    BY <1>9, <1>10
  <2>3. CASE j = k
    <3>1. j[1] = w /\ j[2] = p
      BY <2>3 DEF w, p
    <3> QED BY <1>2, <1>3, <1>4, <1>6, <2>1, <2>2, <2>3, <3>1
  <2>4. CASE j # k
    <3>1. AtRacks(w, take)[j[1]][j[2]][r] = 0
      BY <1>2, <1>6, <1>10, <2>1, <2>4
    <3> QED BY <1>3, <1>10, <2>2, <2>4, <3>1
  <2> QED BY <2>3, <2>4
<1>13. TypeOK'
  <2>1. LedgerTypeOK'
    BY <1>1, <1>2, <1>7, <1>9 DEF TypeOK, LedgerTypeOK
  <2> QED BY <1>1, <1>2, <2>1 DEF TypeOK
<1>14. IInv'
  <2>1. \A t \in LegacyIds : batchNet'[t] = batchNet[t] /\ t \in TxIds
    BY <1>2, <1>7
  <2>2. \A t \in LegacyIds : t \in logged' => t \in logged
    BY <1>2, <1>7
  <2>3. Undone' = Undone /\ \A t \in LegacyIds : Times(t)' = Times(t)
    BY <1>1 DEF Undone, Times
  <2>4. OneWarehouse' /\ LoggedApplied' /\ NetOfApplied'
    BY <2>1, <2>2, <2>3 DEF IInv, OneWarehouse, LoggedApplied, NetOfApplied
  <2>5. BatchOnce' /\ InboundBatchedOnce'
    BY <1>1, <1>13 DEF IInv, BatchOnce, InboundBatchedOnce
  <2> QED BY <1>13, <2>4, <2>5 DEF IInv
<1> QED BY <1>11, <1>12, <1>14 DEF w, p

\* No code is used twice: a lot has one only if no batch has it.
LEMMA SyncBatchesStep ==
  ASSUME IInv, NEW k \in Keys, SyncBatches(k)
  PROVE  IInv'
<1> DEFINE w == k[1]
           p == k[2]
           new == [lot \in Lots |->
                     IF LotCount(Committed, lot, w, p) > 0 /\ ~CodeTaken(p, lot)
                     THEN LotCount(Committed, lot, w, p) ELSE lots[p][lot]]
<1>1. /\ w \in Warehouses /\ p \in Products /\ TypeOK
      /\ lots \in [Products -> [Lots -> Nat]]
  BY DEF Keys, IInv, TypeOK
<1>2. /\ lots' = [lots EXCEPT ![p] = new]
      /\ phase' = [phase EXCEPT ![k] = "idle"]
      /\ UNCHANGED <<ledgerVars, legacy, inbox, applied, seen>>
  BY DEF SyncBatches
<1>3. ASSUME NEW lot \in Lots PROVE LotCount(Committed, lot, w, p) \in Int
  <2> DEFINE V == {t \in Committed : Legacy[t].lot = lot}
             f == [t \in V |-> SumFunction(LegacyMove[t][w][p])]
  <2>1. V \subseteq LegacyIds /\ IsFiniteSet(V)
    BY CommittedView, LegacyAssumption, LedgerAssumption, FS_Subset
  <2>2. \A t \in V : f[t] \in Int
    <3>1. ASSUME NEW t \in V PROVE SumFunction(LegacyMove[t][w][p]) \in Int
      <4>1. /\ DOMAIN LegacyMove[t][w][p] = Racks
            /\ SumFunctionOnSet(LegacyMove[t][w][p], Racks) = Moved(t)[w][p]
        BY <1>1, <2>1, MoveFacts
      <4>2. Moved(t) \in Grid
        BY <2>1, LegacyFacts, AtValues DEF Moved
      <4> QED BY <1>1, <4>1, <4>2 DEF SumFunction, Grid
    <3> QED BY <3>1
  <2>3. SumFunction(OldRacks[w][p]) \in Int
    <3> DEFINE h == OldRacks[w][p]
    <3>1. h \in [Racks -> Int] /\ IsFiniteSet(Racks)
      <4>1. OldRacks \in RackGrid
        BY LegacyAssumption
      <4> QED BY <1>1, <4>1, LedgerAssumption DEF RackGrid
    <3> HIDE DEF h
    <3>2. SumFunctionOnSet(h, Racks) \in Int
      BY <3>1, SumRemove
    <3> QED BY <3>1, <3>2 DEF SumFunction, h
  <2>4. LotCount(Committed, lot, w, p)
           = (IF lot = OldLot THEN SumFunction(OldRacks[w][p]) ELSE 0) + SumFunctionOnSet(f, V)
    BY DEF LotCount, SumFunction
  <2> HIDE DEF V, f
  <2>5. SumFunctionOnSet(f, V) \in Int
    BY <2>1, <2>2, SumRemove
  <2> QED BY <2>3, <2>4, <2>5
<1>4. new \in [Lots -> Nat]
  <2>1. \A lot \in Lots : new[lot] \in Nat
    BY <1>1, <1>3
  <2> QED BY <2>1
<1>5. lots' \in [Products -> [Lots -> Nat]]
  BY <1>1, <1>2, <1>4
<1>6. TypeOK'
  BY <1>1, <1>2, <1>5 DEF TypeOK, LedgerTypeOK, ledgerVars, logVars, placeVars
<1>7. ASSUME NEW t \in LegacyIds, NEW q \in Products
      PROVE  batches'[t][q] = 0 \/ lots'[q][t] = 0
  <2>1. batches[t][q] = 0 \/ lots[q][t] = 0
    BY DEF IInv, InboundBatchedOnce
  <2>2. batches' = batches /\ t \in Lots /\ t # OldLot
    BY <1>2, LegacyAssumption DEF ledgerVars, Lots
  <2>3. CASE q # p
    BY <1>1, <1>2, <2>1, <2>2, <2>3
  <2>4. CASE q = p
    <3>1. lots'[q][t] = new[t]
      BY <1>1, <1>2, <2>4
    <3>2. CodeTaken(p, t) => new[t] = lots[p][t]
      BY <2>2
    <3>3. ~CodeTaken(p, t) => batches[t][p] = 0
      BY <2>2 DEF CodeTaken
    <3> QED BY <2>1, <2>2, <2>4, <3>1, <3>2, <3>3
  <2> QED BY <2>3, <2>4
<1>8. InboundBatchedOnce'
  BY <1>2, <1>6, <1>7 DEF IInv, InboundBatchedOnce, ledgerVars
<1>9. OneWarehouse' /\ LoggedApplied' /\ NetOfApplied' /\ BatchOnce'
  <2>1. /\ batchNet' = batchNet /\ logged' = logged /\ batches' = batches /\ applied' = applied
    BY <1>2 DEF ledgerVars, logVars
  <2> QED BY <2>1 DEF IInv, OneWarehouse, LoggedApplied, NetOfApplied, BatchOnce, Undone, Times
<1> QED BY <1>6, <1>8, <1>9 DEF IInv

LEMMA NextIInv == IInv /\ [Next]_vars => IInv'
<1> SUFFICES ASSUME IInv, [Next]_vars PROVE IInv'
  OBVIOUS
<1>1. ASSUME NEW m \in Messages, HandlePush(m) \/ PushStockEvent(m) PROVE IInv'
  <2>1. ProcessStockEvent(m) /\ inbox' \subseteq Messages
    BY <1>1 DEF HandlePush, PushStockEvent, IInv, TypeOK
  <2> QED BY <2>1, EventStep
<1>2. ASSUME NEW tx \in LegacyIds, LegacyCommit(tx) \/ LegacyCancel(tx) PROVE IInv'
  <2>1. /\ UNCHANGED <<ledgerVars, inbox, applied, lots, phase, seen>>
        /\ legacy' = [legacy EXCEPT ![tx] = "committed"] \/ legacy' = [legacy EXCEPT ![tx] = "canceled"]
    BY <1>2 DEF LegacyCommit, LegacyCancel
  <2>2. TypeOK'
    BY <2>1 DEF IInv, TypeOK, LedgerTypeOK, ledgerVars, logVars, placeVars, Statuses
  <2> QED BY <2>1, <2>2, OtherStep DEF ledgerVars, logVars
<1>3. ASSUME NEW k \in Keys, Reconcile(k) PROVE IInv'
  <2>1. CASE ReadOnHand(k)
    <3>1. /\ UNCHANGED <<ledgerVars, legacy, inbox, applied, lots>>
          /\ phase' = [phase EXCEPT ![k] = "read"] /\ seen' = [seen EXCEPT ![k] = Committed]
      BY <2>1 DEF ReadOnHand
    <3>2. TypeOK'
      BY <3>1, CommittedView DEF IInv, TypeOK, LedgerTypeOK, ledgerVars, logVars, placeVars
    <3> QED BY <3>1, <3>2, OtherStep DEF ledgerVars, logVars
  <2>2. CASE ReconcileStock(k)
    BY <2>2, ReconcileStep
  <2>3. CASE SyncBatches(k)
    BY <2>3, SyncBatchesStep
  <2>4. CASE AbortReconcile(k)
    <3>1. /\ UNCHANGED <<ledgerVars, legacy, inbox, applied, lots, seen>>
          /\ phase' = [phase EXCEPT ![k] = "idle"]
      BY <2>4 DEF AbortReconcile
    <3>2. TypeOK'
      BY <3>1 DEF IInv, TypeOK, LedgerTypeOK, ledgerVars, logVars, placeVars
    <3> QED BY <3>1, <3>2, OtherStep DEF ledgerVars, logVars
  <2> QED BY <1>3, <2>1, <2>2, <2>3, <2>4 DEF Reconcile
<1>4. CASE UNCHANGED vars
  <2>1. UNCHANGED <<ledgerVars, legacy, inbox, applied, lots, phase, seen>>
    BY <1>4 DEF vars, eventVars
  <2>2. TypeOK'
    BY <2>1 DEF IInv, TypeOK, LedgerTypeOK, ledgerVars, logVars, placeVars
  <2> QED BY <2>1, <2>2, OtherStep DEF ledgerVars, logVars
<1> QED BY <1>1, <1>2, <1>3, <1>4 DEF Next, OlderService, Events

\* An inbound that was applied has its batch, once, with what came in, and no
\* code is used twice: for any number of deliveries, retries and reconciles.
THEOREM InboundsBatchedOnce == Spec => []InboundBatchedOnce
<1>1. IInv => InboundBatchedOnce
  BY DEF IInv
<1> QED BY InitIInv, NextIInv, <1>1, PTL DEF Spec

-----------------------------------------------------------------------------
(* What parts the two services                                              *)

LEMMA StepKinds ==
  ASSUME IInv, [Next]_vars
  PROVE  \/ /\ stock' = stock /\ place' = place /\ applied' = applied
            /\ \A k \in Keys : ~Reconciled(k)
         \/ \E m \in Messages : ProcessStockEvent(m) /\ \A k \in Keys : ~Reconciled(k)
         \/ \E k \in Keys : /\ ReconcileStock(k) /\ Reconciled(k) /\ applied' = applied
                            /\ \A j \in Keys : Reconciled(j) => j = k
<1>1. ASSUME NEW m \in Messages, HandlePush(m) \/ PushStockEvent(m)
      PROVE  ProcessStockEvent(m) /\ \A k \in Keys : ~Reconciled(k)
  BY <1>1 DEF HandlePush, PushStockEvent, ProcessStockEvent, Reconciled
<1>2. ASSUME NEW tx \in LegacyIds, LegacyCommit(tx) \/ LegacyCancel(tx)
      PROVE  /\ stock' = stock /\ place' = place /\ applied' = applied
             /\ \A k \in Keys : ~Reconciled(k)
  <2>1. UNCHANGED <<ledgerVars, applied, phase>>
    BY <1>2 DEF LegacyCommit, LegacyCancel
  <2> QED BY <2>1 DEF ledgerVars, logVars, placeVars, Reconciled
<1>3. ASSUME NEW k \in Keys, ReadOnHand(k) \/ SyncBatches(k) \/ AbortReconcile(k)
      PROVE  /\ stock' = stock /\ place' = place /\ applied' = applied
             /\ \A j \in Keys : ~Reconciled(j)
  <2>1. /\ UNCHANGED <<ledgerVars, applied>>
        /\ phase' = [phase EXCEPT ![k] = "read"] \/ phase' = [phase EXCEPT ![k] = "idle"]
    BY <1>3 DEF ReadOnHand, SyncBatches, AbortReconcile
  <2>2. phase \in [Keys -> {"never", "idle", "read", "batches"}]
    BY DEF IInv, TypeOK
  <2> QED BY <2>1, <2>2 DEF ledgerVars, logVars, placeVars, Reconciled
<1>4. ASSUME NEW k \in Keys, ReconcileStock(k)
      PROVE  /\ Reconciled(k) /\ applied' = applied
             /\ \A j \in Keys : Reconciled(j) => j = k
  <2>1. phase[k] = "read" /\ phase' = [phase EXCEPT ![k] = "batches"] /\ applied' = applied
    BY <1>4 DEF ReconcileStock
  <2>2. phase \in [Keys -> {"never", "idle", "read", "batches"}]
    BY DEF IInv, TypeOK
  <2> QED BY <2>1, <2>2 DEF Reconciled
<1>5. CASE UNCHANGED vars
  BY <1>5 DEF vars, eventVars, ledgerVars, logVars, placeVars, Reconciled
<1> QED BY <1>1, <1>2, <1>3, <1>4, <1>5 DEF Next, OlderService, Events, Reconcile

LEMMA ViewFacts ==
  /\ View \in SUBSET LegacyIds
  /\ applied' = applied => View' = View
BY DEF View, Undone

\* A cancel of a transaction that was applied once undoes just that, once.
LEMMA CancelOnce ==
  ASSUME IInv, NEW tx \in Cancelable, Times(tx) = 1,
         NEW w \in Warehouses, NEW p \in Products
  PROVE  /\ Neg(batchNet[tx])[w][p] + (IF tx \in Undone THEN 0 ELSE Moved(tx)[w][p]) = 0
         /\ \A r \in Racks :
               RestoredRacks(tx)[w][p][r]
                  + (IF tx \in Undone THEN 0 ELSE LegacyMove[tx][w][p][r]) = 0
<1>1. tx \in LegacyIds /\ tx \in TxIds /\ Direction(Legacy[tx].kind) = -1
  BY LegacyFacts DEF Cancelable
<1>2. batchNet[tx] = IF tx \in Undone THEN NoChange ELSE Moved(tx)
  BY <1>1 DEF IInv, NetOfApplied
<1>3. batchNet[tx] \in Grid
  BY <1>1 DEF IInv, TypeOK, LedgerTypeOK
<1>4. /\ Neg(batchNet[tx])[w][p] + batchNet[tx][w][p] = 0
      /\ batchNet[tx][w][p] \in Int
  BY <1>3, NegValues DEF Grid
<1>5. batchNet[tx][w][p] = IF tx \in Undone THEN 0 ELSE Moved(tx)[w][p]
  BY <1>2, NoChangeValues
<1>6. ASSUME NEW r \in Racks
      PROVE  RestoredRacks(tx)[w][p][r]
                  + (IF tx \in Undone THEN 0 ELSE LegacyMove[tx][w][p][r]) = 0
  <2>1. /\ Histories[tx][w][p][r] \in Int
        /\ LegacyMove[tx][w][p][r] + Histories[tx][w][p][r] = 0
    <3>1. /\ Histories[tx][w][p][r] \in Nat
          /\ LegacyMove[tx][w][p][r] = IF Direction(Legacy[tx].kind) = 1
                     THEN Histories[tx][w][p][r] ELSE -Histories[tx][w][p][r]
      BY <1>1, MoveFacts
    <3>2. -1 # 1
      OBVIOUS
    <3>3. LegacyMove[tx][w][p][r] = -Histories[tx][w][p][r]
      BY <1>1, <3>1, <3>2
    <3> DEFINE a == LegacyMove[tx][w][p][r]
               b == Histories[tx][w][p][r]
    <3>4. b \in Int /\ a = -b
      BY <3>1, <3>3
    <3> HIDE DEF a, b
    <3>5. a + b = 0
      BY <3>4
    <3> QED BY <3>1, <3>5 DEF a, b
  <2>2. CASE batchNet[tx] = NoChange
    <3>1. RestoredRacks(tx)[w][p][r] = 0
      BY <2>2, NoMoveValues DEF RestoredRacks
    <3>2. tx \notin Undone => LegacyMove[tx][w][p][r] = 0
      BY <1>1, <1>2, <2>2, PlacementFacts
    <3> QED BY <3>1, <3>2
  <2>3. CASE batchNet[tx] # NoChange
    <3>1. tx \notin Undone /\ RestoredRacks(tx) = Histories[tx]
      BY <1>2, <2>3 DEF RestoredRacks
    <3> DEFINE a == LegacyMove[tx][w][p][r]
               b == Histories[tx][w][p][r]
    <3>2. a \in Int
      <4>1. LegacyMove[tx] \in RackGrid
        BY <1>1, PlacementFacts
      <4> QED BY <4>1 DEF RackGrid
    <3>3. b \in Int /\ a + b = 0
      BY <2>1
    <3> HIDE DEF a, b
    <3>4. b + a = 0
      BY <3>2, <3>3
    <3> QED BY <3>1, <3>4 DEF a, b
  <2> QED BY <2>2, <2>3
<1> QED BY <1>4, <1>5, <1>6

\* A reconcile that nothing overtakes brings its product back in line.
LEMMA ReconcileMirrors ==
  ASSUME IInv, NEW k \in Keys, ReconcileStock(k), seen[k] = View, Committed = View,
         applied' = applied
  PROVE  /\ MirrorsAt(k)'
         /\ \A j \in Keys : MirrorsAt(j) => MirrorsAt(j)'
<1>1. View' = View
  BY ViewFacts
<1>2. /\ \A j \in Keys :
               stock'[j[1]][j[2]] = IF j = k THEN OnHand(seen[k], k[1], k[2]) ELSE stock[j[1]][j[2]]
      /\ \A j \in Keys, r \in Racks :
               place'[j[1]][j[2]][r] = IF j = k THEN RackCount(Committed, k[1], k[2], r)
                                       ELSE place[j[1]][j[2]][r]
  BY ReconcileStep
<1>3. /\ stock'[k[1]][k[2]] = OnHand(View, k[1], k[2])
      /\ \A r \in Racks : place'[k[1]][k[2]][r] = RackCount(View, k[1], k[2], r)
  BY <1>2
<1>4. MirrorsAt(k)'
  BY <1>1, <1>3 DEF MirrorsAt
<1>5. ASSUME NEW j \in Keys, MirrorsAt(j) PROVE MirrorsAt(j)'
  <2>1. CASE j = k
    BY <1>4, <2>1
  <2>2. CASE j # k
    <3>1. /\ stock'[j[1]][j[2]] = stock[j[1]][j[2]]
          /\ \A r \in Racks : place'[j[1]][j[2]][r] = place[j[1]][j[2]][r]
      BY <1>2, <2>2
    <3> QED BY <1>1, <1>5, <3>1 DEF MirrorsAt
  <2> QED BY <2>1, <2>2
<1> QED BY <1>4, <1>5

\* A reconcile of a state whose events are all applied, and that no commit
\* overtakes, brings its product in line, whatever was wrong before.
THEOREM ReconcilesHeal == Spec => ReconcileHeals
<1>1. ASSUME IInv, [Next]_vars, NEW k \in Keys, Reconciled(k), seen[k] = View, Committed = View
      PROVE  MirrorsAt(k)'
  <2>1. ReconcileStock(k) /\ applied' = applied
    BY <1>1, StepKinds
  <2> QED BY <1>1, <2>1, ReconcileMirrors
<1>2. IInv /\ [Next]_vars =>
        [\A k \in Keys : Reconciled(k) /\ seen[k] = View /\ Committed = View => MirrorsAt(k)']_vars
  BY <1>1
<1> QED BY InitIInv, NextIInv, <1>2, PTL DEF Spec, ReconcileHeals

\* An event applied for the first time, or a cancel of such a one, does to
\* state and racks what the older service did.
LEMMA EventMirrors ==
  ASSUME IInv, NEW m \in Messages, ProcessStockEvent(m), NEW k \in Keys, MirrorsAt(k),
         ~AppliedAgain(m), \A tx \in Cancelable : ~CancelsBoth(tx)
  PROVE  MirrorsAt(k)'
<1> DEFINE tx == m[2]
           w == k[1]
           p == k[2]
<1>1. /\ w \in Warehouses /\ p \in Products /\ tx \in LegacyIds /\ TypeOK
      /\ applied' = [applied EXCEPT ![m] = @ + 1]
  BY MessageFacts DEF Keys, IInv, ProcessStockEvent
<1>2. /\ \A t \in LegacyIds : Times(t) \in Nat
      /\ Undone' = IF m[1] = "cancel" THEN Undone \cup {tx} ELSE Undone
      /\ \A t \in LegacyIds : Times(t)' = IF m = <<"source", t>> THEN Times(t) + 1 ELSE Times(t)
      /\ applied[m] \in Nat /\ applied'[m] = applied[m] + 1
  BY <1>1, AppliedFacts DEF TypeOK
<1>3. \A V \in SUBSET LegacyIds :
         \A r \in Racks : /\ RackCount(V, w, p, r) \in Int
                          /\ OnHand(V, w, p) \in Int
  BY <1>1, OnHandFacts
<1>4. /\ stock[w][p] = OnHand(View, w, p) /\ stock[w][p] \in Int
      /\ \A r \in Racks : place[w][p][r] = RackCount(View, w, p, r) /\ place[w][p][r] \in Int
  BY <1>1 DEF MirrorsAt, TypeOK, LedgerTypeOK, Grid, RackGrid
<1>5. Moved(tx)[w][p] \in Int /\ \A r \in Racks : LegacyMove[tx][w][p][r] \in Int
  <2>1. Moved(tx) \in Grid /\ LegacyMove[tx] \in RackGrid
    BY <1>1, LegacyFacts, AtValues, PlacementFacts DEF Moved
  <2> QED BY <1>1, <2>1 DEF Grid, RackGrid
<1>6. CASE m[1] = "source"
  <2>1. m = <<"source", tx>> /\ applied[m] = 0
    <3>1. ~(applied[m] > 0 /\ applied'[m] > applied[m])
      BY <1>6 DEF AppliedAgain
    <3> QED BY <1>2, <1>6, <3>1, MessageFacts
  <2>2. Times(tx) = 0
    BY <2>1 DEF Times
  <2>3. tx \notin Undone /\ tx \notin View
    BY <1>1, <2>2 DEF IInv, LoggedApplied, View, Times
  <2>4. View' = View \cup {tx}
    <3>1. \A t \in LegacyIds : Times(t)' > 0 <=> Times(t) > 0 \/ t = tx
      <4>1. \A t \in LegacyIds : m = <<"source", t>> <=> t = tx
        BY <2>1
      <4> QED BY <1>2, <4>1
    <3>2. Undone' = Undone
      BY <1>2, <1>6
    <3> HIDE DEF tx
    <3> QED BY <1>1, <2>3, <3>1, <3>2 DEF View, Times
  <2>5. Writes(tx, Moved(tx), LegacyMove[tx])
    <3>1. ApplyTxItems(tx)
      BY <1>6 DEF ProcessStockEvent
    <3> QED BY <1>1, <3>1, SourceWrites
  <2> HIDE DEF tx, w, p
  <2>6. /\ stock'[w][p] = stock[w][p] + Moved(tx)[w][p]
        /\ \A r \in Racks : place'[w][p][r] = place[w][p][r] + LegacyMove[tx][w][p][r]
    BY <1>1, <2>5 DEF Writes
  <2>7. /\ OnHand(View \cup {tx}, w, p) = OnHand(View, w, p) + Moved(tx)[w][p]
        /\ \A r \in Racks : RackCount(View \cup {tx}, w, p, r)
                               = RackCount(View, w, p, r) + LegacyMove[tx][w][p][r]
    <3>1. View \in SUBSET LegacyIds /\ tx \in LegacyIds \ View
      BY <1>1, <2>3, ViewFacts
    <3>2. OnHand(View \cup {tx}, w, p) = OnHand(View, w, p) + Moved(tx)[w][p]
      BY <1>1, <3>1, OnHandFacts
    <3> QED BY <1>1, <3>1, <3>2, ViewGrows
  <2>8. /\ stock'[w][p] = OnHand(View', w, p)
        /\ \A r \in Racks : place'[w][p][r] = RackCount(View', w, p, r)
    BY <1>4, <2>4, <2>6, <2>7
  <2> QED BY <2>8 DEF MirrorsAt, w, p
<1>7. CASE m[1] = "cancel"
  <2>1. m = <<"cancel", tx>> /\ tx \in Cancelable /\ ApplyCancel(tx)
    BY <1>7, MessageFacts DEF ProcessStockEvent
  <2>2. Writes(tx, Neg(batchNet[tx]), RestoredRacks(tx)) /\ tx \in logged
    BY <2>1, CancelWrites
  <2>3. Times(tx) = 1
    <3>1. Times(tx) > 0
      BY <1>1, <2>2 DEF IInv, LoggedApplied
    <3>2. ~(Times(tx) > 1 /\ applied'[m] > applied[m])
      BY <2>1 DEF CancelsBoth, Times
    <3> QED BY <1>1, <1>2, <3>1, <3>2
  <2>4. View' = View \ {tx}
    <3>1. \A t \in LegacyIds : Times(t)' = Times(t)
      BY <1>2, <2>1
    <3>2. Undone' = Undone \cup {tx}
      BY <1>2, <1>7
    <3> HIDE DEF tx
    <3> QED BY <3>1, <3>2 DEF View, Times
  <2> DEFINE d == IF tx \in Undone THEN 0 ELSE Moved(tx)[w][p]
             e == [r \in Racks |-> IF tx \in Undone THEN 0 ELSE LegacyMove[tx][w][p][r]]
  <2>5. /\ Neg(batchNet[tx])[w][p] + d = 0
        /\ \A r \in Racks : RestoredRacks(tx)[w][p][r] + e[r] = 0
    BY <1>1, <2>1, <2>3, CancelOnce
  <2>6. /\ OnHand(View, w, p) = OnHand(View', w, p) + d
        /\ \A r \in Racks : RackCount(View, w, p, r) = RackCount(View', w, p, r) + e[r]
        /\ OnHand(View', w, p) \in Int
        /\ \A r \in Racks : RackCount(View', w, p, r) \in Int
    <3>1. View' \in SUBSET LegacyIds
      BY <2>4, ViewFacts
    <3>2. OnHand(View', w, p) \in Int /\ \A r \in Racks : RackCount(View', w, p, r) \in Int
      BY <1>1, <3>1, OnHandFacts
    <3>3. CASE tx \in Undone
      <4>1. View' = View
        BY <2>4, <3>3 DEF View
      <4> QED BY <3>2, <3>3, <4>1
    <3>4. CASE tx \notin Undone
      <4>1. tx \in View /\ View = View' \cup {tx} /\ tx \in LegacyIds \ View'
        BY <1>1, <2>3, <2>4, <3>4 DEF View, Times
      <4>2. /\ OnHand(View' \cup {tx}, w, p) = OnHand(View', w, p) + Moved(tx)[w][p]
            /\ \A r \in Racks : RackCount(View' \cup {tx}, w, p, r)
                                   = RackCount(View', w, p, r) + LegacyMove[tx][w][p][r]
        <5> HIDE DEF tx, w, p
        <5> QED BY <1>1, <3>1, <4>1, OnHandFacts, ViewGrows
      <4> QED BY <3>2, <3>4, <4>1, <4>2
    <3> QED BY <3>3, <3>4
  <2>7. d \in Int /\ \A r \in Racks : e[r] \in Int
    BY <1>5
  <2>8. /\ Neg(batchNet[tx])[w][p] \in Int
        /\ \A r \in Racks : RestoredRacks(tx)[w][p][r] \in Int
        /\ stock'[w][p] = stock[w][p] + Neg(batchNet[tx])[w][p]
        /\ \A r \in Racks : place'[w][p][r] = place[w][p][r] + RestoredRacks(tx)[w][p][r]
    <3> HIDE DEF tx, w, p
    <3> QED BY <1>1, <2>2 DEF Writes, Grid, RackGrid
  <2> HIDE DEF tx, w, p, d, e
  <2>9. stock'[w][p] = OnHand(View', w, p)
    BY <1>4, <2>5, <2>6, <2>7, <2>8
  <2>10. \A r \in Racks : place'[w][p][r] = RackCount(View', w, p, r)
    BY <1>4, <2>5, <2>6, <2>7, <2>8
  <2> QED BY <2>9, <2>10 DEF MirrorsAt, w, p
<1> QED BY <1>6, <1>7, MessageFacts

\* State and racks part from the older service only when a source event is
\* applied twice or canceled after that, or when a reconcile copies a state
\* whose events are not all applied.
THEOREM DriftHasOnlyTheseCauses == Spec => DriftHasACause
<1>1. ASSUME IInv, [Next]_vars, MirrorsLegacy,
             ~ \E m \in Messages : AppliedAgain(m),
             ~ \E tx \in Cancelable : CancelsBoth(tx),
             ~ \E k \in Keys : Reconciled(k) /\ ~(seen[k] = View /\ Committed = View)
      PROVE  MirrorsLegacy'
  <2>1. CASE stock' = stock /\ place' = place /\ applied' = applied
    BY <1>1, <2>1, ViewFacts DEF MirrorsLegacy, MirrorsAt
  <2>2. ASSUME NEW m \in Messages, ProcessStockEvent(m) PROVE MirrorsLegacy'
    <3>1. ASSUME NEW k \in Keys PROVE MirrorsAt(k)'
      BY <1>1, <2>2, EventMirrors DEF MirrorsLegacy
    <3> QED BY <3>1 DEF MirrorsLegacy
  <2>3. ASSUME NEW k \in Keys, ReconcileStock(k), Reconciled(k), applied' = applied
        PROVE  MirrorsLegacy'
    <3>1. seen[k] = View /\ Committed = View
      BY <1>1, <2>3
    <3>2. \A j \in Keys : MirrorsAt(j) => MirrorsAt(j)'
      BY <1>1, <2>3, <3>1, ReconcileMirrors
    <3> QED BY <1>1, <3>2 DEF MirrorsLegacy
  <2> QED BY <1>1, <2>1, <2>2, <2>3, StepKinds
<1>2. IInv /\ [Next]_vars =>
        [MirrorsLegacy => \/ MirrorsLegacy'
                          \/ \E m \in Messages : AppliedAgain(m)
                          \/ \E tx \in Cancelable : CancelsBoth(tx)
                          \/ \E k \in Keys : /\ Reconciled(k)
                                             /\ ~(seen[k] = View /\ Committed = View)]_vars
  BY <1>1
<1> QED BY InitIInv, NextIInv, <1>2, PTL DEF Spec, DriftHasACause

-----------------------------------------------------------------------------
(* State and racks                                                          *)

LEMMA RackSum ==
  ASSUME NEW g \in RackGrid, NEW w \in Warehouses, NEW p \in Products
  PROVE  /\ SumFunction(g[w][p]) = SumFunctionOnSet(g[w][p], Racks)
         /\ SumFunctionOnSet(g[w][p], Racks) \in Int
         /\ \A r \in Racks : g[w][p][r] \in Int
<1> DEFINE h == g[w][p]
<1>1. h \in [Racks -> Int] /\ IsFiniteSet(Racks)
  BY LedgerAssumption DEF RackGrid
<1> HIDE DEF h
<1>2. SumFunctionOnSet(h, Racks) \in Int
  BY <1>1, SumRemove
<1> QED BY <1>1, <1>2 DEF SumFunction, h

\* What an event does to the racks of a product adds up to what it does to its
\* state, unless it cancels what was applied twice.
LEMMA EventKeepsSum ==
  ASSUME IInv, NEW m \in Messages, ProcessStockEvent(m), NEW k \in Keys,
         stock[k[1]][k[2]] = SumFunction(place[k[1]][k[2]]),
         \A tx \in Cancelable : ~CancelsBoth(tx)
  PROVE  stock'[k[1]][k[2]] = SumFunction(place'[k[1]][k[2]])
<1> DEFINE tx == m[2]
           w == k[1]
           p == k[2]
<1>1. /\ w \in Warehouses /\ p \in Products /\ tx \in LegacyIds /\ TypeOK
      /\ applied' = [applied EXCEPT ![m] = @ + 1]
  BY MessageFacts DEF Keys, IInv, ProcessStockEvent
<1>2. /\ stock[w][p] \in Int /\ place \in RackGrid /\ IsFiniteSet(Racks)
  <2>1. stock \in Grid /\ place \in RackGrid
    BY <1>1 DEF TypeOK, LedgerTypeOK
  <2> QED BY <1>1, <2>1, LedgerAssumption DEF Grid
<1>3. \E change, move :
         /\ Writes(tx, change, move)
         /\ SumFunctionOnSet(move[w][p], Racks) = change[w][p]
  <2>1. CASE m[1] = "source"
    <3>1. ApplyTxItems(tx)
      BY <2>1 DEF ProcessStockEvent
    <3>2. Writes(tx, Moved(tx), LegacyMove[tx])
      BY <1>1, <3>1, SourceWrites
    <3>3. SumFunctionOnSet(LegacyMove[tx][w][p], Racks) = Moved(tx)[w][p]
      BY <1>1, MoveFacts
    <3> QED BY <3>2, <3>3
  <2>2. CASE m[1] = "cancel"
    <3>1. m = <<"cancel", tx>> /\ tx \in Cancelable /\ ApplyCancel(tx)
      BY <2>2, MessageFacts DEF ProcessStockEvent
    <3>2. Writes(tx, Neg(batchNet[tx]), RestoredRacks(tx)) /\ tx \in logged
      BY <3>1, CancelWrites
    <3>3. Times(tx) = 1
      <4>1. Times(tx) > 0 /\ Times(tx) \in Nat
        BY <1>1, <3>2, AppliedFacts DEF IInv, LoggedApplied
      <4>2. applied[m] \in Nat /\ applied'[m] = applied[m] + 1
        BY <1>1 DEF TypeOK
      <4>3. ~(Times(tx) > 1 /\ applied'[m] > applied[m])
        BY <3>1 DEF CancelsBoth, Times
      <4> QED BY <4>1, <4>2, <4>3
    <3> DEFINE f == RestoredRacks(tx)[w][p]
               e == [r \in Racks |-> IF tx \in Undone THEN 0 ELSE LegacyMove[tx][w][p][r]]
               z == [r \in Racks |-> 0]
               d == IF tx \in Undone THEN 0 ELSE Moved(tx)[w][p]
               u == Neg(batchNet[tx])[w][p]
    <3>4. u + d = 0 /\ \A r \in Racks : f[r] + e[r] = 0
      BY <1>1, <3>1, <3>3, CancelOnce
    <3>5. SumFunctionOnSet(e, Racks) = d
      <4>1. CASE tx \in Undone
        <5>1. \A r \in Racks : e[r] = 0
          BY <4>1
        <5> HIDE DEF e
        <5> QED BY <1>2, <4>1, <5>1, SumZero
      <4>2. CASE tx \notin Undone
        <5>1. /\ \A r \in Racks : e[r] = LegacyMove[tx][w][p][r]
              /\ \A r \in Racks : LegacyMove[tx][w][p][r] \in Int
          <6>1. LegacyMove[tx] \in RackGrid
            BY <1>1, PlacementFacts
          <6> QED BY <1>1, <4>2, <6>1 DEF RackGrid
        <5>2. SumFunctionOnSet(LegacyMove[tx][w][p], Racks) = Moved(tx)[w][p]
          BY <1>1, MoveFacts
        <5> DEFINE g == LegacyMove[tx][w][p]
        <5>3. SumFunctionOnSet(g, Racks) = Moved(tx)[w][p]
          BY <5>2
        <5>4. \A r \in Racks : e[r] = g[r] /\ e[r] \in Int
          BY <5>1
        <5> HIDE DEF e, g
        <5>5. SumFunctionOnSet(e, Racks) = SumFunctionOnSet(g, Racks)
          BY <1>2, <5>4, SumCongruent
        <5> QED BY <4>2, <5>3, <5>5
      <4> QED BY <4>1, <4>2
    <3>6. /\ u \in Int /\ d \in Int
          /\ \A r \in Racks : f[r] \in Int /\ e[r] \in Int
      <4>1. /\ Neg(batchNet[tx]) \in Grid /\ RestoredRacks(tx) \in RackGrid
        BY <3>2 DEF Writes
      <4>2. Moved(tx) \in Grid /\ LegacyMove[tx] \in RackGrid
        BY <1>1, LegacyFacts, AtValues, PlacementFacts DEF Moved
      <4> QED BY <1>1, <4>1, <4>2 DEF Grid, RackGrid
    <3>7. \A r \in Racks : z[r] = 0 /\ z[r] = f[r] + e[r] /\ z[r] \in Int
      BY <3>4
    <3> HIDE DEF f, e, z, d, u
    <3>8. SumFunctionOnSet(z, Racks) = SumFunctionOnSet(f, Racks) + SumFunctionOnSet(e, Racks)
      BY <1>2, <3>6, <3>7, SumAdd
    <3>9. SumFunctionOnSet(z, Racks) = 0
      BY <1>2, <3>7, SumZero
    <3>10. SumFunctionOnSet(f, Racks) \in Int
      BY <1>2, <3>6, SumRemove
    <3> DEFINE s == SumFunctionOnSet(f, Racks)
    <3>11. s + d = 0 /\ s \in Int /\ u + d = 0 /\ u \in Int /\ d \in Int
      BY <3>4, <3>5, <3>6, <3>8, <3>9, <3>10
    <3> HIDE DEF s
    <3>12. s = u
      BY <3>11
    <3> QED BY <3>2, <3>12 DEF f, u, s
  <2> QED BY <2>1, <2>2, MessageFacts
<1>4. PICK change, move :
         /\ Writes(tx, change, move)
         /\ SumFunctionOnSet(move[w][p], Racks) = change[w][p]
  BY <1>3
<1> HIDE DEF tx, w, p
<1>5. /\ place' \in RackGrid /\ move \in RackGrid /\ change[w][p] \in Int
      /\ stock'[w][p] = stock[w][p] + change[w][p]
      /\ \A r \in Racks : place'[w][p][r] = place[w][p][r] + move[w][p][r]
  BY <1>1, <1>4 DEF Writes, Grid
<1> DEFINE f == place[w][p]
           g == move[w][p]
           h == place'[w][p]
<1>6. /\ SumFunction(f) = SumFunctionOnSet(f, Racks) /\ SumFunctionOnSet(f, Racks) \in Int
      /\ SumFunction(h) = SumFunctionOnSet(h, Racks)
      /\ \A r \in Racks : f[r] \in Int /\ g[r] \in Int
  BY <1>1, <1>2, <1>5, RackSum
<1>7. \A r \in Racks : h[r] = f[r] + g[r] /\ h[r] \in Int
  BY <1>5, <1>6
<1>8. stock[w][p] = SumFunction(f)
  BY DEF w, p
<1>9. SumFunctionOnSet(g, Racks) = change[w][p]
  BY <1>4
<1> HIDE DEF f, g, h
<1>10. SumFunctionOnSet(h, Racks) = SumFunctionOnSet(f, Racks) + SumFunctionOnSet(g, Racks)
  BY <1>2, <1>6, <1>7, SumAdd
<1>11. stock'[w][p] = SumFunction(h)
  BY <1>5, <1>6, <1>8, <1>9, <1>10
<1> QED BY <1>11 DEF h, w, p

\* A reconcile whose two queries see the same copies both alike.
LEMMA ReconcileAgrees ==
  ASSUME IInv, RacksAgree, NEW k \in Keys, ReconcileStock(k), seen[k] = Committed
  PROVE  RacksAgree'
<1>1. /\ place' \in RackGrid /\ place \in RackGrid
      /\ \A j \in Keys : stock'[j[1]][j[2]] = IF j = k THEN OnHand(Committed, k[1], k[2])
                                              ELSE stock[j[1]][j[2]]
      /\ \A j \in Keys, r \in Racks :
               place'[j[1]][j[2]][r] = IF j = k THEN RackCount(Committed, k[1], k[2], r)
                                       ELSE place[j[1]][j[2]][r]
  BY ReconcileStep DEF IInv, TypeOK, LedgerTypeOK
<1>2. \A j \in Keys : j[1] \in Warehouses /\ j[2] \in Products
  BY DEF Keys
<1>3. IsFiniteSet(Racks)
  BY LedgerAssumption
<1>4. ASSUME NEW j \in Keys PROVE stock'[j[1]][j[2]] = SumFunction(place'[j[1]][j[2]])
  <2> DEFINE h == place'[j[1]][j[2]]
  <2>1. SumFunction(h) = SumFunctionOnSet(h, Racks) /\ \A r \in Racks : h[r] \in Int
    BY <1>1, <1>2, RackSum
  <2>2. CASE j = k
    <3> DEFINE f == [r \in Racks |-> RackCount(Committed, k[1], k[2], r)]
    <3>1. OnHand(Committed, k[1], k[2]) = SumFunctionOnSet(f, Racks)
      BY DEF OnHand, SumFunction
    <3>2. \A r \in Racks : h[r] = f[r]
      BY <1>1, <2>2
    <3> HIDE DEF f, h
    <3>3. SumFunctionOnSet(h, Racks) = SumFunctionOnSet(f, Racks)
      BY <1>3, <2>1, <3>2, SumCongruent
    <3>4. stock'[j[1]][j[2]] = OnHand(Committed, k[1], k[2])
      BY <1>1, <2>2
    <3> QED BY <2>1, <3>1, <3>3, <3>4 DEF h
  <2>3. CASE j # k
    <3> DEFINE g == place[j[1]][j[2]]
    <3>1. SumFunction(g) = SumFunctionOnSet(g, Racks)
      BY <1>1, <1>2, RackSum
    <3>2. \A r \in Racks : h[r] = g[r]
      BY <1>1, <2>3
    <3>3. stock'[j[1]][j[2]] = stock[j[1]][j[2]]
      BY <1>1, <2>3
    <3>4. stock[j[1]][j[2]] = SumFunction(g)
      BY DEF RacksAgree
    <3> HIDE DEF g, h
    <3>5. SumFunctionOnSet(h, Racks) = SumFunctionOnSet(g, Racks)
      BY <1>3, <2>1, <3>2, SumCongruent
    <3> QED BY <2>1, <3>1, <3>3, <3>4, <3>5 DEF h
  <2> QED BY <2>2, <2>3
<1> QED BY <1>4 DEF RacksAgree

\* A product's racks stop adding up to its state only when an event that was
\* applied twice is canceled, or when the older service commits between the
\* two queries of a reconcile.
THEOREM RacksPartOnlyWithACause == Spec => RacksPartWithACause
<1>1. ASSUME IInv, [Next]_vars, RacksAgree,
             ~ \E tx \in Cancelable : CancelsBoth(tx),
             ~ \E k \in Keys : Reconciled(k) /\ seen[k] # Committed
      PROVE  RacksAgree'
  <2>1. CASE stock' = stock /\ place' = place
    BY <1>1, <2>1 DEF RacksAgree
  <2>2. ASSUME NEW m \in Messages, ProcessStockEvent(m) PROVE RacksAgree'
    <3>1. ASSUME NEW k \in Keys PROVE stock'[k[1]][k[2]] = SumFunction(place'[k[1]][k[2]])
      <4>1. stock[k[1]][k[2]] = SumFunction(place[k[1]][k[2]])
        BY <1>1 DEF RacksAgree
      <4> QED BY <1>1, <2>2, <4>1, EventKeepsSum
    <3> QED BY <3>1 DEF RacksAgree
  <2>3. ASSUME NEW k \in Keys, ReconcileStock(k), Reconciled(k) PROVE RacksAgree'
    BY <1>1, <2>3, ReconcileAgrees
  <2> QED BY <1>1, <2>1, <2>2, <2>3, StepKinds
<1>2. IInv /\ [Next]_vars =>
        [RacksAgree => \/ RacksAgree'
                       \/ \E tx \in Cancelable : CancelsBoth(tx)
                       \/ \E k \in Keys : Reconciled(k) /\ seen[k] # Committed]_vars
  BY <1>1
<1> QED BY InitIInv, NextIInv, <1>2, PTL DEF Spec, RacksPartWithACause
=============================================================================
