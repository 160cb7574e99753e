------------------------------ MODULE Inventory ------------------------------
(***************************************************************************)
(* The inventory service: every RPC that changes stock, over one ledger.   *)
(* Each component's step leaves the private tables of the others alone.    *)
(***************************************************************************)
EXTENDS Transactions, Transfers, Restocks, Opnames

vars == <<ledgerVars, picking, rackState, transfers, restocks, opnames>>

Init ==
    /\ LedgerInit
    /\ TransactionsInit
    /\ PlacementsInit
    /\ TransfersInit
    /\ RestocksInit
    /\ OpnamesInit

TransactionStep == TransactionsNext
                   /\ UNCHANGED <<rackState, transfers, restocks, opnames>>
PlacementStep   == PlacementsNext /\ UNCHANGED <<picking, transfers, restocks, opnames>>
TransferStep    == TransfersNext /\ UNCHANGED <<picking, restocks, opnames>>
RestockStep     == RestocksNext /\ UNCHANGED <<picking, transfers, opnames>>
OpnameStep      == OpnamesNext
                   /\ UNCHANGED <<picking, rackState, transfers, restocks>>

Next ==
    \/ TransactionStep
    \/ PlacementStep
    \/ TransferStep
    \/ RestockStep
    \/ OpnameStep

Spec == Init /\ [][Next]_vars

-----------------------------------------------------------------------------
(* Who owns a transaction.                                                  *)

Issued(t) == transfers[t] # NoTransfer

TransferLegs == UNION {{transfers[t].out} \cup transfers[t].in :
                          t \in {u \in TransferIds : Issued(u)}}
RestockTxs   == UNION {restocks[d].tx :
                          d \in {e \in RestockIds : restocks[e] # NoRestock}}
OpnameTxs    == UNION {opnames[o].tx :
                          o \in {q \in OpnameIds : opnames[q] # NoOpname}}
DocumentTxs  == TransferLegs \cup RestockTxs \cup OpnameTxs

\* What the comment on TransactionCancel says of its callers: only what
\* TransactionCreate made is canceled by transaction id.
OwnCancelsOnly ==
    \A tx \in DocumentTxs :
        trx'[tx] # trx[tx] => transfers' # transfers

-----------------------------------------------------------------------------
(* Invariants; those of the ledger alone are in StockLedger                 *)

RackSum(move, w, p) == SumFunction(move[w][p])

\* Tables hold what their columns allow.
TypeOK ==
    /\ LedgerTypeOK
    /\ TransactionsTypeOK
    /\ PlacementsTypeOK
    /\ TransfersTypeOK
    /\ RestocksTypeOK
    /\ OpnamesTypeOK

\* Goods appear on racks and leave them only under a transaction: rack moves
\* keep a product's total, so what stands on the racks of a warehouse is
\* explained by stock_placement_logs.
RacksExplained ==
    \A w \in Warehouses, p \in Products :
        RackSum(place, w, p) = RackSum(InitPlace, w, p)
            + SumFunction([tx \in TxIds |-> RackSum(placeNet[tx], w, p)])

\* An inbound transaction has its batches exactly while it is active: accept
\* and create mint them, a cancel voids them, nothing else has any.
BatchesFollowStatus ==
    \A tx \in TxIds :
        batches[tx] =
            IF trx[tx].status = "active" /\ trx[tx].type \in InboundKinds \cup {"transfer_in"}
            THEN trx[tx].items ELSE NoItems

\* A canceled transaction has put back on the racks all it took and taken
\* back all it put there.
CanceledLeavesNoPlacement ==
    \A tx \in TxIds : trx[tx].status = "canceled" => placeNet[tx] = NoMove

\* What an accepted document brought in stands on racks of its warehouse,
\* unit for unit, until the transaction is canceled.
AcceptedPlaced ==
    \A tx \in TxIds :
        /\ tx \in TransferLegs \cup RestockTxs
        /\ trx[tx].status = "active"
        /\ trx[tx].type # "transfer_out"
        => \A p \in Products :
               RackSum(placeNet[tx], trx[tx].warehouse, p) = trx[tx].items[p]

\* No transaction serves two documents, and each leg says what its document
\* says: warehouse, kind and, for a transfer, the items.
DocumentLinks ==
    /\ \A t \in TransferIds : Issued(t) =>
          LET doc == transfers[t] IN
          /\ trx[doc.out].type = "transfer_out" /\ trx[doc.out].warehouse = doc.from
          /\ trx[doc.out].items = doc.items
          /\ doc.in # {} <=> doc.status = "accepted"
          /\ \A i \in doc.in : /\ trx[i].type = "transfer_in"
                               /\ trx[i].warehouse = doc.to
                               /\ trx[i].items = doc.items
    /\ \A d \in RestockIds : restocks[d] # NoRestock =>
          /\ restocks[d].tx # {} <=> restocks[d].status = "accepted"
          /\ \A i \in restocks[d].tx : /\ trx[i].type = "restock"
                                       /\ trx[i].warehouse = restocks[d].warehouse
    /\ \A t, u \in TransferIds : Issued(t) /\ Issued(u) /\ t # u =>
          (transfers[t].in \cup {transfers[t].out})
              \cap (transfers[u].in \cup {transfers[u].out}) = {}
    /\ \A d, e \in RestockIds :
          restocks[d] # NoRestock /\ restocks[e] # NoRestock /\ d # e =>
              restocks[d].tx \cap restocks[e].tx = {}

-----------------------------------------------------------------------------
(* Conservation over the transfers                                          *)

\* The units a pending transfer has on the road.
OnTheRoad(p) ==
    SumFunction([t \in TransferIds |->
        IF transfers[t].status = "pending" THEN transfers[t].items[p] ELSE 0])

\* What the transactions that are not transfer legs have brought in or out.
Traded(p) ==
    SumFunction([tx \in TxIds \ TransferLegs |->
        SumFunction([w \in Warehouses |-> Effect(tx)[w][p]])])

\* The legs are live exactly while the document says so: out from creation
\* until the cancel, in from the accept on; the same of an accepted restock.
LegsAsDocuments ==
    /\ \A t \in TransferIds : Issued(t) =>
          /\ trx[transfers[t].out].status = "canceled"
                <=> transfers[t].status = "canceled"
          /\ \A i \in transfers[t].in : trx[i].status = "active"
    /\ \A d \in RestockIds : restocks[d] # NoRestock =>
          \A i \in restocks[d].tx : trx[i].status = "active"

\* Transfers neither create nor destroy goods: over all warehouses, what is
\* on hand and on the road is what there was at first plus what was traded,
\* as long as no leg has been canceled behind the back of its document.
TransfersConserve ==
    LegsAsDocuments => \A p \in Products :
        SumFunction([w \in Warehouses |-> stock[w][p]]) + OnTheRoad(p)
            = SumFunction([w \in Warehouses |-> InitStock[w][p]]) + Traded(p)

-----------------------------------------------------------------------------
(* The ledger implements the book                                           *)

Booked(tx) ==
    CASE trx[tx].status = "none"     -> [state |-> "unused"]
      [] trx[tx].status = "canceled" -> [state |-> "voided"]
      [] trx[tx].status = "active"   ->
            [state |-> "posted", at |-> trx[tx].warehouse,
             amount |-> Signed(Direction(trx[tx].type), trx[tx].items)]

Book == INSTANCE StockBook
        WITH Places <- Warehouses, Goods <- Products, Ids <- TxIds,
             Initial <- InitStock, onHand <- stock,
             book <- [tx \in TxIds |-> Booked(tx)]

\* Every call of every component posts one transaction once, or voids one
\* once, or leaves the stock alone.
ImplementsBook == Book!Spec

-----------------------------------------------------------------------------
(* What a step may never do                                                 *)

\* Once a transaction is canceled nothing touches it again: not its rows, its
\* racks or its batches, whatever document still refers to it.
CanceledIsFinal ==
    [][\A tx \in TxIds : trx[tx].status = "canceled" =>
          /\ trx'[tx] = trx[tx]
          /\ batchNet'[tx] = batchNet[tx]
          /\ placeNet'[tx] = placeNet[tx]
          /\ batches'[tx] = batches[tx]]_vars

\* Documents and their legs part only when somebody cancels a document's
\* transaction by id: every other call keeps them in step.
LegsFollowStatus ==
    [][LegsAsDocuments /\ OwnCancelsOnly => LegsAsDocuments']_vars

\* The step that completes a session leaves every counted rack holding what
\* was counted, the racks nobody counted as they were, and corrects the
\* warehouse's stock by the same amount.
CountedIsTruth ==
    [][\A o \in OpnameIds :
          opnames[o].status = "pending" /\ opnames'[o].status = "completed" =>
          LET w == opnames[o].warehouse IN
          \A p \in Products :
             /\ \A r \in Racks : place'[w][p][r] =
                   IF opnames[o].counted[p][r] = Uncounted
                   THEN place[w][p][r] ELSE opnames[o].counted[p][r]
             /\ stock'[w][p] - stock[w][p]
                   = RackSum(place', w, p) - RackSum(place, w, p)]_vars

\* Orders, moves and stock-takes never take from a rack what it does not
\* hold: only the cancel of what brought goods in may leave a rack short.
OnlyCancelsOverdraw ==
    [][\A w \in Warehouses, p \in Products, r \in Racks :
          place'[w][p][r] < place[w][p][r] /\ place'[w][p][r] < 0 =>
              \E tx \in TxIds : /\ trx[tx].status = "active"
                                /\ trx'[tx].status = "canceled"
                                /\ placeNet[tx][w][p][r] > 0]_vars

\* An order that finds too little on the racks leaves none of that product on
\* any rack of its warehouse: the remainder is drift, never a missed rack.
ShortPickEmptiesRacks ==
    [][\A tx \in TxIds, w \in Warehouses, p \in Products :
          /\ trx[tx] = NoTx /\ trx'[tx] # NoTx
          /\ trx'[tx].type = "order" /\ trx'[tx].warehouse = w
          /\ RackSum(placeNet'[tx], w, p) + trx'[tx].items[p] > 0
          => \A r \in Racks : place'[w][p][r] <= 0]_vars
=============================================================================
