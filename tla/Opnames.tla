------------------------------- MODULE Opnames -------------------------------
(***************************************************************************)
(* Stock-take sessions: OpnameCreate seeds the lines, OpnameLineCount      *)
(* records what is counted on a rack, OpnameComplete makes the counts the  *)
(* truth, OpnameCancel discards them.                                      *)
(***************************************************************************)
EXTENDS StockLedger

CONSTANT OpnameIds     \* ids inventory_opnames may hand out, in order

ASSUME OpnamesAssumption == OpnameIds \subseteq Nat

VARIABLE opnames       \* inventory_opnames with their lines

NoOpname == [status |-> "none"]

\* A line that nobody has counted yet, or that does not exist, counts nothing.
Uncounted == -1
CountOf   == Nat \cup {Uncounted}

Opname == [warehouse : Warehouses, status : {"pending", "completed", "canceled"},
           expected : [Products -> [Racks -> Nat]],
           counted : [Products -> [Racks -> CountOf]], tx : SUBSET TxIds]

IsNextOpname(o) == /\ opnames[o] = NoOpname
                   /\ \A q \in OpnameIds : q < o => opnames[q] # NoOpname

Pending(o) == opnames[o].status = "pending"

-----------------------------------------------------------------------------
\* The snapshot takes every rack of the warehouse that holds something.
OpnameCreate(o, w) ==
    /\ IsNextOpname(o)
    /\ opnames' = [opnames EXCEPT ![o] =
           [warehouse |-> w, status |-> "pending",
            expected |-> [p \in Products |-> [r \in Racks |->
                IF place[w][p][r] > 0 THEN place[w][p][r] ELSE 0]],
            counted |-> [p \in Products |-> [r \in Racks |-> Uncounted]],
            tx |-> {}]]
    /\ UNCHANGED ledgerVars

\* One rack, some of its products; a recount overwrites.  The rack is not
\* looked up, so it may be deleted or stand in another warehouse.
OpnameLineCount(o, r, count) ==
    /\ Pending(o)
    /\ opnames' = [opnames EXCEPT ![o].counted = [p \in Products |->
           IF count[p] = Uncounted THEN @[p] ELSE [@[p] EXCEPT ![r] = count[p]]]]
    /\ UNCHANGED ledgerVars

OpnameCancel(o) ==
    /\ Pending(o)
    /\ opnames' = [opnames EXCEPT ![o].status = "canceled"]
    /\ UNCHANGED ledgerVars

-----------------------------------------------------------------------------
(* OpnameComplete: the difference between a counted line and the live,      *)
(* locked placement; the warehouse count moves by the product's total.      *)

\* Mutant of Deltas: a line nobody counted counts as an empty rack.
UncountedIsEmpty(o) ==
    LET w == opnames[o].warehouse
    IN  [p \in Products |-> [r \in Racks |->
            (IF opnames[o].counted[p][r] = Uncounted THEN 0
             ELSE opnames[o].counted[p][r]) - place[w][p][r]]]

Deltas(o) ==
    LET w == opnames[o].warehouse
    IN  [p \in Products |-> [r \in Racks |->
            IF opnames[o].counted[p][r] = Uncounted THEN 0
            ELSE opnames[o].counted[p][r] - place[w][p][r]]]

Variance(o) == [p \in Products |-> SumFunction(Deltas(o)[p])]

CompleteInto(o, tx) ==
    opnames' = [opnames EXCEPT ![o].status = "completed", ![o].tx = tx]

\* applyOpnameAdjustment
OpnameAdjust(o) ==
    \E tx \in TxIds :
        /\ Pending(o)
        /\ Deltas(o) # NoRacks
        /\ IsNextId(tx)
        /\ InsertTransaction(tx, opnames[o].warehouse, "opname", Variance(o))
        /\ ProcessStockBatchLog(tx, At(opnames[o].warehouse, Variance(o)))
        /\ ApplyPlacements(tx, AtRacks(opnames[o].warehouse, Deltas(o)))
        /\ CompleteInto(o, {tx})
        /\ UNCHANGED batches

\* Every count was right: the session closes without a transaction.
OpnameConfirm(o) ==
    /\ Pending(o)
    /\ Deltas(o) = NoRacks
    /\ CompleteInto(o, {})
    /\ UNCHANGED ledgerVars

OpnameComplete(o) == OpnameAdjust(o) \/ OpnameConfirm(o)

-----------------------------------------------------------------------------
OpnamesInit == opnames = [o \in OpnameIds |-> NoOpname]

OpnamesNext ==
    \E o \in OpnameIds :
        \/ \E w \in Warehouses : OpnameCreate(o, w)
        \/ \E r \in Racks, count \in [Products -> {Uncounted} \cup 0 .. MaxCount] :
              /\ \E p \in Products : count[p] # Uncounted
              /\ OpnameLineCount(o, r, count)
        \/ OpnameComplete(o)
        \/ OpnameCancel(o)

OpnamesTypeOK == opnames \in [OpnameIds -> Opname \cup {NoOpname}]
=============================================================================
