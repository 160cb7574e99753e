---------------------------- MODULE MCStockEvents ----------------------------
(* Values for the constants of StockEvents: one product, two warehouses with *)
(* a rack each, two old units in warehouse 1.  Transaction 1 is a restock of *)
(* two with one of them a problem, 2 an order, 3 and 4 the legs of a         *)
(* transfer from warehouse 1 to 2, 5 an order whose only item is a problem.  *)
EXTENDS StockEvents

OneRackEach == [r \in Racks |-> r]
OldUnits == [w \in Warehouses |-> [p \in Products |-> [r \in Racks |->
                IF w = 1 /\ r = 1 THEN 2 ELSE 0]]]
OldStock == [w \in Warehouses |-> [p \in Products |-> IF w = 1 THEN 2 ELSE 0]]

\* A restock and an order; a transfer while both of its warehouses are
\* reconciled; a problem, and an order of nothing.
SomeScenarios ==
    {[ids |-> {1, 2}, keys |-> {1} \X Products],
     [ids |-> {3, 4}, keys |-> Keys],
     [ids |-> {5, 6}, keys |-> {1} \X Products]}

OneRestock == {[ids |-> {1}, keys |-> {1} \X Products]}

Of(n) == [p \in Products |-> n]

LegacyRow(kind, w, n, problems, lot, partner) ==
    [kind |-> kind, warehouse |-> w, items |-> Of(n), problems |-> Of(problems),
     lot |-> lot, partner |-> partner]

AllLegacy ==
    <<LegacyRow("restock", 1, 2, 1, 1, 1),
      LegacyRow("order", 1, 1, 0, OldLot, 2),
      LegacyRow("transfer_out", 1, 1, 0, OldLot, 4),
      LegacyRow("transfer_in", 2, 1, 0, 4, 3),
      LegacyRow("order", 1, 1, 1, OldLot, 5),
      LegacyRow("problem", 1, 1, 0, OldLot, 6)>>

SomeLegacy == [tx \in LegacyIds |-> AllLegacy[tx]]

\* Each warehouse has its goods on the rack of the same number.
RackRows == [tx \in TxIds |-> [w \in Warehouses |-> [p \in Products |->
    [r \in Racks |->
        IF tx \in LegacyIds /\ w = AllLegacy[tx].warehouse /\ r = w
        THEN AllLegacy[tx].items[p] - AllLegacy[tx].problems[p] ELSE 0]]]]
=============================================================================
