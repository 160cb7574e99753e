----------------------------- MODULE MCStockValue -----------------------------
(* Values for the constants of StockValue: two units worth 12 each in        *)
(* warehouse 1, callers who name 12 a piece, restocks that cost 6 to ship.   *)
EXTENDS StockValue

OneOff     == {-1, 1}
TwoUnits   == [w \in Warehouses |-> IF w = 1 THEN 2 ELSE 0]
TheirWorth == [w \in Warehouses |-> IF w = 1 THEN 24 ELSE 0]
=============================================================================
