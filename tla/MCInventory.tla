----------------------------- MODULE MCInventory -----------------------------
(* Values for the constants of Inventory: two warehouses, two racks, and two *)
(* units of each product on hand in warehouse 1, one of them on rack 1.      *)
EXTENDS Inventory

OneRackEach == [r \in Racks |-> r]
AllInOne    == [r \in Racks |-> 1]

SomeStock == [w \in Warehouses |-> [p \in Products |-> IF w = 1 THEN 2 ELSE 0]]
SomePlace == [w \in Warehouses |-> [p \in Products |-> [r \in Racks |->
                IF w = 1 /\ r = 1 THEN 1 ELSE 0]]]
\* Three units, two of them on rack 1.
MoreStock == [w \in Warehouses |-> [p \in Products |-> IF w = 1 THEN 3 ELSE 0]]
MorePlace == [w \in Warehouses |-> [p \in Products |-> [r \in Racks |->
                IF w = 1 /\ r = 1 THEN 2 ELSE 0]]]

NoHistories == [tx \in TxIds |-> NoMove]
\* A legacy transaction with id 1 once moved one unit through rack 1.
OldHistories == [tx \in TxIds |-> [w \in Warehouses |-> [p \in Products |->
                  [r \in Racks |-> IF tx = 1 /\ w = 1 /\ r = 1 THEN 1 ELSE 0]]]]

-----------------------------------------------------------------------------
(* The bound of the run in one warehouse.  A behaviour has a restock or a     *)
(* stock-take, or neither, and rack 3 is never deleted.  With a document,     *)
(* orders pick small racks first and nothing happens on rack 3.  With a       *)
(* stock-take no rack is deleted, rack 1 is counted zero or one, rack 2 one,  *)
(* and a session is canceled before anything is counted.                      *)
Restocking == \E d \in RestockIds : restocks[d] # NoRestock
Counting   == \E o \in OpnameIds : opnames[o] # NoOpname

OneDocument ==
    /\ ~(Restocking /\ Counting)
    /\ rackState[3] # "deleted"
    /\ Restocking \/ Counting =>
          /\ \A w \in Warehouses, p \in Products : picking[w][p] = "smaller"
          /\ rackState[3] = "absent"
    /\ Counting =>
          /\ \A r \in Racks : rackState[r] # "deleted"
          /\ \A o \in OpnameIds, p \in Products :
                LET counted == opnames[o].counted[p]
                IN  /\ counted[1] \in {Uncounted, 0, 1}
                    /\ counted[2] \in {Uncounted, 1}
                    /\ counted[3] = Uncounted
                    /\ opnames[o].status = "canceled" =>
                          \A r \in Racks : counted[r] = Uncounted
=============================================================================
