SPECIFICATION FairSpec
CONSTANTS
    Warehouses = {1, 2}
    Products = {p1}
    Racks = {1, 2}
    RackHome <- OneRackEach
    TxIds = {0, 1, 2, 3, 4, 5, 6}
    LegacyIds = {1, 2, 3, 4, 5, 6}
    Scenarios <- OneRestock
    Legacy <- SomeLegacy
    OldLot = old
    OldRacks <- OldUnits
    InitStock <- OldStock
    InitPlace <- OldUnits
    Histories <- RackRows
    MaxCount = 1
    MaxPushes = 1

PROPERTIES EveryEventApplied
