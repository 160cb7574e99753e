SPECIFICATION Spec
CONSTANTS
    Warehouses = {1}
    Products = {p1}
    Racks = {1, 2, 3}
    RackHome <- AllInOne
    TxIds = {1, 2}
    TransferIds = {}
    RestockIds = {1}
    OpnameIds = {1}
    Lines = {1}
    InitRacks = {1}
    InitStock <- MoreStock
    InitPlace <- MorePlace
    Histories <- NoHistories
    MaxCount = 2
CONSTRAINT OneDocument
INVARIANTS StockIsActiveTransactions RacksExplained CanceledLeavesNoPlacement
           AcceptedPlaced BatchesFollowStatus
PROPERTIES ShortPickEmptiesRacks CountedIsTruth OnlyCancelsOverdraw
