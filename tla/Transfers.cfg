SPECIFICATION Spec
CONSTANTS
    Warehouses = {1, 2}
    Products = {p1}
    Racks = {1, 2}
    RackHome <- OneRackEach
    TxIds = {1, 2, 3}
    TransferIds = {1}
    RestockIds = {}
    OpnameIds = {}
    Lines = {1}
    InitRacks = {1, 2}
    InitStock <- SomeStock
    InitPlace <- SomePlace
    Histories <- OldHistories
    MaxCount = 1
INVARIANTS TypeOK LedgerBalanced DocumentLinks TransfersConserve
PROPERTIES CanceledIsFinal LegsFollowStatus ImplementsBook
