SPECIFICATION Spec
CONSTANTS
    Warehouses = {1, 2}
    Products = {p1}
    Racks = {1, 2}
    RackHome <- OneRackEach
    TxIds = {1, 2}
    TransferIds = {}
    RestockIds = {1}
    OpnameIds = {}
    Lines = {1, 2}
    InitRacks = {1, 2}
    InitStock <- SomeStock
    InitPlace <- SomePlace
    Histories <- NoHistories
    MaxCount = 1
INVARIANTS AcceptedPlaced
