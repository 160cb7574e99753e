SPECIFICATION Spec
CONSTANTS
    Warehouses = {1, 2}
    TxIds = {1, 2, 3}
    TransferIds = {t1}
    OpnameIds = {o1}
    Pieces = {1, 2}
    Prices = {12}
    Fees = {6}
    Variances <- OneOff
    InitCount <- TwoUnits
    InitAmount <- TheirWorth
INVARIANTS ValueIsActiveTransactions TransfersConserveValue
PROPERTIES UnitCostMovesWithACause
