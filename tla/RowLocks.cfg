SPECIFICATION FairSpec
CONSTANTS
    Products = {1, 2}
    Racks = {1, 2, 3}
    Bigger = {2}
    Calls = {1, 2, 3}
    Scenarios <- SomeScenarios
    InitCount <- SomeCount
    InitRows <- SomeRows
INVARIANTS BalancesKept DeadlockShape
PROPERTIES DriftOnlyByLateGoods DrainsByPolicy CountedRowsHoldTruth DeadRackGainsLate EveryCallEnds
CHECK_DEADLOCK FALSE
