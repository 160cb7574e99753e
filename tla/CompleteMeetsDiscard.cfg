SPECIFICATION Spec
CONSTANTS
    Products = {1, 2}
    Racks = {1, 2, 3}
    Bigger = {2}
    Calls = {1, 2, 3}
    Scenarios <- SomeScenarios
    InitCount <- SomeCount
    InitRows <- SomeRows
PROPERTIES SessionSettledOnce
CHECK_DEADLOCK FALSE
