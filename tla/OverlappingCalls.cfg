SPECIFICATION Spec
CONSTANTS
    accept = accept
    cancel = cancel
    return1 = return1
    return2 = return2
    return3 = return3
    order1 = order1
    order2 = order2
    Calls = {accept, cancel, return1, return2, return3, order1, order2}
    Op <- Asked
    OnHand = 0
SYMMETRY Alike
INVARIANTS NoLostUpdate
PROPERTIES SettledTwiceOnlyByOverlap OversoldOnlyByDoubleReturns
