SPECIFICATION FairSpec
CHECK_DEADLOCK FALSE
CONSTANTS
    apply = apply
    cancel = cancel
    other = other
    source = source
    Messages = {apply, cancel, other}
    Requests = {q1, q2}
    Sources = {source}
    Subject <- OneSource
    Kind <- Kinded
INVARIANTS AtMostOnce AckedIsApplied SourceNets
PROPERTIES ImplementsEffects EveryMessageAcked
