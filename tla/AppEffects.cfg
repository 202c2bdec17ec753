SPECIFICATION FairSpec
CONSTANTS
    e1 = e1
    e2 = e2
    w1 = w1
    w2 = w2
    g1 = g1
    None = None
    Entities = {e1, e2}
    Windows = {}
    Globals = {}
    Plain <- Emitting
    MaxEffects = 2
    MaxCalls = 3
INVARIANTS
    NotifyReachesActive
PROPERTIES
    FlushedAtReturn
    NotifyIsApplied
CHECK_DEADLOCK FALSE
