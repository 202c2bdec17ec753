SPECIFICATION Spec
CONSTANTS
    e1 = e1
    e2 = e2
    w1 = w1
    w2 = w2
    g1 = g1
    None = None
    Entities = {e1}
    Windows = {w1, w2}
    Globals = {g1}
    Plain <- Refreshing
    MaxEffects = 2
    MaxCalls = 3
INVARIANTS
    AppInv
CHECK_DEADLOCK FALSE
