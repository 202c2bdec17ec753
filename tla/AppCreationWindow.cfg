SPECIFICATION Spec
CONSTANTS
    e1 = e1
    e2 = e2
    w1 = w1
    w2 = w2
    g1 = g1
    None = None
    Entities = {e1}
    Windows = {w1}
    Globals = {}
    Plain <- NoPlain
    MaxEffects = 2
    MaxCalls = 3
INVARIANTS
    CreationWindowIsThere
CHECK_DEADLOCK FALSE
