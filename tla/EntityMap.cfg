CONSTANTS
    Ids = {e1, e2}
    Handles = {h1, h2, h3}
    Threads = {t1, t2, t3}
    NoId = NoId
SPECIFICATION FairSpec
INVARIANTS
    CountIsHandles
    DroppedAreDead
    NoZombie
PROPERTIES
    NoResurrection
    UnreferencedIsReleased
CHECK_DEADLOCK FALSE
