SPECIFICATION FairChannelSpec
CONSTANTS
    Msgs = {i1}
    Threads = {t1}
PROPERTIES
    DropCloses
CHECK_DEADLOCK FALSE
