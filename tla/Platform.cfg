CONSTANTS
    Senders = {s1, s2}
    Receivers = {r0, r1, r2}
    Root = r0
    Items = {i1, i2, i3}
    Msgs = {i1, i2, i3}
    Threads = {s1, s2}
    Jobs = {i1, i2, i3}
    Posters = {s1, s2}
    Runnables = {i1, i2, i3}
    Dispatchers = {s1, s2}
    Contents = {c1, c2}
    NoContents = NoContents
    Clients = {p1}
    Manager = manager
    MaxEvents = 3
    DragWindows = {w1, w2}
    Nothing = Nothing
    Outside = Outside
    Backends = {"wayland", "x11", "windows"}
SPECIFICATION AllSpec
INVARIANTS
    ItemIsAnnounced
    NeverSleepsOnWork
    WakeIsComing
    NoGhostDrag
    DragStaysOurs
    PresentedTilesExist
PROPERTIES
    DispatchedIsRun
    ChannelImplementsDelivery
    MailboxImplementsDelivery
    RunnableIsRun
    RequestIsAnswered
    DropEnds
    FramesCome
CHECK_DEADLOCK FALSE
