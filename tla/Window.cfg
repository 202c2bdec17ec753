CONSTANTS
    observed = observed
    released = released
    Keys <- MCKeys
    Quiet <- MCQuiet
    MaxIds = 3
    MaxDepth = 2
    root_view = root_view
    p1 = p1
    p2 = p2
    i1 = i1
    i2 = i2
    Root = root_view
    Panels <- MCPanels
    Items = {i1, i2}
    Home <- MCHome
    Reads <- ReadsOwn
    MaxChildren = 2
    Rects <- MCRects
    Prims <- MCPrims
    MaxOps = 4
    Heights = {1, 4}
    View = 2
    Overdraw = 2
    MaxItems = 2
    MaxScroll = 3
SPECIFICATION AllSpec
INVARIANTS
    SubscribersInPlace
    ViewsAreCurrent
    NextDrawHonours
    PaintOrderIsKept
    LayoutSettles
PROPERTIES
    RetainCallsLive
    TopIsKept
CHECK_DEADLOCK FALSE
