SPECIFICATION ViewSpec
CONSTANTS
    root = root
    p1 = p1
    p2 = p2
    i1 = i1
    i2 = i2
    Root = root
    Panels <- MCPanels
    Items = {i1, i2}
    Home <- MCHome
    Reads <- ReadsPanel
INVARIANTS
    NotifyRedraws
