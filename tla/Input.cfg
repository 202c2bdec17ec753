CONSTANTS
    Predicates <- MC_Predicates
    Height <- MC_Height
    ShouldMatch <- MC_ShouldMatch
    Bindings <- MC_Bindings
    Stacks <- MC_Stacks
    Inputs <- MC_Inputs
    MaxBindings = 3
    Keymaps <- MC_Keymaps
    Elements = {"editor", "panel"}
    NoFocus = "none"
    ContextStack <- MC_ContextStack
    Handles <- MC_Handles
    HasChar = {"a", "c"}
    AcceptsText = {"editor"}
    PrefersText = {"a"}
    KeyDowns = {"a", "b", "c"}
    Modifiers = {"shift", "control"}
    MaxTyped = 4
    FocusIds = {"f1", "f2", "f3"}
    NoFocusId = "nowhere"
    Above <- MC_Above
    Tips = 2
    Hoverable = {1}
    TabIndices = {0, 1}
    MaxInsertions = 5
SPECIFICATION AllSpec
INVARIANTS
    QueriesAgree
    FocusIsKnown
    TabOrder
PROPERTIES
    KeysAreAccounted
    TextIsNotHeldBack
    TipFollowsPointer
CHECK_DEADLOCK FALSE
