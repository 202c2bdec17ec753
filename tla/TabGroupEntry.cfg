CONSTANTS
    TabIndices = {0, 1}
    MaxInsertions = 5
SPECIFICATION TabSpec
INVARIANTS
    ContainerEntersGroup
CHECK_DEADLOCK FALSE
