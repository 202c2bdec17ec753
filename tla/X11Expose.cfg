CONSTANT Backends = {"x11"}
SPECIFICATION FrameSpec
INVARIANT ExposedTilesExist
CHECK_DEADLOCK FALSE
