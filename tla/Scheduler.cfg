CONSTANTS
    a = a
    b = b
    c = c
    s1 = s1
    None = None
    External = External
    Tasks = {a, b, c}
    Sessions = {s1}
    SessionOf <- TaskSessions
    Modes <- SchedulerModes
    Durations = {1, 2}
    MaxTimers = 2
    MaxClock = 2
    MaxDepth = 4
    Senders = {t1, t2}
    Receivers = {r0, r1, r2}
    Root = r0
    Items = {i1, i2, i3}
SPECIFICATION AllSpec
INVARIANTS
    NoLostWakeup
    PopFindsItem
    SessionIsSerial
    TimersOnTime
    PanicsOnlyWhenStuck
CHECK_DEADLOCK FALSE
SYMMETRY SameSession
