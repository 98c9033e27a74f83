SPECIFICATION MCFairSpec
CONSTANTS
    Task = {t1, t2}
    Second = t2
    FirstClient = c1
    FirstSlot = s1
    Client = {c1, c2}
    Slot = {s1, s2}
    NoTask = NoTask
    NoSlot = NoSlot
    NoClient = NoClient
    MaxRequests = 2
    MaxRestarts = 1
INVARIANTS
    AtMostOneRunner
    ExitLeavesNoRunner
PROPERTIES
    DeletionIsForever
    ImplementsLifecycle
    QueuedIsPickedUp
    ShutdownCompletes
CHECK_DEADLOCK FALSE
