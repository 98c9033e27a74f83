SPECIFICATION Spec
CONSTANTS
    Task = {t1}
    Second = t2
    FirstClient = c1
    FirstSlot = s1
    Client = {c1}
    Slot = {s1, s2}
    NoTask = NoTask
    NoSlot = NoSlot
    NoClient = NoClient
    MaxRequests = 1
    MaxRestarts = 0
INVARIANT DeletionHasARunner
CHECK_DEADLOCK FALSE
