SPECIFICATION MCFairSpec
CONSTANTS
    Worker = {w1}
    Stream = {s1}
    Branch = {base, feature, other}
    Base = base
    Feature = feature
    Other = other
    NoBranch = NoBranch
    NoStatus = NoStatus
    NotReady = NotReady
    Deferred = Deferred
    Latest = Latest
    MaxChanges = 2
    MaxLinks = 3
    MaxFailures = 1
INVARIANTS
    PendingIsBacked
    NeverAbandoned
    OnlyForcedPollsAddUp
PROPERTIES
    
    DeletedIsLeftAlone
CHECK_DEADLOCK FALSE
