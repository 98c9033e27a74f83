SPECIFICATION FairSpec
CONSTANTS
    Writer = {w1, w2}
    TaskSub = {a1}
    Follower = {f1}
    NoMessage = NoMessage
    MaxCommits = 2
    MaxRestarts = 1
INVARIANTS
    NothingIsMissed
    FollowersSeeOnce
PROPERTIES
    EveryMessageArrives
    ImplementsFeed
CHECK_DEADLOCK FALSE
