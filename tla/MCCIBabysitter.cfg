SPECIFICATION MCSpec
CONSTANTS
    Client = {c1}
    RetryCap = 2
    NoTask = NoTask
    NoStatus = NoStatus
    NoMemory = NoMemory
    NoDrive = NoDrive
    NoPipelineId = NoPipelineId
    MaxRuns = 2
    MaxEpisodes = 1
    MaxTasks = 2
    MaxQueue = 1
    MaxAsks = 1
    MaxRestarts = 1
INVARIANTS
    OneBabysitter
    OncePerTrouble
    RetriesAreCapped
    PauseIsDurable
    GuardFollowsWorker
    ConflictSurfaces
