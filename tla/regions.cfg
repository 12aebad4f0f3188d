CONSTANTS
    j1 = j1
    j2 = j2
    Jobs = {j1, j2}
    Uris = {1, 2}
    BatchSize = 2
    MaxSequence = 3
    Handlers = {1, 2}
    Streams = {1, 2}
    QueueLimit = 1
    ReplicatorBatch = 2
    ResumeFrom = 0
    MaxChannelFaults = 2
    Documents <- TopologyDocuments
    MaxEdits = 3
    WatchCallers = {1, 2}
    MaxLoops = 2
    Managers = {1, 2}
    Keys = {1, 2}
    Targets = {"west", "east"}
    MaxRetries = 1
    MaxCalls = 2
    MaxPromotionFaults = 1
SPECIFICATION Spec
INVARIANTS LogIsWhole CompletionIsEarned
PROPERTIES AdmittedOnce EpochsOnlyGrow StoppedIsQuiet ReplicationGoesOn
CHECK_DEADLOCK FALSE
