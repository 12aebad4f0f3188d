SPECIFICATION FairSpec
CONSTANTS
    c1 = c1
    c2 = c2
    c3 = c3
    w1 = w1
    w2 = w2
    Coordinators = {c1, c2}
    Workers = {w1, w2}
    NumSplits = 2
    RequestedEpoch <- MixedEpochs
    WorkerFor <- OverlappingWorkers
    TaskSlots = 1
    RowCount <- RowsBySplit
    BatchSizes = {2}
    Renderings = {0}
    ExactlyOnce = FALSE
    MaxCrashes = 1
CHECK_DEADLOCK FALSE
INVARIANTS
    IInv
    ReturnIsComplete
PROPERTIES
    EveryRunEnds
    TaskIsReleased
