SPECIFICATION Spec
CONSTANTS
    c1 = c1
    c2 = c2
    c3 = c3
    w1 = w1
    w2 = w2
    Coordinators = {c1, c2}
    Workers = {w1, w2}
    NumSplits = 1
    RequestedEpoch <- TwoEpochs
    WorkerFor <- WorkerPerEpoch
    TaskSlots = 2
    RowCount <- TwoRows
    BatchSizes = {1, 2}
    Renderings = {0}
    ExactlyOnce = TRUE
    MaxCrashes = 0
CHECK_DEADLOCK FALSE
INVARIANT NoRowRepeated
