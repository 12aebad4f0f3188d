SPECIFICATION Spec
CONSTANTS
    c1 = c1
    c2 = c2
    c3 = c3
    w1 = w1
    w2 = w2
    Coordinators = {c1, c2, c3}
    Workers = {w1, w2}
    NumSplits = 1
    RequestedEpoch <- RetryEpochs
    WorkerFor <- WorkerPerEpoch
    TaskSlots = 2
    RowCount <- ThreeRows
    BatchSizes = {2}
    Renderings = {0}
    ExactlyOnce = TRUE
    MaxCrashes = 1
CHECK_DEADLOCK FALSE
SYMMETRY RetrySymmetry
INVARIANTS
    NoRowLost
    NoRowRepeated
PROPERTIES
    DurableProgress
    ImplementsDelivery
