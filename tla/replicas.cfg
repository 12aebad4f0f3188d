SPECIFICATION ReplicaSpec
CONSTANTS
    Jobs = {j1}
    Schedulers = {s1, s2}
    MaxEpoch = 2
    MaxActive = 1
    Faults = "always"
    Deadlines = TRUE
    Executions <- MCExecutions
SYMMETRY Replicas
INVARIANTS EndsAreTruthful NothingAhead CapacityRespected
PROPERTIES EndsAreFinal
