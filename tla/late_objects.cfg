SPECIFICATION Spec
CONSTANTS
    Jobs = {j1}
    Schedulers = {s1, s2}
    MaxEpoch = 1
    MaxActive = 1
    Faults = "always"
    Deadlines = TRUE
    Executions <- MCExecutions
SYMMETRY Replicas
PROPERTIES CanceledWhenAbsent
