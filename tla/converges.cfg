SPECIFICATION FairSpec
CONSTANTS
    Jobs = {j1}
    Schedulers = {s1}
    MaxEpoch = 1
    MaxActive = 1
    Faults = "cease"
    Deadlines = TRUE
    Executions <- MCExecutions
PROPERTIES StopConverges StartSettles OrphansSwept
