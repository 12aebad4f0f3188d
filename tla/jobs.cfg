\* The Job API, the SyncJob controller and the materialization of Connections.
SPECIFICATION Spec

CONSTANTS
    Inventories = {}
    Digest <- MCDigest
    Servers = {"a1"}
    Profile = "batch"
    RetainedLimit = 2
    CatalogPage = 1
    Filters = {}
    MaxStarts = 3
    Names = {1, 2}
    Displays = {"d1", "d2"}
    SecretNames = {"s1", "s2"}
    MaximumSettings = 5
    MaximumTenantActiveTests = 2
    MaximumActorActiveTests = 1
    MaximumConnectionActiveTest = 1
    MaximumTenantDailyTests = 2
    Day = 10
    Clients = {"alice", "bob"}
    Granted <- MCGranted
    MutationsEnabled = TRUE
    TestsEnabled = TRUE
    TestDeadline = 3
    TestRetention = 4
    TestPolicy = {2}
    ConnectionPage = 1
    Deliveries = {"AT_LEAST_ONCE", "EXACTLY_ONCE"}
    DefaultBatch = 1
    RuntimeEnabled = TRUE
    JobNames = {1}
    GuaranteeNames <- MCGuaranteeNames
    RetryDelays = 1
    Attempts = 2
    MaxEpoch = 2
    MaxEdits = 2
    MaxStops = 1
    Executions <- MCExecutions
    MaxActive = 1
    Schedulers = {"s1", "s2"}
    MaxProviderEdits = 1
    MaxFaults = 1

INVARIANTS
    FinalizerHolds
    ConnectsAsCaptured

PROPERTIES
    CapturedAtStart
    ResourcesConvergeWithController
    CredentialsAreRemovedByCleanup

CHECK_DEADLOCK FALSE
