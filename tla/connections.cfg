\* The connector catalogue, the Connection API and the test executors.
SPECIFICATION Spec

CONSTANTS
    Inventories <- MCInventories
    Digest <- MCDigest
    Servers = {"a1", "a2"}
    Profile = "batch"
    RetainedLimit = 2
    CatalogPage = 1
    Filters <- MCFilters
    MaxStarts = 3
    Names = {1, 2, 3}
    Displays = {"d1", "d2"}
    SecretNames = {"s1", "s2"}
    MaximumSettings = 5
    MaximumTenantActiveTests = 2
    MaximumActorActiveTests = 1
    MaximumConnectionActiveTest = 1
    MaximumTenantDailyTests = 2
    Day = 10
    Clients = {"alice", "bob"}
    Granted <- MCGranted
    MutationsEnabled = TRUE
    TestsEnabled = TRUE
    TestDeadline = 3
    TestRetention = 4
    TestPolicy = {2}
    ConnectionPage = 1
    Executors = {"e1", "e2"}
    ClaimBatch = 1
    LeaseDuration = 2
    ProbeTimeout = 2
    CompletionTimeout = 1
    MaxTime = 4
    MaxCrashes = 1
    MaxOperation = 2
    Environments <- MCEnvironments
    Key <- MCKey
    Kinds <- MCKinds
    HardDenied = {4}
    Restricted = {2}
    Protected = {3}
    MaximumDNSAddresses = 2
    MaximumConnectionAttempts = 1

INVARIANTS
    CatalogueIsWhole

PROPERTIES
    ChangesAreSerial
    ListingIsOneMoment
    ResultsAreFenced
    TestsEndWithExecutors

CHECK_DEADLOCK FALSE
