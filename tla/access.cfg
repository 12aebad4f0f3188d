CONSTANTS
    ann = ann
    bob = bob
    eve = eve
    t1 = t1
    t2 = t2
    t3 = t3
    n1 = n1
    n2 = n2
    n3 = n3
    Principals = {ann, bob, eve}
    Tenants = {t1, t2, t3}
    Namespaces = {n1, n2, n3}
    Calls = {1, 2, 3}
    Browsers = {1}
    MaxRevision = 3
    MaxOperations = 1
    Sessions = {"s1", "s2"}
    Logins = {"l1"}
    Requests = {1, 2, 3}
    IdleTTL = 2
    AbsoluteTTL = 3
    LoginTTL = 1
    RefreshWindow = 1
    TokenTTL = 2
    MaxTime = 3
    MaxTokens = 3
    PrincipalOrder <- Order
    TenantOrder <- TenantsInOrder
    Reader = ann
    ListedTenant = t1
    PageSize = 1
    EventIds = {1, 2, 3, 4, 5}
    MaxAuditTime = 1
    JobNames = {1, 2, 3}
    MaximumPageSize = 2
    Keys = {1, 2, 3}
    Unsupported = {3}
    Validations = {1, 2}
    CacheTTL = 1
    StaleIfError = 1
    FetchTimeout = 1
    MaxKeyTime = 4
SPECIFICATION Spec
INVARIANTS SessionsAreSerial KeysAgeOut ListingsAreComplete ServedWhereSelected
PROPERTIES DecisionsAreCurrent
CHECK_DEADLOCK FALSE
