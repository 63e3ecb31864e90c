SPECIFICATION MCSpec
CONSTANTS
    Calls = {p1, p2}
    Clients = {p1, p2}
    Messages <- MCMessages
    Deployments <- MCDeployments
    b1 = b1
    b2 = b2
    q1 = q1
    q2 = q2
    k1 = k1
    k2 = k2
    Buckets = {b1, b2}
    Projects = {q1, q2}
    Keys = {k1, k2}
    Prefixes = {"", "data"}
    Workloads <- MCWorkloads
    None = None
    Error = Error
    Ttl = 2
    Cooldown = 2
    FetchTimeout = 1
    RetryMax = 1
    TokenLife = 3
    MaxTime = 3
    MaxKid = 2
    MaxTokens = 3
    MaxFaults = 1
SYMMETRY Symmetry
INVARIANTS CachesCurrent OneKek
    ProtectedAuthorized OneRefreshPerToken ServesUpgraded StartedAsConfigured
PROPERTIES RegistrationsStick RetiredKeysExpire StartsSucceed
