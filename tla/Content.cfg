SPECIFICATION MCSpec
CONSTANTS
    Clients = {c1, c2}
    Ids = {i1, i2, i3}
    SHAs = {a, b}
    Sizes = {0, 1, 2}
    Sessions = {local}
    local = local
    Resources = {}
    Methods = {}
    OrgScopes = {}
    Unenforced = {local}
    Anonymous = {}
    Privileges <- NoPrivileges
    Authz <- NoAuthz
    LegacySHAs = {a}
    LegacyRows <- Legacy
    Inputs <- IdentityInputs
    MaxBatch = 1
    NoRow = NoRow
    NoId = NoId
    NoSHA = NoSHA
    Nil = Nil
    Keep = Keep
    MaxId = 3
    MinBatch = 1
    MaxChanges = 1
    Sqlite = FALSE
    Loads = {"identity", "reads", "reports", "events"}
SYMMETRY Symmetry
INVARIANTS TypeOK UniqueContent AliasTargetsExist RoutesAgree ReportsTruthful
PROPERTIES IdentityStable ContentImmutable
CHECK_DEADLOCK TRUE
