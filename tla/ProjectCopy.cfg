SPECIFICATION FairCopy
CONSTANTS
    Clients = {c1}
    Ids = {i1, i2, i3}
    i1 = i1
    i2 = i2
    i3 = i3
    SHAs = {a, b}
    a = a
    b = b
    Sizes = {0}
    Sessions = {owner, local}
    owner = owner
    local = local
    Other = owner
    Walks <- SomeWalks
    Resources = {r1, r2}
    r1 = r1
    r2 = r2
    Src = r1
    Dst = r2
    Methods = {m, t, u}
    m = m
    There = t
    Bare = u
    Large = {b}
    TargetURL = t
    OrgScopes <- NoOrganization
    Unenforced = {local}
    Anonymous = {}
    Privileges <- CopyPrivileges
    Authz <- CopyAuthz
    LegacySHAs = {a, b}
    LegacyRows <- NoLegacy
    Inputs = {}
    Catalogues <- CopyCatalogues
    Requests <- CopyRequests
    Others <- OtherRecords
    Scopes <- SomeScopes
    MinBatch = 1
    MaxChanges = 2
    MaxBatch = 1
    NoRow = NoRow
    NoId = NoId
    NoSHA = NoSHA
    Nil = Nil
    Keep = Keep
CHECK_DEADLOCK FALSE
INVARIANTS WalkComplete
PROPERTIES CopyFaithful CopyEnds
