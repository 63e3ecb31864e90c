SPECIFICATION MCSpec
CONSTANTS
    Clients = {c1, c2}
    Ids = {i1, i2}
    i1 = i1
    i2 = i2
    SHAs = {a}
    a = a
    Sizes = {0}
    Sessions = {owner, guest, listed, anon}
    listed = listed
    anon = anon
    c1 = c1
    owner = owner
    guest = guest
    Resources = {r1, r2}
    r1 = r1
    r2 = r2
    Methods = {m, u}
    m = m
    u = u
    TargetURL = u
    OrgScopes <- Organization
    Unenforced = {}
    Anonymous = {anon}
    Privileges <- ServicePrivileges
    Authz <- ServiceAuthz
    LegacySHAs = {a}
    LegacyRows <- Legacy
    Inputs <- StoreInputs
    Catalogues <- ServiceCatalogues
    Requests <- ServiceRequests
    MaxBatch = 2
    NoRow = NoRow
    NoId = NoId
    NoSHA = NoSHA
    Nil = Nil
    Keep = Keep
CHECK_DEADLOCK FALSE
INVARIANTS ReadsAuthorized
PROPERTIES GrantsAuthorized SharedContentProtected PrivateContentKept
    OmittedFieldsKept CollapseNeedsNoDuplicates EveryServiceCallEnds
