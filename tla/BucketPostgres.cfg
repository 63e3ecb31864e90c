SPECIFICATION Spec
CONSTANTS
    Calls = {p1, p2}
    b1 = b1
    b2 = b2
    q1 = q1
    q2 = q2
    k1 = k1
    k2 = k2
    Buckets = {b1}
    Projects = {q1}
    Keys = {k1, k2}
    Prefixes = {""}
    Workloads <- PGWorkloads
    None = None
    Error = Error
INVARIANTS OneCredentialPerBucket
