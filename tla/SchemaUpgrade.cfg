SPECIFICATION Spec
CONSTANTS
    Servers = {p1, p2}
    Records = {o1}
    Buckets = {b1}
    Older <- Retired
    MaxFaults = 1
INVARIANTS NothingLost
