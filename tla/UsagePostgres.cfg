SPECIFICATION Spec
CONSTANTS
    Objects = {o1}
    Calls = {p1, p2}
    Serial = FALSE
    MaxEvents = 2
INVARIANTS UsageExact
