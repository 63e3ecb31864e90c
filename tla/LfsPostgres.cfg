SPECIFICATION LfsSpec
CONSTANTS
    Oids = {o1, o2}
    Calls = {p1, p2}
    Serial = FALSE
    MaxStamp = 3
INVARIANTS ConsumedOnce
