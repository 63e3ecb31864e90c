SPECIFICATION FairSpec
CONSTANTS
    Runs = {r1, r2}
    Calls = {k1, k2}
    MaxPart = 2
    MaxVersion = 2
    MaxUploads = 2
    MaxStarts = 2
    MaxFaults = 1
    Providers <- AllProviders
    Absent = Absent
    NoCall = NoCall
    NoRun = NoRun
INVARIANTS CheckpointTruthful
PROPERTIES Implements EveryRunEnds
CHECK_DEADLOCK FALSE
