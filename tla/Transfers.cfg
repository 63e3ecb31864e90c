SPECIFICATION MCSpec
CONSTANTS
    Objects = {o1, o2}
    Calls = {p1, p2}
    Callers = {p1, p2}
    Asks <- MCAsks
    Old <- MCOld
    Serial = TRUE
    MaxEvents = 2
    Oids = {o1, o2}
    MaxStamp = 3
    MaxAsks = 3
    MaxFaults = 2
    Sizes <- MCSizes
    PartLen = 1
    PageLen = 2
    Workers = 2
    Attempts = 2
    MaxRuns = 3
    MaxTrouble = 3
    MaxChanges = 1
    MaxWrites = 4
INVARIANTS UsageExact ReportsAreCurrent ConsumedOnce AttributionExact FinishedIsWhole DownloadFindsUpload
    ClaimsKept WireFaithful
PROPERTIES StagedNotLost
