SPECIFICATION FairSpec
CONSTANTS
    Requests = {"one", "two"}
    N = 4
    Sizes = {0, 1}
    InProject <- MCInProject
    Starting <- MCStarting
    DirOf <- MCDirOf
    InDir <- MCInDir
    PageSize = 2
    PageAttempts = 2
    HeadAttempts = 2
    ExactAttempts = 3
    TerminalReplays = 3
    Threshold = 2
    FallbackLimit = 3
    Permits = 1
    MaxChanges = 2
    MaxFaults = 1
    MaxShort = 2
    Workloads <- MCWorkloads
INVARIANTS InspectionTruthful
PROPERTIES InspectionsEnd
CHECK_DEADLOCK FALSE
