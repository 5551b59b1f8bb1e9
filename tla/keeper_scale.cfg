CONSTANTS
    a = a
    b = b
    c = c
    d = d
    t1 = t1
    t2 = t2
    NoSpec = NoSpec
    Tmpls = {t1, t2}
    Hosts <- MCHosts4
    Pos <- MCPos4
    ShardOf <- MCTwoShards
    NShards = 2
    Specs <- MCScaleSpecs
    InitKinds = {"fresh", "steady"}
    MaxEdits = 1
    MaxFaults = 1
    MaxErrors = 1
    MaxRestarts = 0
    WaitBudget = 1
    VolumeFaults = FALSE
    OnDataLoss = "abort"
    OnUpdateFailure = "abort"
    StartupWait = TRUE
    ReadinessWait = TRUE
    PurgeUnknown = TRUE
SPECIFICATION Spec
CHECK_DEADLOCK FALSE
PROPERTIES
    PurgeOnlyDeparted
