CONSTANTS
    a = a
    b = b
    c = c
    d = d
    t1 = t1
    t2 = t2
    NoSpec = NoSpec
    Tmpls = {t1, t2}
    Hosts <- MCHosts3
    Pos <- MCPos3
    ShardOf <- MCOneShard
    NShards = 1
    Specs <- MCTemplateSpecs
    InitKinds = {"steady"}
    MaxEdits = 1
    MaxFaults = 2
    MaxErrors = 1
    MaxRestarts = 0
    WaitBudget = 1
    VolumeFaults = TRUE
    OnDataLoss = "recreate"
    OnUpdateFailure = "recreate"
    StartupWait = FALSE
    ReadinessWait = TRUE
    PurgeUnknown = TRUE
SPECIFICATION FairSpec
CHECK_DEADLOCK FALSE
PROPERTIES
    WorkDrains
    DisruptAccounted
