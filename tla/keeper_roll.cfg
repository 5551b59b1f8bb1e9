CONSTANTS
    a = a
    b = b
    c = c
    d = d
    t1 = t1
    t2 = t2
    NoSpec = NoSpec
    Tmpls = {t1, t2}
    Hosts <- MCHosts3
    Pos <- MCPos3
    ShardOf <- MCOneShard
    NShards = 1
    Specs <- MCRollSpecs
    InitKinds = {"steady"}
    MaxEdits = 2
    MaxFaults = 0
    MaxErrors = 2
    MaxRestarts = 1
    WaitBudget = 1
    VolumeFaults = FALSE
    OnDataLoss = "recreate"
    OnUpdateFailure = "recreate"
    StartupWait = FALSE
    ReadinessWait = TRUE
    PurgeUnknown = TRUE
SPECIFICATION Spec
CHECK_DEADLOCK FALSE
INVARIANTS
    TypeOK
    MajorityHeld
PROPERTIES
    CompletedMeansWalked
