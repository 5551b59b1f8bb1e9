SPECIFICATION FairSpec
CONSTANTS
    HostSeq <- MCHostSeq
    ShardOf <- MCShardOf
    Specs <- PassSpecs
    NoSpec = NoSpec
    First <- Start
    InitKinds = {"steady", "degraded", "fresh"}
    Image <- MCImage
    Env <- MCEnv
    Broken = {"v4"}
    Workers = 2
    WaitReady = TRUE
    Policies <- BothPolicies
    Faults = {"service", "config", "hook", "volume", "shutdown", "sts", "timeout", "poll", "ddl", "mark", "final"}
    LateEdits = FALSE
    MayRevert = FALSE
    MaxEdits = 1
    MaxErrors = 1
    MaxRestarts = 1
INVARIANTS
    TypeOK
    DeferralRestores
PROPERTIES
    ShardServes
    AdvertisedExist
    RestartsHappen
    HostsReturn
CHECK_DEADLOCK FALSE
