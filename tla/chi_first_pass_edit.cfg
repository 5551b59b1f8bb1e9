SPECIFICATION Spec
CONSTANTS
    HostSeq <- MCHostSeq
    ShardOf <- MCShardOf
    Specs <- NewSpecs
    NoSpec = NoSpec
    First <- New
    InitKinds = {"fresh"}
    Image <- MCImage
    Env <- MCEnv
    Broken = {"v4"}
    Workers = 2
    WaitReady = TRUE
    Policies <- DefaultPolicy
    Faults = {}
    LateEdits = FALSE
    MayRevert = FALSE
    MaxEdits = 1
    MaxErrors = 0
    MaxRestarts = 0
PROPERTY CompletedIsRunning
CHECK_DEADLOCK FALSE
