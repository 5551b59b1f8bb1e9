CONSTANTS
    Specs <- MCThree
    Sts <- MCRolls
    Refused = {2}
    Suspended = {3}
    MayRevert = TRUE
    MayStrip = FALSE
    RecoverCompleted = TRUE
    MayDropCRD = TRUE
    Slices = TRUE
    Faults = {"get", "crd", "reget", "status", "unget", "unpatch"}
    Foreign = {"other"}
    IPs = {"a"}
    MaxEdits = 2
    MaxFlips = 1
    MaxErrors = 1
    MaxRestarts = 1
SPECIFICATION Spec
INVARIANT TypeOK
INVARIANT RefusedNeverApplied
CHECK_DEADLOCK FALSE
