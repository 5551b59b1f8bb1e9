CONSTANTS
    Specs <- MCThree
    Sts <- MCRolls
    Refused = {}
    Suspended = {}
    MayRevert = FALSE
    MayStrip = TRUE
    RecoverCompleted = FALSE
    MayDropCRD = TRUE
    Slices = FALSE
    Faults = {"status", "unget", "unpatch"}
    Foreign = {}
    IPs = {"a"}
    MaxEdits = 2
    MaxFlips = 2
    MaxErrors = 1
    MaxRestarts = 1
SPECIFICATION FairSpec
PROPERTY LastChangeApplied
PROPERTY DeletionCompletes
 
PROPERTY Converges
CHECK_DEADLOCK FALSE
