SPECIFICATION Spec
CONSTANTS
    v1 = v1
    v2 = v2
    NoSpec = NoSpec
    VolumeSeq <- MCVolumes
    Operators = {v1}
    Retained = {v2}
    Specs <- MCSpecs
    First <- One
    Edits <- MCEdits
    Policies <- AbortPolicies
    Faults = {"claimread"}
    MaxEdits = 1
    MaxErrors = 2
    MaxRestarts = 1
    MaxLosses = 0
PROPERTY DataKept
CHECK_DEADLOCK FALSE
