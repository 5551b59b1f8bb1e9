SPECIFICATION FairSpec
CONSTANTS
    v1 = v1
    v2 = v2
    NoSpec = NoSpec
    VolumeSeq <- MCVolumes
    Operators = {v1}
    Retained = {v2}
    Specs <- MCSpecs
    First <- One
    Edits <- MCEdits
    Policies <- MCPolicies
    Faults <- MCFaults
    MaxEdits = 2
    MaxErrors = 2
    MaxRestarts = 1
    MaxLosses = 1
INVARIANTS TypeOK WellUntouched
PROPERTIES DataKept LossRecovered HostSettles
CHECK_DEADLOCK FALSE
