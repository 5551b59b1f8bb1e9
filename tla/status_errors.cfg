CONSTANTS
    Worker = w
    Hosts = {}
    Endpoints = {e1}
    Specs = {s1, s2}
    Refused = {s2}
    Suspended = {}
    NoSpec = NoSpec
    maxRetryAttempts = 2
    maxActions = 2
    MaxAnnouncements = 4
    MaxPasses = 1
    MaxEvents = 1
    MaxEdits = 2
    MaxErrors = 2
SPECIFICATION Spec
CHECK_DEADLOCK FALSE
INVARIANT AncestorWasCompleted
