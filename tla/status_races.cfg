CONSTANTS
    Worker = w
    Hosts = {h1}
    Endpoints = {e1}
    Specs = {s1, s2}
    Refused = {}
    Suspended = {s2}
    NoSpec = NoSpec
    maxRetryAttempts = 2
    maxActions = 2
    MaxAnnouncements = 4
    MaxPasses = 1
    MaxEvents = 1
    MaxEdits = 1
    MaxErrors = 0
SPECIFICATION Spec
CHECK_DEADLOCK FALSE
INVARIANTS TypeOK StatusKept
PROPERTY ActionsKept
