SPECIFICATION FairSpec
CONSTANTS
    a = a
    b = b
    Front = front
    NoAncestor = NoAncestor
    Layouts <- MCLayouts
    First <- MCFirst
    MaxEdits = 2
    MaxFaults = 1
INVARIANT TypeOK
INVARIANT FilesAsStamped
PROPERTY EndpointsFollow
CHECK_DEADLOCK FALSE
