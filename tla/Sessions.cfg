SPECIFICATION Spec
CONSTANTS
    ann = ann
    k1 = k1
    k2 = k2
    Users = {ann}
    Requests = {k1, k2}
    MaxAttempts = 1
    MaxSessions = 3
    MaxTokens = 2
    MaxChanges = 2
SYMMETRY MCSymmetry
INVARIANTS
    TypeOK
    AccessEnds
PROPERTIES
    EndedStaysEnded
CHECK_DEADLOCK FALSE
