SPECIFICATION Spec
CONSTANTS
    Workers = {w1, w2}
    Modes = {"standard", "consent", "instant"}
    Paths = {"accept"}
    Faults = TRUE
    LateFee = TRUE
    MaxProofs = 2
    MaxVersions = 2
INVARIANTS AcceptedCanWork
CHECK_DEADLOCK FALSE
