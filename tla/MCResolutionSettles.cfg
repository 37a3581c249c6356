\* Liveness of a resolved dispute: errors only.
CONSTANTS
    p1 = p1
    p2 = p2
    Workers = {p1, p2}
    Amount = 10
    Net = 8
    SplitRefund = 4
    SplitNet = 5
    QuotedFee = FALSE
    Operations = {"dispute", "force_refund", "release", "force_release"}
    PayeeStates = {"ready"}
    VerifiedJobs = {"completion", "release_requested", "refund_requested", "partial_refund_requested"}
    FaultKinds = {"error"}
    MaxFaults = 1
SPECIFICATION FairSpec
PROPERTY ResolutionSettles
CHECK_DEADLOCK FALSE
