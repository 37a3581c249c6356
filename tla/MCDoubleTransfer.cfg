\* A payout in flight, a dispute, and its resolution.
CONSTANTS
    p1 = p1
    p2 = p2
    Workers = {p1, p2}
    Amount = 10
    Net = 8
    SplitRefund = 4
    SplitNet = 5
    QuotedFee = FALSE
    Operations = {"dispute"}
    PayeeStates = {"ready"}
    VerifiedJobs = {"completion", "release_requested", "refund_requested", "partial_refund_requested"}
    FaultKinds = {}
    MaxFaults = 0
SPECIFICATION Spec
INVARIANT NoDoubleTransfer
CHECK_DEADLOCK FALSE
