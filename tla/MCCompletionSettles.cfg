\* Liveness of the completion payout: every kind of fault.
CONSTANTS
    p1 = p1
    p2 = p2
    Workers = {p1, p2}
    Amount = 10
    Net = 8
    SplitRefund = 4
    SplitNet = 5
    QuotedFee = FALSE
    Operations = {"dispute", "lock", "refund"}
    PayeeStates = {"ready"}
    VerifiedJobs = {"completion", "release_requested", "refund_requested", "partial_refund_requested"}
    FaultKinds = {"error", "crash", "stall"}
    MaxFaults = 1
SPECIFICATION FairSpec
PROPERTY CompletionSettles
CHECK_DEADLOCK FALSE
