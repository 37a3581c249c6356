\* The jobs that pass the signature check as the code computes it.
CONSTANTS
    p1 = p1
    p2 = p2
    Workers = {p1, p2}
    Amount = 10
    Net = 8
    SplitRefund = 4
    SplitNet = 5
    QuotedFee = FALSE
    Operations = {"dispute"}
    PayeeStates = {"ready"}
    VerifiedJobs <- JobsThatVerify
    FaultKinds = {}
    MaxFaults = 0
SPECIFICATION FairSpec
PROPERTY CompletionSettles
CHECK_DEADLOCK FALSE
