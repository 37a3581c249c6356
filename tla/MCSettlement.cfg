\* Safety: every operation, every state of the payout account, one fault.
CONSTANTS
    p1 = p1
    p2 = p2
    Workers = {p1, p2}
    Amount = 10
    Net = 8
    SplitRefund = 4
    SplitNet = 5
    QuotedFee = FALSE
    Operations = {"refund", "force_refund", "force_release", "release", "lock", "chargeback",
                  "cancel", "abandon", "dispute", "reject_proof"}
    PayeeStates = {"ready", "notCurrent", "restricted", "payoutsLocked"}
    VerifiedJobs = {"completion", "release_requested", "refund_requested", "partial_refund_requested"}
    FaultKinds = {"error", "crash", "stall"}
    MaxFaults = 1
SYMMETRY ProcessSymmetry
SPECIFICATION Spec
INVARIANTS
    TypeOK
    RecordedIdsAreIssued
    SettlementIsBacked
    ReleasedTaskIsCompleted
    DisputeOutcomeIsExclusive
    SplitRefundsFirst
    VersionMeansOpen
    OverpaymentNeedsARace
    UnracedPayoutIsRecorded
PROPERTY
    RowImplementsLedger
CHECK_DEADLOCK FALSE
