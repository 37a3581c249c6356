\* Every part; liveness of the reserved task.
SPECIFICATION Spec
CONSTANTS
    Workers = {"w1", "w2"}
    Takers = {"w1"}
    MaxProofs = 2
    MaxVersions = 2
INVARIANTS TypeOK StateIsBacked AcceptedCanWork SupplyIsCounted
PROPERTIES InTurn RejectedIsRetaken
\* A run ends when every bound is reached.
CHECK_DEADLOCK FALSE
