\* Every part; liveness without faults.
CONSTANTS
    Requests = {"r1", "r2"}
    Runners = {"w1", "w2"}
    Cancels = TRUE
    PosterTasks = {"p1", "p2"}
    WorkerTasks = {"t1"}
    Starts = {"none", "unfunded", "open", "accepted", "disputed", "completed"}
    Executors = {"x1", "x2"}
    Receipts = {"r1"}
    Finalizers = {"f1", "f2"}
    Viewers = {"v1"}
    BadAllowed = TRUE
    MaxFaults = 2
SPECIFICATION Spec
INVARIANTS TypeOK OneAtATime CompletedIsDone
PROPERTIES RequestsSettle
\* A run ends when every bound is reached.
CHECK_DEADLOCK FALSE
