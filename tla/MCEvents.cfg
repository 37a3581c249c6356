\* Every part; liveness without crashes, of disputes with events in order.
SPECIFICATION Spec
CONSTANTS
    Runners = {"w1", "w2"}
    Disputes = {"d1", "d2"}
    MaxEvents = 1
    MaxInTurn = 2
    MaxFaults = 2
INVARIANTS TypeOK BookedOnce AccountsAreCurrent
PROPERTIES EventsSettle
\* A run ends when every bound is reached.
CHECK_DEADLOCK FALSE
