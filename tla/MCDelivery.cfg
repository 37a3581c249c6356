\* Every part; liveness in those without crashes.
CONSTANTS
    Events = {"e1", "e2"}
    Marking = {"e2"}
    Pollers = {"p1", "p2"}
    MaxOutboxAttempts = 3
    JobAttempts = 2
    Channels = {"email", "sms", "push"}
    Workers = {"w1", "w2"}
    Creators = {"c1", "c2"}
    Submissions = {"s1", "s2", "s3", "s4"}
    Rejections = {"r1"}
    LimitKeys = {"s1", "s2", "s3", "r1"}
    GroupKeys = {"s1", "s2", "s3", "s4"}
    FaultKeys = {"s1", "s2", "r1"}
    RecoveryKeys = {"s1", "r1"}
    HourlyLimit = 1
    DailyLimit = 2
    WideLimit = 9
    GroupMax = 2
    MaxAttempts = 2
    MaxFaults = 3
    MaxCreationFaults = 2
SPECIFICATION Spec
INVARIANTS TypeOK SentOnce OvershootIsBounded
PROPERTIES StaysDone EverythingIsDelivered
\* A run ends when every bound is reached.
CHECK_DEADLOCK FALSE
