\* Every part; liveness where nothing fails.
SPECIFICATION Spec
INVARIANTS TypeOK RecordsAgree
PROPERTIES StepsAreAllowed WorkEnds
\* A run ends when every bound is reached.
CHECK_DEADLOCK FALSE
