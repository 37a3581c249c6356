\* Every part; liveness of the events of a payout and of an account.
SPECIFICATION Spec
INVARIANTS TypeOK MovedOnce TotalsAddUp SettledIsComplete
PROPERTIES StripeIsFollowed
\* A run ends when every bound is reached.
CHECK_DEADLOCK FALSE
