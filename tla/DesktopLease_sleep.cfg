\* A Mac that goes to sleep during its turn.
SPECIFICATION LeaseSpec
CONSTANTS
  Lease = 4
  Watchdog = 2
  Lag = 1
  Grace = 1
  Never = Never
  MaxTime = 10
INVARIANT DeadlineAlwaysEndsTurn
CHECK_DEADLOCK FALSE
