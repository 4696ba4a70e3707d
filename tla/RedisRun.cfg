SPECIFICATION FairSpec
CONSTANTS
  Attempts = {a1, a2}
  Workers = {w1, w2}
  Misconfigured = {w2}
  MaxRetries = 1
  MaxFaults = 1
INVARIANT RecordHolds
PROPERTIES ImplementsLifecycle EveryRunEnds JobsDrain
CHECK_DEADLOCK FALSE
