SPECIFICATION FairSpec
CONSTANTS
  Calls = {c1, c2, c3}
  MaxCalls = 3
  MaxSpend = 2
  MaxUsage = 1
  Concurrency = 2
  Rpm = 2
  Rpd = 5
  Window = 2
  MaxRetries = 1
  MaxDelay = 1
INVARIANTS RpmHolds RequestsHold ConcurrencyHolds
PROPERTY EveryCallEnds
