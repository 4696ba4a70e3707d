SPECIFICATION FairSpec
CONSTANTS
  Adapters = {"http", "mcp", "python"}
  NumAttempts = 2
  MaxRetries = 1
  AdapterRetries = 1
  MaxRedirects = 2
  Samples = 2
INVARIANTS NothingActedOnIsRetried ResultIsEarned SecretStaysHome
PROPERTY WorkerEnds
CHECK_DEADLOCK FALSE
