SPECIFICATION FairSpec
CONSTANTS
  Attempts = {a1, a2, a3}
  Concurrency = 2
  MaxCrashes = 1
  MaxErrors = 2
INVARIANT RunHolds
PROPERTIES ImplementsLifecycle RunAndTaskEnd
CHECK_DEADLOCK FALSE
