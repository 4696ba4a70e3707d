\* Three failures before polling, as in the hook; two attempts, two faults.
SPECIFICATION FairSpec
CONSTANTS
    MaxFailures = 3
    MaxAttempts = 2
    MaxFaults = 2
INVARIANT OneDriver
PROPERTY PageSettles
CHECK_DEADLOCK FALSE
