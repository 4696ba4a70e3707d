\* Three requests, all at once on a workspace and two at a time otherwise; caps of
\* one, and of two projects, which the first account has.  A client is allowed two
\* requests in five ticks of half a second: no wait is a whole number.
SPECIFICATION MCSpec
CONSTANTS
    Requests = {q1, q2, q3}
    First = first
    None = None
    Names = {n1, n2}
    SuiteAgent = n1
    MaxOpen = 3
    RunCap = 1
    AgentCap = 1
    LiveCap = 1
    Second = second
    Other = other
    AccessOpen = 2
    Slots = 1
    SignupCap = 1
    ProjectCap = 2
    Clients = {k1, k2}
    Limit = 2
    Window = 5
    TicksPerSecond = 2
    MaxBuckets = 1
    Cap = 2
    MaxBody = 4
SYMMETRY Symmetry
INVARIANTS RunsAreReproducible QuotasHold SecretHeld OnlyOwnersAreAnswered LimiterIsFair AnswersAreTrue
PROPERTY RevokedIsOver
CHECK_DEADLOCK FALSE
