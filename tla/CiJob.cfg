\* Two jobs, one of which pushes; earlier jobs may have left any baseline.
SPECIFICATION Spec
CONSTANTS
    Jobs = {j1, j2}
    Pushing = {j1}
    None = None
INVARIANTS GreenIsEarned OneComment
CHECK_DEADLOCK FALSE
