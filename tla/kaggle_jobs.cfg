SPECIFICATION Spec
CONSTANTS
    Job = {j1, j2}
    NoJob = NoJob
    MaxPolls = 3
    MaxErrors = 3
    Lags = {TRUE, FALSE}
CHECK_DEADLOCK FALSE
INVARIANT IInv
PROPERTIES FailureIsOwn NothingIsMissed JobsEnd
