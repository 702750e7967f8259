SPECIFICATION FairSpec
CONSTANTS
    Url = {u1}
    NoUrl = NoUrl
    Request = {r1, r2}
    NoRequest = NoRequest
    PollTask = {p1}
    NoTask = NoTask
    NoFile = NoFile
    MaxPolls = 1
    MaxSessions = 2
    MaxRestarts = 0
    DiskMayFail = FALSE
PROPERTIES
    BusySettles
    TeardownCompletes
