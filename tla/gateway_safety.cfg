SPECIFICATION Spec
CONSTANTS
    Url = {u1}
    NoUrl = NoUrl
    Request = {r1, r2}
    NoRequest = NoRequest
    PollTask = {p1, p2}
    NoTask = NoTask
    NoFile = NoFile
    MaxPolls = 1
    MaxSessions = 3
    MaxRestarts = 1
    DiskMayFail = FALSE
SYMMETRY Symmetry
INVARIANTS
    IInv
    AtMostOnePoller
    ReadyServable
    BusyHasDriver
    TeardownIsQuiet
PROPERTIES
    RestartKeepsSession
    StartKeepsReady
    ImplementsLifecycle
