SPECIFICATION Spec
CONSTANTS
    IdleTimeout = 5
    CheckInterval = 2
    Request = {r1, r2}
    MaxFiles = 2
    MaxAge = 3
CHECK_DEADLOCK FALSE
INVARIANTS QuotaProtected RequestsNotCut RecordingsKept
PROPERTIES HealthIsHonest IdleWorkerExits
