SPECIFICATION Spec
CONSTANTS
    Voice = {v1}
    Upload = {u1, u2}
    Absent = Absent
    Language = {en}
    Client = {c1, c2}
    Task = {t1, t2}
    ReadyBy = {"reuse", "poll", "reconcile", "last_probe"}
    Troubles = {{"list", "late"}, {"verify", "timeout"}, {"register", "timeout"}}
SYMMETRY Symmetry
INVARIANTS CreatedIsServed KnownIsHealed WorkerVoicesAreStored SpeaksStoredVoice
