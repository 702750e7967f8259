SPECIFICATION Spec
CONSTANTS
    Voice = {v1, v2}
    Upload = {u1, u2}
    Absent = Absent
    Language = {en}
    Client = {c1}
    Task = {t1}
    ReadyBy = {"reuse", "poll"}
    Troubles = {{}, {"reclone"}}
PROPERTY VoicesReachWorker
