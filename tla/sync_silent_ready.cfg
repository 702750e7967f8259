SPECIFICATION Spec
CONSTANTS
    Voice = {v1}
    Upload = {u1}
    Absent = Absent
    Language = {en}
    Client = {c1}
    Task = {t1}
    ReadyBy = {"reuse", "poll", "reconcile", "last_probe"}
    Troubles = {{}}
PROPERTY VoicesReachWorker
