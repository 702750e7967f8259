SPECIFICATION FairSpec
CONSTANTS
    Voice = {v1, v2}
    Upload = {a1, a2}
    Absent = Absent
    Request = {r1, r2}
    NoRequest = NoRequest
    NoCache = NoCache
    Reclone = {v1}
INVARIANTS
    IInv
    AtMostOneInference
    CacheFresh
    NoOrphanAudio
    VoicesInOrder
PROPERTIES
    RequestsAnswered
