SPECIFICATION CrowdSpec
CONSTANTS
    SessionIds = {s1}
    Uploads = {u1, u2}
    Cancels = {c1}
    Conns = {w1, w2}
    Pages = {}
    TTL = 1
    MaxTime = 2
    NoSession = NoSession
    Nobody = Nobody
    NoConn = NoConn
CHECK_DEADLOCK FALSE
INVARIANTS
    RelayInv
    AnsweredSessionIsGone
PROPERTIES
    KeepsPromise
    SessionEndsForCause
    ExpiredSessionRemoved
    UploadAnswered
    CancelAnswered
    GoneReceiverReleased
