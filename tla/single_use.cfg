SPECIFICATION Spec
CONSTANTS
    SessionIds = {s1}
    Uploads = {u1, u2}
    Cancels = {}
    Conns = {w1}
    Pages = {}
    TTL = 1
    MaxTime = 0
    NoSession = NoSession
    Nobody = Nobody
    NoConn = NoConn
INVARIANT SingleUse
