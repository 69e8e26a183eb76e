SPECIFICATION Spec
CONSTANTS
    SessionIds = {s1}
    Uploads = {}
    Cancels = {c1}
    Conns = {w1}
    Pages = {}
    TTL = 1
    MaxTime = 0
    NoSession = NoSession
    Nobody = Nobody
    NoConn = NoConn
INVARIANT CancelReleasesReceiver
