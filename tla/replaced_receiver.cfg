SPECIFICATION Spec
CONSTANTS
    SessionIds = {s1}
    Uploads = {}
    Cancels = {}
    Conns = {w1, w2}
    Pages = {}
    TTL = 1
    MaxTime = 0
    NoSession = NoSession
    Nobody = Nobody
    NoConn = NoConn
PROPERTY UnregistersItself
