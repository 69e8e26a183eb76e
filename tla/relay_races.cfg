SPECIFICATION Spec
CONSTANTS
    SessionIds = {s1}
    Uploads = {u1, u2}
    Cancels = {c1}
    Conns = {w1, w2}
    Pages = {}
    TTL = 1
    MaxTime = 0
    NoSession = NoSession
    Nobody = Nobody
    NoConn = NoConn
SYMMETRY RequestSymmetry
INVARIANTS
    RelayTypeOK
    FramesWhole
    RegistryHoldsOpenReceivers
    AnswerTellsRelay
    AnsweredSessionIsGone
    NoCircularWait
PROPERTIES
    NoCloseDuringDelivery
