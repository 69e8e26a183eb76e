SPECIFICATION Spec
CONSTANTS
    SessionIds = {s1, s2}
    Uploads = {u1}
    Cancels = {}
    Conns = {w1, w2}
    Pages = {g1}
    TTL = 1
    MaxTime = 0
    NoSession = NoSession
    Nobody = Nobody
    NoConn = NoConn
SYMMETRY SessionSymmetry
INVARIANTS
    RegistryHoldsOpenReceivers
    RelayedWithinSession
PROPERTY KeepsPromise
