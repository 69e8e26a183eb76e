SPECIFICATION FairSpec
CONSTANTS
    Inputs = {x, y}
    None = None
    MaxFlows = 3
    IsFirefox = TRUE
CHECK_DEADLOCK FALSE
INVARIANTS
    ExtensionTypeOK
    OverlayFollowsInput
    QRCodeOfOwnSession
    SocketOfSession
    ExtensionInv
PROPERTIES
    OfferedPhotoStays
    LoadingEnds
