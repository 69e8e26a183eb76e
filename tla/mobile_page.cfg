SPECIFICATION FairSpec
CONSTANTS
    MaxFileSize = 15728640
    IntMax = 1073741823
    Gallery <- LimitGallery
    Unsupported = {500}
    Rendered = {3000}
    Framings <- SlackFramings
    Streams = {1, 2}
    MaxPending = 2
    None = None
CHECK_DEADLOCK FALSE
INVARIANTS
    MobileTypeOK
    PanelsShowState
    NeverAtADeadEnd
    CameraOnlyWhileShown
    ButtonGuardsSend
    PageInv
PROPERTIES
    FittingPhotoAdmitted
    BusyEnds
