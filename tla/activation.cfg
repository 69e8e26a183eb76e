SPECIFICATION FairSpec
CONSTANTS
    Tabs = {t1}
    MaxClicks = 4
    MaxRestarts = 2
CHECK_DEADLOCK FALSE
INVARIANTS
    ActivationTypeOK
    OneListener
    LoadedOnce
    ActivationInv
PROPERTY TabReleased
