SPECIFICATION Spec
CONSTANTS
    Tabs = {t1}
    MaxClicks = 2
    MaxRestarts = 1
CHECK_DEADLOCK FALSE
INVARIANT HonestBadge
