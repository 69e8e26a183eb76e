SPECIFICATION Spec
CONSTANTS
    Inputs = {x, y}
    None = None
    MaxFlows = 3
    IsFirefox = FALSE
CHECK_DEADLOCK FALSE
SYMMETRY InputSymmetry
INVARIANT AttachedToItsInput
