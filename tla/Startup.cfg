SPECIFICATION KeySpec
CONSTANTS
    Outputs = {o1, o2}
    Devices = {k1, k2}
    MaxAttempts = 10
INVARIANTS
    KeyTypeOK
    RenderersChecked
    KeyboardsHeard
PROPERTIES
    OneOutputShutsDown
    StartEnds
CHECK_DEADLOCK FALSE
