SPECIFICATION Spec
CONSTANTS
    Outputs = {o1, o2}
    MaxAttempts = 10
INVARIANT
    ListenersDetached
CHECK_DEADLOCK FALSE
