SPECIFICATION Spec
CONSTANTS
    Outputs = {o1, o2}
    MaxAttempts = 10
INVARIANT
    RendererOnce
CHECK_DEADLOCK FALSE
