CONSTANTS
    MaxWidth = 3
    Widths = {2, 3}
    MaxSent = 5
    MaxShapes = 2
    Hurry = FALSE
SPECIFICATION ProxySpec
INVARIANTS   Settled
CHECK_DEADLOCK FALSE
