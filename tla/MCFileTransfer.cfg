CONSTANTS
    None = None
    Paths = {"p1", "p2", "p3"}
    Name <- MCName
    Unsafe = {"c:"}
    Selections <- MCSelections
    Sizes = {0, 2, 3}
    SendCount = 3
    MaxFileCount = 2
    MaxFileSize = 2
    MaxTotalBytes = 3
    Attempts = 1
    MaxWire = 2
    MaxDrags = 2
    MaxFaults = 2
SPECIFICATION Spec
INVARIANTS  NoRestart Paired
PROPERTIES NoOverwrite Delivered
CHECK_DEADLOCK FALSE
