CONSTANTS
    NoKey = NoKey
    Platform = "windows"
    Layout <- MCLayout
    IdOrder <- MCIdOrder
    ServerLayout <- MCServerLayout
    ServerModifiers <- MCServerModifiers
    Shift = 0
    CapsLock = 12
    Rollover = 3
    Commands = {1, 2, 3, 4, 5}
SPECIFICATION KeySpec
INVARIANTS NoStuck Typed MaskTrue
PROPERTY LocksKept
