CONSTANTS
    Clients = {c1, c2}
    Primary = Primary
    Contents = {x1, x2, big}
    Empty = Empty
    Big = {big}
    MaxCopies = 2
    MaxSeq = 2
    MaxLosses = 1
SPECIFICATION Spec
SYMMETRY Symmetry
INVARIANTS CleanIsCurrent OwnerKept Shared
CHECK_DEADLOCK FALSE
