SPECIFICATION StreamSpecQt
CONSTANTS
    MaxPackets = 3
    HighWater = 7
INVARIANT ProcessedFirst
CHECK_DEADLOCK FALSE
