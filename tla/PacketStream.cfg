SPECIFICATION StreamSpec
CONSTANTS
    MaxPackets = 4
    HighWater = 7
 
PROPERTY Implements
CHECK_DEADLOCK FALSE
