CONSTANTS
    NumServers = 2
    AddressCount <- MCAddressCount
    Up <- MCUp
    MaxFaults = 3
SPECIFICATION Spec
INVARIANTS Consistent NeverStranded
PROPERTIES Reconnects
CHECK_DEADLOCK FALSE
