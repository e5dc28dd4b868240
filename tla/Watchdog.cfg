CONSTANTS
    None = None
    Commands = {"server", "client"}
    Sessions = {"first", "second"}
    Foreground = FALSE
    MaxRequests = 3
    MaxFaults = 4
SPECIFICATION Spec
INVARIANTS OneCore Current
PROPERTY Obeyed
