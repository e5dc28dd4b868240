CONSTANTS
    Threads = {p1, p2}
    Loop = Loop
    Events = {e1, quit}
    Quit = {quit}
    None = None
    short = short
    periodic = periodic
    Timers = {short, periodic}
    OneShot = {short}
    Duration <- MCDuration
    MaxDepth = 2
    MaxAdopts = 1
    MaxAge = 2
SPECIFICATION FairSpec
INVARIANT TimersExact
PROPERTIES Delivers Served
CHECK_DEADLOCK FALSE
