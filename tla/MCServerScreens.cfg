CONSTANTS
    b1 = b1
    b2 = b2
    c1 = c1
    s1 = s1
    s2 = s2
    NumNames = 3
    PrimaryName = 1
    Proxies = {b1, b2, c1}
    Slots = {s1, s2}
    Primary = Primary
    None = None
    wireName <- MCWireName
    Configs <- MCConfigs
SPECIFICATION Spec
INVARIANTS
    ScreensConnected
    CursorOnOneScreen
    MapMatchesSet
PROPERTIES
    CursorLocked
    
