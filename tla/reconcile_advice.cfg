SPECIFICATION Spec
CONSTANTS
    d1 = d1
    w1 = w1
    c1 = c1
    p1 = p1
    p2 = p2
    Device = {d1}
    Wlan = {w1}
    Client = {c1}
    Shape <- MCShape
    Kind <- MCKind
    Configuration <- MCConfiguration
    MaxEvent = 1
PROPERTY
    AdviceSafe
