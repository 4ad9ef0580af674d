SPECIFICATION Spec
CONSTANTS
    c1 = c1
    d1 = d1
    w1 = w1
    s1 = s1
    Client = {c1}
    Device = {d1}
    Wlan = {w1}
    Health = {s1}
    Topic <- MCTopic
    Kept = {"kept"}
    Enabled = {"client", "wlan", "site"}
    Gone = {w1}
    MaxEvent = 1
INVARIANT TypeOK
PROPERTIES  EvictedWhenSettled SettledAtLast CarriedOver HomeAtLast
CHECK_DEADLOCK FALSE
