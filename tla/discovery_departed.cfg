SPECIFICATION FairSpec
CONSTANTS
    full = full
    plain = plain
    d1 = d1
    NoConfig = NoConfig
    Device = {d1}
    Variant = {plain}
    Key <- MCKey
    KeysOf <- MCKeysOf
    Leftover = {NoConfig}
    MaxSite = 1
    MaxChange = 0
    MaxFail = 0
    MaxBirth = 0
    MaxDrop = 0
    MaxEvents = 4
    AcksMayBeLost = FALSE
    StoreMayVanish = FALSE
    VanishInFlight = FALSE
    Leaving = TRUE
PROPERTY DepartedCleared
