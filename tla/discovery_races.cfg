SPECIFICATION Spec
CONSTANTS
    full = full
    plain = plain
    d1 = d1
    NoConfig = NoConfig
    Device = {d1}
    Variant = {full, plain}
    Key <- MCKey
    KeysOf <- MCKeysOf
    Leftover = {NoConfig, full}
    MaxSite = 1
    MaxChange = 1
    MaxFail = 0
    MaxBirth = 1
    MaxDrop = 0
    MaxEvents = 2
    AcksMayBeLost = TRUE
    StoreMayVanish = TRUE
    VanishInFlight = TRUE
    Leaving = TRUE
INVARIANT TypeOK
INVARIANT EveryConfigTracked
PROPERTY ImplementsOwnership
