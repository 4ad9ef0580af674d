SPECIFICATION PromptSpec
CONSTANTS
    full = full
    plain = plain
    d1 = d1
    NoConfig = NoConfig
    Device = {d1}
    Variant = {full, plain}
    Key <- MCKey
    KeysOf <- MCKeysOf
    Leftover = {NoConfig}
    MaxSite = 1
    MaxChange = 1
    MaxFail = 1
    MaxBirth = 1
    MaxDrop = 1
    MaxEvents = 2
    AcksMayBeLost = TRUE
    StoreMayVanish = TRUE
    VanishInFlight = FALSE
    Leaving = FALSE
INVARIANT EvidenceHonest
 
 
PROPERTY StaleCleared
