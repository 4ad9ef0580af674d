SPECIFICATION FairSpec
CONSTANTS
    c1 = c1
    c2 = c2
    Client = {c1}
    Entity = {"tracker", "sensor"}
    Timeout = 2
    MaxMoves = 2
    MaxFail = 0
    MaxDrop = 1
    DropInFlight = FALSE
PROPERTY AwayAtLast
