SPECIFICATION FairSpec
CONSTANTS
    c1 = c1
    c2 = c2
    Client = {c1, c2}
    Entity = {"tracker", "sensor"}
    Timeout = 2
    MaxMoves = 2
    MaxFail = 1
    MaxDrop = 1
    DropInFlight = FALSE
INVARIANT ItemsAgree
 
INVARIANT LatchHonest
PROPERTY NoFlap
 
PROPERTY Settles
PROPERTY EntitiesRestored
