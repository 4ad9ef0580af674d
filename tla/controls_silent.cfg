SPECIFICATION PromptSpec
CONSTANTS
    Unread = Unread
    Control = {"locate", "restart"}
    QueueSize = 1
    ExpiryStatus = {200, 401}
    MaxRequests = 2
    MaxRetain = 1
    MaxFlip = 1
    MaxFail = 1
    MaxLost = 1
    MaxExpire = 1
    MaxLogin = 1
    MaxEvents = 2
INVARIANT NoSilentFailure
