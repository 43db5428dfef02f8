SPECIFICATION FrontDoor
CONSTANTS
    Keys = {k1, k2, k3}
    Requests = 2
    Window = 2
    MaxKeys = 2
    PerSecond = 2
    MaxNow = 6
    Never = Never
    c1 = c1
    c2 = c2
    w1 = w1
    Req <- MCReq
    Chats <- MCChats
    Slots = 1
    Maximum = 2
    SmallMaximum = 1
    MaxBody = 3
INVARIANTS
    SlidingWindow
    RetryAfterSuffices
    SlotsConserved
    BuffersBounded
PROPERTIES
    SlowBodyFreesSlot
