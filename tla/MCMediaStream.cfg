SPECIFICATION FairSpec
CONSTANTS
    SeqMod = 16
    Slots = 4
    StartAt = 2
    GapTicks = 3
    Data = {0,1,2,3,4,5,6}
    Base = 13
    MaxSent = 7
    MaxLate = 2
    MaxFlight = 3
    MaxDup = 1
    MaxLead = 2
    MaxLag = 1
    MaxOver = 2
INVARIANTS
    MediaTypeOK
    QueuedIsHeld
PROPERTIES
    PlaysInOrder
    WaitingMediaIsKept
    GapIsLoss
    HeldMediaIsReached
