SPECIFICATION StreamSpec
CONSTANTS
    SeqMod = 16
    Slots = 8
    StartAt = 2
    GapTicks = 3
    Data = {0,1,2,3,4,5,6}
    Base = 13
    MaxSent = 7
    MaxLate = 0
    MaxFlight = 1
    MaxDup = 1
    MaxLead = 1
    MaxLag = 1
    MaxOver = 2
PROPERTIES
    FutureMediaProvesGap
