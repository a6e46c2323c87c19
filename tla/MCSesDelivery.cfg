SPECIFICATION FairSpec
CONSTANTS
    M = 4
    RxCap = 4
    MaxRetries = 3
    Local <- MixedWindows
    Load <- BothWays
    Data = {0, 1, 2, 3, 4}
    Established = FALSE
    LineCap = 2
    MaxLoss = 3
    Losable = {"XID", "SABME", "I", "RR", "RNR", "REJ"}
    Prompt = TRUE
CHECK_DEADLOCK FALSE
INVARIANTS
    WindowsAgree
    NeverGivesUp
PROPERTIES
    BothConnect
    EverythingArrives
