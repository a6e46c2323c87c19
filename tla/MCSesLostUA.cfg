SPECIFICATION FairSpec
CONSTANTS
    M = 4
    RxCap = 2
    MaxRetries = 3
    Local <- EvenWindows
    Load <- Silent
    Data = {0, 1, 2, 3, 4, 5}
    Established = FALSE
    LineCap = 3
    MaxLoss = 1
    Losable = {"XID", "SABME", "UA", "I", "RR", "RNR", "REJ"}
    Prompt = TRUE
CHECK_DEADLOCK FALSE
PROPERTIES
    BothConnect
