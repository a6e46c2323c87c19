SPECIFICATION Spec
CONSTANTS
    M = 4
    RxCap = 2
    MaxRetries = 1
    Local <- FullWindows
    Load <- OneWay
    Data = {0, 1, 2, 3, 4, 5}
    Established = TRUE
    LineCap = 2
    MaxLoss = 2
    Losable = {"XID", "SABME", "UA", "I", "RR", "RNR", "REJ"}
    Prompt = FALSE
CHECK_DEADLOCK FALSE
INVARIANTS
    TypeOK
    AckIsHonest
    NeverStranded
PROPERTIES
    OrderedForAns
