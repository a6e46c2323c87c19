SPECIFICATION Spec
CONSTANTS
    Setups <- MCV32Pairs
    TimerCap = 200
    StreamCap = 26
    DeferredRxPackets = 16
    LegacyTone = 130
    LegacySilence = 4
    EchoCap = 3000
PROPERTIES
    TwoProcessesConnect
CHECK_DEADLOCK FALSE
