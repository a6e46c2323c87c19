SPECIFICATION Spec
CONSTANTS
    Setups <- MCSetups
    TimerCap = 200
    StreamCap = 26
    DeferredRxPackets = 16
    LegacyTone = 130
    LegacySilence = 4
    EchoCap = 3000
INVARIANTS
    TypeOK SameFamily ModesMirror RoundTripMeasured RatesAgree WorkableNeverFails OnlySilenceWaits ReportedRateIsUsed
PROPERTIES
    Ordered BothConnect ConnectIsMutual RetrainRecovers EverythingArrives
CHECK_DEADLOCK FALSE
