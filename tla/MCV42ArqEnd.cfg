SPECIFICATION Spec
CONSTANTS
    M = 4
    RxCap = 2
    MaxRetries = 1
    Data = {d1}
    Windows = {1, 2, 3}
INVARIANTS
    TypeOK
    OutstandingKept
