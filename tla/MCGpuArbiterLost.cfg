SPECIFICATION Spec
CONSTANTS
    a = a
    b = b
    c = c
    Client <- MCTasks
    Vram <- MCVramEqual
    Pri <- MCPriEqual
    Total = 2
    Leased = {b}
    MaxQueue = 3
    EvictionEnabled = TRUE
    TtlEnabled = FALSE
    AdmissionMayFail = TRUE
    ProbeMayFail = FALSE
    MayStop = FALSE
PROPERTY
    RetriedLater
