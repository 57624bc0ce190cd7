SPECIFICATION FairSpec
CONSTANTS
    a = a
    b = b
    c = c
    Client <- MCTasks
    Vram <- MCVram
    Pri <- MCPri
    Total = 3
    Leased = {b}
    MaxQueue = 3
    EvictionEnabled = TRUE
    TtlEnabled = FALSE
    AdmissionMayFail = FALSE
    ProbeMayFail = FALSE
    MayStop = FALSE
INVARIANTS
    NoOvercommit
    NoLostWaiter
PROPERTIES
    WaiterServed
