SPECIFICATION Spec
CONSTANTS
    a = a
    b = b
    c = c
    Client <- MCTasks
    Vram <- MCVram
    Pri <- MCPri
    Total = 2
    Leased = {b}
    MaxQueue = 1
    EvictionEnabled = TRUE
    TtlEnabled = TRUE
    AdmissionMayFail = TRUE
    ProbeMayFail = TRUE
    MayStop = TRUE
INVARIANTS
    NoOvercommit
    ReservationsMatchRuns
    NoLeaseLeak
    RefusedNeverRuns
PROPERTY
    LostOnlyByCuts
