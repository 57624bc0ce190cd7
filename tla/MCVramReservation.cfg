SPECIFICATION FairSpec
CONSTANTS
    a = a
    b = b
    c = c
    z = z
    Client <- MCClient
    Vram <- MCVram
    Total = 3
    KeepResident = {a}
    TtlEnabled = TRUE
    ProbeMayFail = TRUE
INVARIANTS
    LedgerExact
    NoOvercommit
PROPERTIES
    LedgerSpec
    ReserveAnswered
