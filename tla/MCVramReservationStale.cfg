SPECIFICATION Spec
CONSTANTS
    a = a
    b = b
    c = c
    z = z
    Client <- MCTwo
    Vram <- MCVram2
    Total = 3
    KeepResident = {a, b}
    TtlEnabled = FALSE
    ProbeMayFail = FALSE
INVARIANT
    LoadsFit
