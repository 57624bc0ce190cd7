SPECIFICATION FairSpec
CONSTANTS
    a = a
    b = b
    Agent = {a, b}
    Transports <- MCTransports
    MaxHops = 1
    MaxMessages = 3
    MaxUser = 1
INVARIANTS
    OneTurn
    StreamingIsOwned
    HopCap
PROPERTIES
    HistoryStable
    QueueDrains
