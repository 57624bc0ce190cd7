SPECIFICATION FairSpec
CONSTANTS
    j1 = j1
    j2 = j2
    w1 = w1
    w2 = w2
    Job = {j1, j2}
    Worker = {w1, w2}
    Resource = {"gpu"}
    Needs <- MCNeeds
    Urgency <- MCUrgency
    Accepts <- MCAccepts
    Default <- MCDefault
    Probed <- MCProbed
INVARIANTS
    OneExecutor
    YieldSticks
    ReclaimRestores
PROPERTIES
    StartsWithinLimit
    FinalIsFinal
    JobServed
