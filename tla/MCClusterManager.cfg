SPECIFICATION FairSpec
CONSTANTS
    w1 = w1
    g1 = g1
    l1 = l1
    l2 = l2
    Worker = {w1}
    Resource = {g1}
    Lease = {l1, l2}
    Host <- MCHost
    On <- MCOn
    OfArbiter = {l1}
    Persistent = TRUE
INVARIANTS
    NoOrphanLease
    OfflineReleased
    RegistryDurable
PROPERTIES
    DrainCompletes
    SilentLeavesRouting
    OrphanTaskEnds
    FenceReleases
    LeaseTableSpec
