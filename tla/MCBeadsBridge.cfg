SPECIFICATION FairSpec
CONSTANTS
    c1 = c1
    c2 = c2
    c3 = c3
    Card = {c1, c2}
    Agent = {"a"}
    Edges <- MCEdges
INVARIANTS
    OneClaimPerAgent
    OpenIsClaimable
    NoLostExport
PROPERTY
    ExportCatchesUp
