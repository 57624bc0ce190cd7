SPECIFICATION Spec
CONSTANTS
    c1 = c1
    c2 = c2
    c3 = c3
    Card = {c1, c2, c3}
    Agent = {"a"}
    Edges <- MCChain
PROPERTY
    AnnouncedIsReady
