SPECIFICATION Spec
CONSTANTS
    i1 = i1
    p1 = p1
    p2 = p2
    a1 = a1
    r1 = r1
    r2 = r2
    x0 = x0
    x1 = x1
    x2 = x2
    Invite = {i1}
    Redeemer = {p1, p2}
    Link <- MCLink
    Admin = {a1}
    Request = {r1, r2}
    Identity = {x0, x1, x2}
    Agents <- MCAgents
    Handles <- MCHandles
    Claims = {"h"}
    Kinds <- MCKinds
    Lifecycle <- MCLifecycle
SYMMETRY MCSymmetry
INVARIANTS
    HandleUnique
    AcceptedIsUsable
    InviteSingleUse
    ClaimIsTemporary
    NoOrphanIdentity
