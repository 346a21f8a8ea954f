SPECIFICATION Spec
CONSTANTS
    t1 = t1
    p1 = p1
    p2 = p2
    c1 = c1
    c2 = c2
    Unknown = Unknown
    Tokens <- OneToken
    Clients <- TwoClients
    Admins <- TwoAdmins
    MaxTime = 3
    Failures = TRUE
SYMMETRY Symmetry
INVARIANTS
    RevokedIsDenied
PROPERTIES
    DeniedLeavesNoUse
