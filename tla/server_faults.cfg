SPECIFICATION FairSpec
CONSTANTS
    a = a
    b = b
    i1 = i1
    i2 = i2
    p1 = p1
    p2 = p2
    p3 = p3
    w1 = w1
    w2 = w2
    w3 = w3
    NoPw = NoPw
    NoName = NoName
    NoProc = NoProc
    Names <- OneName
    Ids <- OneId
    SafeOf <- Separate
    Procs <- TwoProcs
    Passwords <- TwoPasswords
    Faults <- ServerFaults
PROPERTIES
    EveryRequestEnds
INVARIANTS
 ReadyIsUsable
 ChangesAreAudited
