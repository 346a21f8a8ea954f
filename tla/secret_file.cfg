SPECIFICATION BothSpec
CONSTANTS
    w1 = w1
    w2 = w2
    w3 = w3
    NoPw = NoPw
    Torn = Torn
    Passwords <- ThreePasswords
    Faults <- AllFaults
    N = 8
    Bytes <- TenBytes
INVARIANTS
    NeverTorn
    TempIsGone
    WrittenIsDurable
    EveryClassPresent
PROPERTIES
    ImplementsAtomicFile
CHECK_DEADLOCK FALSE
