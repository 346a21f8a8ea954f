SPECIFICATION BothSpec
CONSTANTS
    Names <- Kinds
    DirWords <- NoWords
    ProjectNames = {"a", "b"}
    Writers = {"server", "command"}
    Times <- MCTimes
    DefaultLimit = 2
    MaxEntries = 3
INVARIANTS
    BlameIsRight
    NamesAreSafe
    ListedInOrder
    AuditIsNewestFirst
