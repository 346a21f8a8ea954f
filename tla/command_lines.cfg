SPECIFICATION BothSpec
CONSTANTS
    Names <- MCNames
    Typed <- MCTyped
    None = "none"
    Page = "page"
    Trimmed <- MCTrimmed
    PathOf <- MCPathOf
    MaxLate = 1
    Lines <- MCLines
    Odd = "odd"
    EnvToken = FALSE
    Launches <- MCLaunches
INVARIANTS ExitZeroIsTrue RunsTheCommand ServesAsConfigured OneStoreForAll
PROPERTIES DeleteIsConfirmed
