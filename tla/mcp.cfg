SPECIFICATION McpFairSpec
CONSTANTS
    Names <- MCNames
    Typed <- MCTyped
    None = "none"
    Page = "page"
    Trimmed <- MCTrimmed
    PathOf <- MCPathOf
    MaxLate = 1
    Asked <- MCAsked
    Token = TRUE
    MaxMsgs = 3
INVARIANTS AnswersMatch CleanEnd
PROPERTIES ResultIsTrue EveryRequestAnswered
CHECK_DEADLOCK FALSE
