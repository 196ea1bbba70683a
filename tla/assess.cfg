SPECIFICATION FairSpec
CONSTANTS
    NumCriteria = 2
    HighStakes = {1}
    Concurrencies = {0, 2}
    Policies = {"all_cheap", "all_strong", "routed"}
    TokenCeiling = 4
    RouterCap = 2
    GuardCap = 1
    MaxTokens = 2
    CallTokens = {1, 2}
    MaxUnsaid = 2
    MaxSideCalls = 1
INVARIANTS
    TypeOK
    CeilingOvershoot
    BooksAgree
    PaidIsCounted
    AloneCapHolds
PROPERTIES
    AssessEnds
CHECK_DEADLOCK FALSE
