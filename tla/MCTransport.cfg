\* Two sends, one permit.
SPECIFICATION FairSpec
CONSTANTS
    Sends = {s1, s2}
    MaxConnections = 1
    Configs <- TestConfigs
CHECK_DEADLOCK FALSE
INVARIANTS
    PermitsBalance
    RetryBudget
    UnsafeMethodSentOnce
    OneConnectionPerSend
    HistoryMatchesAttempts
    ExhaustionIsHonest
PROPERTY SendEnds
