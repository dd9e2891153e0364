SPECIFICATION FairSpec
CONSTANTS
    Tokens <- MCTokens
    Tabs = {t1}
    Lines = {1, 2}
    MaxMishaps = 2
    None = None
INVARIANTS
    TypeOK
    LineageSurvives
    NoTabReplaysItsOwn
PROPERTIES
    EndedSessionsStayEnded
    CallsEnd
