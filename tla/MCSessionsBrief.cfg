CONSTANTS
    Clients = {c1}
    Requests = {r1}
    Tokens = {t1, t2}
    None = None
    SessionExpires = 2
    UpdateAge = 1
    DontRememberAge = 1
    CacheAge = 1
    Configs <- MCConfigs
    Queries <- MCQueries
    MaxTime = 3
    Plans <- ShortPlans
SPECIFICATION Spec
SYMMETRY Symmetry
INVARIANTS BriefSessionKept
