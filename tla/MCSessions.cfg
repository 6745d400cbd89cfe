CONSTANTS
    Clients = {c1}
    Requests = {r1, r2}
    Tokens = {t1, t2}
    None = None
    SessionExpires = 2
    UpdateAge = 1
    DontRememberAge = 1
    CacheAge = 1
    Configs <- MCConfigs
    Queries <- MCQueries
    MaxTime = 2
    Plans <- MCPlans
SPECIFICATION Spec
SYMMETRY Symmetry
INVARIANTS TypeOK SensitiveNeedsRow CacheMatchesToken
PROPERTIES CacheServesUntilRefresh RevokedStaysRevoked BriefNeverExtended DeferredGetsOnlyRead
