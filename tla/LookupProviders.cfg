SPECIFICATION Spec
CONSTANTS
    r1 = r1
    r2 = r2
    r3 = r3
    k1 = k1
    k2 = k2
    Requests = {r1, r2}
    Keys = {k1, k2}
    NoOne = NoOne
    KindOf <- Mixed
    Cooldown = 1
    Capacity = 1
    Enrichments <- RpcEnrichments
    ChairAnswers <- RpcChair
    UtxoAnswers <- FewUtxo
    Blocks = {1, 2}
    FullTTL = 2
    DegradedTTL = 1
    PendingTTL = 0
    MaxClock = 2
    MaxRestarts = 1
INVARIANTS
    CooldownsBounded
    CacheQuality
    RefreshBypassesCache
    CachedAnswersTrusted
PROPERTIES
    SharesFlights
    EveryCallAnswered
