SPECIFICATION Spec
CONSTANTS
    r1 = r1
    r2 = r2
    r3 = r3
    k1 = k1
    k2 = k2
    Requests = {r1, r2}
    Keys = {k1}
    NoOne = NoOne
    KindOf <- AllRpc
    Cooldown = 1
    Capacity = 1
    Enrichments <- CutEnrichments
    ChairAnswers <- RpcChair
    UtxoAnswers <- NoUtxo
    Blocks = {1, 2}
    FullTTL = 3
    DegradedTTL = 2
    PendingTTL = 0
    MaxClock = 3
    MaxRestarts = 0
PROPERTIES
    CompleteKept
