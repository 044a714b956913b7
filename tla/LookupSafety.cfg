SPECIFICATION Spec
CONSTANTS
    r1 = r1
    r2 = r2
    r3 = r3
    k1 = k1
    k2 = k2
    Requests = {r1, r2, r3}
    Keys = {k1}
    NoOne = NoOne
    KindOf <- AllDual
    Cooldown = 2
    Capacity = 1
    Enrichments <- DualEnrichments
    ChairAnswers <- DualChair
    UtxoAnswers <- NoUtxo
    Blocks = {1, 2}
    FullTTL = 3
    DegradedTTL = 1
    PendingTTL = 0
    MaxClock = 3
    MaxRestarts = 1
SYMMETRY Symmetry
INVARIANTS
    TypeOK
    OneExecutionPerKey
    NobodyWaitsInVain
    RefreshSpacing
    CooldownEarned
PROPERTIES
    ReceiptKept
