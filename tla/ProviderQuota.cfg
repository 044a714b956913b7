SPECIFICATION Spec
CONSTANTS
    Blocks = {1, 2}
    FullTTL = 3
    DegradedTTL = 1
    PendingTTL = 0
    BlockIds <- SomeBlockIds
    MaxHeight = 8
INVARIANTS
    QuotaStaysQuota
CHECK_DEADLOCK FALSE
