SPECIFICATION Spec
CONSTANTS
    l1 = l1
    l2 = l2
    ta = ta
    tb = tb
    tc = tc
    Lookups = {l1}
    Tokens = {ta, tb, tc}
    NoOne = NoOne
    Mentions <- Broad
    BatchSize = 2
    Receipts = {"success", "reverted", "statusless"}
    Sightings = {"none", "pool", "zero", "mined"}
    Fetchable = {"full", "symbol", "failed"}
    MaxEntries = 1
    FullLife = 1
    ShortLife = 1
    MaxClock = 2
    Blocks = {1}
    FullTTL = 3
    DegradedTTL = 1
    PendingTTL = 0
INVARIANTS
    ResultsWellFormed
PROPERTIES
    EveryRunEnds
