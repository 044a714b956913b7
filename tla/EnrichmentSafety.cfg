SPECIFICATION Spec
CONSTANTS
    l1 = l1
    l2 = l2
    ta = ta
    tb = tb
    tc = tc
    Lookups = {l1, l2}
    Tokens = {ta, tb}
    NoOne = NoOne
    Mentions <- Overlapping
    BatchSize = 1
    Receipts = {"success"}
    Sightings = {"none", "pool", "zero", "mined"}
    Fetchable = {"full", "failed"}
    MaxEntries = 1
    FullLife = 1
    ShortLife = 1
    MaxClock = 0
    Blocks = {1}
    FullTTL = 3
    DegradedTTL = 1
    PendingTTL = 0
INVARIANTS
    TypeOK
    KeepsWhatItHad
    WholeMetadata
PROPERTIES
    ResultFrozen
    NoNewWork
