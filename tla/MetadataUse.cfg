SPECIFICATION HistorySpec
CONSTANTS
    c1 = c1
    c2 = c2
    c3 = c3
    c4 = c4
    ta = ta
    tb = tb
    tc = tc
    Calls = {c1, c2, c3, c4}
    Tokens = {ta, tb, tc}
    NoOne = NoOne
    TokenOf <- Wanted
    MaxEntries = 2
    FullLife = 2
    ShortLife = 1
    MaxClock = 2
INVARIANTS
    CacheSound
PROPERTIES
    EvictsLeastRecent
    SharesFetches
