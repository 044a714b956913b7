SPECIFICATION Spec
CONSTANTS
    r1 = r1
    r2 = r2
    r3 = r3
    browser = browser
    Requests = {r1, r2, r3}
    Earlier = {r1}
    Clients = {browser}
    ClientOf <- OneBrowser
    NoOne = NoOne
    TTL = 5
    Lag = 2
    Retention = 5
    Batch = 1
    MaxClock = 6
PROPERTIES
    HistoryRetained
