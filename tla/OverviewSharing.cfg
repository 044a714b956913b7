SPECIFICATION Spec
CONSTANTS
    c1 = c1
    c2 = c2
    bitcoin = bitcoin
    ethereum = ethereum
    price = price
    Networks = {bitcoin, ethereum}
    Fields = {price}
    Clients = {c1, c2}
    Replies <- ThreeReplies
    Fresh = 1
    MaxAge = 2
    Pause = 2
    QuotaPause = 3
    MaxClock = 4
INVARIANTS
    HonestAges
PROPERTIES
    FailuresKeepValues
    ProviderSpared
    EveryPollAnswered
