SPECIFICATION Spec
CONSTANTS
    Probers = {p1, p2}
    MaxAttempts = 8
INVARIANTS
    VerdictEarned
PROPERTIES
    EveryProbeAnswered
    RedisUsedAgain
    ShutdownEnds
