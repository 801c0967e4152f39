\* Peers that take turns, in-order delivery.
CONSTANTS
    Low = Low
    High = High
    DH_SEND_EVERY = 2
    MAX_SKIP = 3
    MAX_SKIPPED_KEYS = 7
    COUNTER_MAX = 100
    VersionLow = 3
    VersionHigh = 3
    SendsLow = 7
    SendsHigh = 7
    WireVersion <- MCWireVersion
    MaxSends <- MCMaxSends
    Expiring = {}
SPECIFICATION TurnSpec
INVARIANTS NextFrameOpens
PROPERTIES
    EverythingRead
CHECK_DEADLOCK FALSE
