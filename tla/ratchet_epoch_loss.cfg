\* One peer sends, runs of frames get lost.
CONSTANTS
    Low = Low
    High = High
    DH_SEND_EVERY = 2
    MAX_SKIP = 6
    MAX_SKIPPED_KEYS = 7
    COUNTER_MAX = 100
    VersionLow = 3
    VersionHigh = 3
    SendsLow = 6
    SendsHigh = 1
    WireVersion <- MCWireVersion
    MaxSends <- MCMaxSends
    Expiring = {}
SPECIFICATION Spec
INVARIANT
    LostRunsRecovered
