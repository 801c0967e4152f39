\* A network that loses, repeats, reorders and reflects frames.  High's store
\* fills and its lines disappear; Low's counter saturates, and Low is on wire v2.
CONSTANTS
    Low = Low
    High = High
    DH_SEND_EVERY = 2
    MAX_SKIP = 3
    MAX_SKIPPED_KEYS = 4
    COUNTER_MAX = 6
    VersionLow = 2
    VersionHigh = 3
    SendsLow = 7
    SendsHigh = 4
    WireVersion <- MCWireVersion
    MaxSends <- MCMaxSends
    Expiring = {High}
SPECIFICATION Spec
INVARIANTS
    StoreWithinLimits ReplayRefused KeysSealOnce ReadKeysErased LateFramesOpen
