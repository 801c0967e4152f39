\* Two queued frames; no circuit number is 250 or begins with a 5.
CONSTANTS
    A = A
    B = B
    Fingerprints = {A, B}
    NoFingerprint = NoFingerprint
    BadFingerprint = BadFingerprint
    Ids = {"plain"}
    Tors <- MCTors
    Envs <- MCEnvs
    BRIDGE_CHECK_OK = 2
    BRIDGE_CHECK_FAIL = 1
    MaxPending = 2
    MaxMishaps = 1
SPECIFICATION FairSpec
INVARIANTS
    ActiveIsBridged SendsGated NoOrphanOnion
PROPERTIES
    OnionWithdrawn
