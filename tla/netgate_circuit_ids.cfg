\* The same Tors, with circuit numbers that are 250 or begin with a 5.
CONSTANTS
    A = A
    B = B
    Fingerprints = {A, B}
    NoFingerprint = NoFingerprint
    BadFingerprint = BadFingerprint
    Ids = {"plain", "250", "5"}
    Tors <- MCTors
    Envs <- MCEnvs
    BRIDGE_CHECK_OK = 2
    BRIDGE_CHECK_FAIL = 1
    MaxPending = 2
    MaxMishaps = 1
SPECIFICATION Spec
INVARIANT
    ActiveIsBridged
