\* Three texts, a queue of two, one link with either of two onions, two crashes or failed
\* saves, one posture change.
CONSTANTS
    Messages = {1, 2, 3}
    Onions = {a, b}
    Home = a
    NoOnion = NoOnion
    MaxLinks = 1
    MAX_PENDING_FRAMES = 2
    MaxSwitches = 1
    MaxMishaps = 2
SPECIFICATION FairSpec
INVARIANTS
    CommitBeforeWire NoNeedlessResend
PROPERTIES
    NothingSentToDeleted HeldResolved KeepsPromise
