\* One contact; lock timeouts of one and two ticks, or off; lines stay one tick, or for ever.
CONSTANTS
    Contacts = {"c"}
    Timeouts = {0, 1, 2}
    Ttls = {0, 1}
    DEFAULT_LOCK_TIMEOUT = 2
    EXTREME_LOCK_TIMEOUT = 1
    EXTREME_TTL = 1
    MaxIdle = 2
    MaxProfiles = 2
    MaxMishaps = 1
SPECIFICATION Spec
INVARIANTS
    NothingLeft TypedForThisScreen DrawnIsCurrent
PROPERTIES
    ProfileNotReplaced
