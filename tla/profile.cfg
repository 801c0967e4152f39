\* Two readings of the clock, one past the tolerance of the other; four saves; two mishaps.
CONSTANTS
    Times = {0, 3}
    CLOCK_MARK_STEP_SECS = 2
    CLOCK_ROLLBACK_TOLERANCE_SECS = 1
    Settings = {off, on}
    Off = off
    Binaries = {b1, b2}
    None = None
    OldVersions = {1, 10, 12}
    MaxSaves = 4
    MaxMishaps = 2
SPECIFICATION ProfileSpec
SYMMETRY AnyBinary
PROPERTIES
    OlderCopyWarned ChangesWarned 
