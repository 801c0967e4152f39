\* Limit 2, switch of 2 days, clock up to a day early, two mishaps.
CONSTANTS
    FailLimits = {2}
    DeadmanDays = {2}
    FAIL_THRESHOLD = 2
    MaxTime = 3
    MaxBack = 1
    MaxMishaps = 2
SPECIFICATION Spec
INVARIANTS
    GuessesLimited
PROPERTIES
    GuardsOutliveProfile LimitWipesAreEarned DeadmanNotEarly
