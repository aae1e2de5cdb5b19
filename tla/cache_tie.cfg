SPECIFICATION Spec
CONSTANTS
    MaxVersion = 2
    MaxTime = 2
    Coarse = TRUE
    MaxFailures = 0
    MaxCrashes = 0
INVARIANT LoadedCacheIsCurrent
