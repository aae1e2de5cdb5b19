SPECIFICATION Spec
CONSTANTS
    MaxVersion = 2
    MaxTime = 1
    Coarse = FALSE
    MaxFailures = 1
    MaxCrashes = 1
INVARIANT LoadedCacheIsComplete
