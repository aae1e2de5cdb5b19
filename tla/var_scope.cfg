SPECIFICATION SSpec
CONSTANTS
    MaxVersion = 3
    MaxTime = 2
    Coarse = FALSE
    MaxFailures = 2
    MaxCrashes = 2
    Addrs <- MCAddrs
    InsnTable <- MCInsnTable
INVARIANT VarExpressionOnlyInScope
