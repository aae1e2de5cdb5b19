SPECIFICATION SSpec
CONSTANTS
    MaxVersion = 3
    MaxTime = 2
    Coarse = FALSE
    MaxFailures = 2
    MaxCrashes = 2
    Addrs <- MCAddrs
    InsnTable <- MCInsnTable
INVARIANT TypeOK
INVARIANT LoadedCacheIsCurrent
INVARIANT InsnKindMatchesSessionCache
INVARIANT VarMergeKeepsAddresses
INVARIANT VarOptimizedOutAnswersNone
INVARIANT VarLookupFindsVisible
INVARIANT VarExpressionAtTranslatedAddress
INVARIANT SourceLocationRoundTrip
INVARIANT SourceShortNamesRoundTrip
INVARIANT VarFrameBaseInsideFunction
INVARIANT LineAnswersPerProgram
INVARIANT FuncToAddrResolves
INVARIANT GetAddrResolves
INVARIANT CStripAgreesWithLexer
INVARIANT CLineCountKept
INVARIANT CToIdentifierIsIdentifier
INVARIANT CfaOfEveryInstructionHolds
INVARIANT VarFramepointersAgree
INVARIANT InsnKindOfLastMappingSymbol
