CONSTANTS
    Dies <- MCDies
    Tables <- MCTables
SPECIFICATION Spec
INVARIANT TypeOK
INVARIANT InnerStoredBeforeOuter
INVARIANT StoredTypesAreCanonical
PROPERTY MergedTypesAreEquivalent
PROPERTY CopiesAreMerged
CHECK_DEADLOCK FALSE
