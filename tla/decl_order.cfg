CONSTANTS
    Types <- MCTypes
    TypeGraphs <- MCTypeGraphs
    MaxDepth <- MCMaxDepth
SPECIFICATION Spec
INVARIANT DeclarationOrderIsValid
INVARIANT EachEntryOnce
CHECK_DEADLOCK FALSE
