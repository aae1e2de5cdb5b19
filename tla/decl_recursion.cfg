CONSTANTS
    Types <- MCTypes
    TypeGraphs <- MCTypeGraphs
    MaxDepth <- MCMaxDepth
SPECIFICATION Spec
PROPERTY DeforderReturns
CHECK_DEADLOCK FALSE
