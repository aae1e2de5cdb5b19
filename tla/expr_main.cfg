CONSTANT Streams <- MainCfiStreams
SPECIFICATION Spec
INVARIANT TypeOK
INVARIANT CfaRuleIsRegisterPlusOffset
INVARIANT EncodeInvertsDecode
PROPERTY ImplementsExprEval
CHECK_DEADLOCK FALSE
