CONSTANT Streams <- MinusStreams
SPECIFICATION Spec
PROPERTY ImplementsExprEval
CHECK_DEADLOCK FALSE
