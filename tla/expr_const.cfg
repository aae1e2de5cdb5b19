CONSTANT Streams <- ConstStreams
SPECIFICATION Spec
PROPERTY ImplementsExprEval
CHECK_DEADLOCK FALSE
