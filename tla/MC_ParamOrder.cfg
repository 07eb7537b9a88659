CONSTANTS
  Fns <- ParamOrderFns
  MaxLen = 5
  StopAtEnd = FALSE
SPECIFICATION Spec
PROPERTIES
  LegalSequences
CHECK_DEADLOCK FALSE
