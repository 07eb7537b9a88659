CONSTANTS
  Fns <- WidgetFns
  MaxLen = 5
  StopAtEnd = FALSE
SPECIFICATION Spec
INVARIANTS
  TypeOK
  SharedRefInvalidated
PROPERTIES
  LegalSequences
CHECK_DEADLOCK FALSE
