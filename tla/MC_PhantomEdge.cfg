CONSTANTS
  Fns <- WidgetFns
  MaxLen = 5
  StopAtEnd = FALSE
SPECIFICATION Spec
INVARIANTS
  CoveredEdgesExercised
CHECK_DEADLOCK FALSE
