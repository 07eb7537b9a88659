CONSTANTS
  Fns <- WalkFns
  MaxLen = 3
  MaxSize = 1
  StopAtEnd = FALSE
SPECIFICATION Spec
INVARIANTS TypeOK
PROPERTIES Terminates
CHECK_DEADLOCK FALSE
