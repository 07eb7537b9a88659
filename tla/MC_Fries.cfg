CONSTANTS
  Fns <- FriesFns
  MaxNum = 3
  MaxLen = 3
  MaxSize = 3
  MaxTestFiles = 300
SPECIFICATION PipelineSpec
INVARIANTS TypeOK HarnessesExact
PROPERTIES Written
CHECK_DEADLOCK FALSE
