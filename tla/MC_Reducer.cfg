CONSTANTS
  Inputs <- AllLists
  NumDeps = 1
  MaxSize = 2
  StopFlags = {TRUE, FALSE}
INIT Init
NEXT Next
INVARIANTS TypeOK
INVARIANTS CoverageOnReturn
PROPERTIES GreedyChoice
CHECK_DEADLOCK FALSE
