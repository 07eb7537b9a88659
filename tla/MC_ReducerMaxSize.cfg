CONSTANTS
  Inputs <- AllLists
  NumDeps = 1
  MaxSize = 1
  StopFlags = {TRUE}
INIT Init
NEXT Next
INVARIANTS AtMostMaxSize
CHECK_DEADLOCK FALSE
