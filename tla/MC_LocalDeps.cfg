CONSTANTS
  NumLocals = 3
  ArgCount = 1
  NumConsts = 1
  Step = Step
  Caller = Caller
  FnPtr = FnPtr
  Callees <- BodyCallees
  TestCrate <- BodyCallees
  NonFnCallees = {}
  MaxAssigns = 3
  MaxCalls = 2
SPECIFICATION Spec
INVARIANTS TypeOK PropagateClosed
CHECK_DEADLOCK FALSE
