CONSTANTS
  Fns <- SearchFns
  MaxLen = 3
  Modes <- AllModes
  DeepBudgets <- Budgets
SPECIFICATION Spec
INVARIANTS BfsClosed ReverseFixpoint ReverseAccepted
CHECK_DEADLOCK FALSE
