SPECIFICATION Spec
CONSTANTS
  Procedure <- MCProcedure
  StepsOf <- TwoSteps
  Runnable = {"ship"}
  Filable = {"ship", "release", "notes"}
  MaxDepth = 3
  MaxBead = 3
  MaxAttempt = 1
  Call = {c1}
  Outcome = {"done"}
  Verb = {"complete"}
  None = None
INVARIANT ParentHeldOpen
CHECK_DEADLOCK FALSE
