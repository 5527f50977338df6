SPECIFICATION Spec
CONSTANTS
  Procedure <- MCProcedure
  StepsOf <- MCSteps
  Runnable = {"ship", "release", "wrap"}
  Filable = {"ship", "release", "wrap", "deep", "notes"}
  MaxDepth = 2
  MaxBead = 4
  MaxAttempt = 2
  Call = {c1}
  Outcome = {"done", "awaiting_verify", "verify_failed", "failed"}
  Verb = {"complete", "approve", "retry", "reap", "cancel", "pin", "refuse", "crash"}
  None = None
INVARIANTS WorkInOrder FinishedIsClosed
CONSTRAINT Scenes
CHECK_DEADLOCK FALSE
