SPECIFICATION Spec
CONSTANTS
  StepName = {pay}
  Caller = {dana, bot}
  Humans = {dana}
  Build = {"old", "new"}
  MaxVersion = 3
INVARIANTS
  NumberIssuedOnce
  HumanWordStands
  ServiceKeepsHumanSteps
PROPERTY VersionsForward
CHECK_DEADLOCK FALSE
