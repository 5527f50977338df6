SPECIFICATION Spec
CONSTANTS
  Subject = {s1, s2}
  Error = {e1}
  Reporter = {p1, p2}
  Worker = {w1, w2}
  Way = {"advance", "fix"}
  MaxCycle = 2
  MaxBeads = 5
  MaxReports = 3
  MaxLeases = 4
  None = None
INVARIANTS
  AnalysisLeavesTrace
  RecurrencesChain
  OneOpenRoot
  AnswerIsCurrent
  EscalatesAfterEveryCycle
CONSTRAINT Scenes
CHECK_DEADLOCK FALSE
SYMMETRY Names
