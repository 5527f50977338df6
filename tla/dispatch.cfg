SPECIFICATION MCSpec
CONSTANTS
  part = {"pass", "verify", "desk", "watch"}
  d1 = d1
  d2 = d2
  cycle1 = cycle1
  cycle2 = cycle2
  Own = 2
  Base = 4
  Cap = 8
  Factor = 2
  Outage = {6, 9}
  Rest = 5
  MaxOutage = 2
  MaxTime = 22
  Never = Never
  Bead = {b1, b2}
  Cycler = {c1}
  Worker = {w1}
  Form <- Mixed
  Limit = 1
  MaxTrouble = 1
  MaxRest = 0
  None = None
SYMMETRY Names
INVARIANTS
  EveryFailureIsAnalysed
  OnlyApprovedRuns
  NoFalseAlarm
  WedgedIsReported
PROPERTIES
  RoutingIsNotFailure
  DeskOversleepsNothing
CHECK_DEADLOCK FALSE
