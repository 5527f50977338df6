SPECIFICATION MCSpec
CONSTANTS
  part = {"pass"}
  d1 = d1
  d2 = d2
  cycle1 = cycle1
  cycle2 = cycle2
  Own = 2
  Base = 4
  Cap = 8
  Factor = 2
  Outage = {6, 9}
  Rest = 5
  MaxOutage = 2
  MaxTime = 22
  Never = Never
  Bead = {b1}
  Cycler = {c1, c2}
  Worker = {}
  Form <- JustBuiltin
  Limit = 1
  MaxTrouble = 1
  MaxRest = 0
  None = None
PROPERTY SupersededNeverFails
CHECK_DEADLOCK FALSE
