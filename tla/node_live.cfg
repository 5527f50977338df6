SPECIFICATION NodeSpec
CONSTANTS
  part = {"hub", "pulls", "tree", "cycle"}
  p1 = p1
  Item <- MCItem
  Gate <- MCGate
  Puller = {p1, p2}
  Reporter = {r1}
  Limit = 2
  MaxAttempt = 2
  MaxFault = 1
  None = None
  k1 = k1
  b1 = b1
  b2 = b2
  cycler = cycler
INVARIANTS
  ReceiptMeansHeard
  MirroredOnce
PROPERTIES
  HeardUnlessRefusedBefore
  RunCloses
  
CHECK_DEADLOCK FALSE
