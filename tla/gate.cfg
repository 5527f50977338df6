SPECIFICATION Spec
CONSTANTS
  claude = claude
  forge = forge
  alex = alex
  judged = judged
  check = check
  b1 = b1
  c1 = c1
  c2 = c2
  None = None
  Unread = Unread
  Bead <- MCBead
  Agent <- MCAgent
  Person <- MCPerson
  Call <- MCCall
  Verifier = {alex, forge}
  SelfReporting = {claude}
  AttestedGate = {judged}
  CheckedGate = {check}
  KindOf <- KindRca
  Capable <- AnyAgent
  Filing <- FilingsGate
  Verb <- GateVerbs
  MaxAttempt = 1
SYMMETRY CallSymmetry
PROPERTIES GateIsPinned DoneIsEarned
