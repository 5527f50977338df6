SPECIFICATION Spec
CONSTANTS
  claude = claude
  forge = forge
  alex = alex
  judged = judged
  check = check
  b1 = b1
  c1 = c1
  c2 = c2
  None = None
  Unread = Unread
  Bead <- MCBead
  Agent <- MCAgent
  Person <- MCPerson
  Call <- MCCall
  Verifier = {alex}
  SelfReporting = {claude}
  AttestedGate = {judged}
  CheckedGate = {check}
  KindOf <- KindAgent
  Capable <- AnyAgent
  Filing <- FilingsLease
  Verb <- ReapRaceVerbs
  MaxAttempt = 2
PROPERTY ReapSparesLiveAndClosed
