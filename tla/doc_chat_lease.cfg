SPECIFICATION MCSpec
CONSTANTS
  part = {"chat"}
  Answerer = {sweep, web}
  Sweeper = {sweep}
  Filed <- OfAnAgent
  TTL = 3
  Default = 2
  Retries = 1
  MaxPost = 2
  MaxDeath = 2
  Floor <- MCFloor
  Timeout = 5
  Quiet = 3
  Grace = 1
  Drain = 1
  Backoff = 1
  ApiRetries = 1
  None = None
  Def <- MCDef
  Every <- MCEvery
  CatchUp <- CatchUpAll
  Seed <- Declared
  Cycle = {c1, c2}
  MaxTime = 5
  MaxCrash = 1
INVARIANT OneAnswerer
CHECK_DEADLOCK FALSE
