SPECIFICATION CommandFairSpec
CONSTANTS
  Sess <- MCSess
  Planned <- MCPlanned
  NoProc = NoProc
  None = None
  MaxLines = 2
  Owner = {cli1, cli2}
  Fragile = {cli1}
INVARIANT PlanOrder
PROPERTIES
  InterruptEnds
  SoundUnlessStale
