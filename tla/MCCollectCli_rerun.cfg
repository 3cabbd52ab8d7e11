SPECIFICATION CommandSpec
CONSTANTS
  Sess <- MCSess
  Planned <- MCPlanned
  NoProc = NoProc
  None = None
  MaxLines = 2
  Owner = {cli1}
  Fragile = {cli1}
INVARIANT RerunRecords
