SPECIFICATION FairSpec
CONSTANTS
  Sess <- MCSess
  Planned <- MCPlanned
  Owner = {"service", "orphan"}
  NoProc = NoProc
  None = None
  MaxLines = 3
  Deaths = {"power"}
INVARIANTS
  LedgerSound
  ArmsKeptWhileRecording
  FinishedIsTrue
PROPERTY StopEnds
