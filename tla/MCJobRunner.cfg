SPECIFICATION FairSpec
CONSTANTS
  Job = {"train1", "norm1", "merge1"}
  KindOf <- MCKindOf
  On <- MCOn
  NoJob = NoJob
  NoCode = NoCode
INVARIANTS
  RecordedJobsExclude
  LedgerIsTrue
PROPERTIES
  OutcomeStays
  EndIsSeen
