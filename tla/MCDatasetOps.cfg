SPECIFICATION Spec
CONSTANTS
    Recorded <- MCRecorded
    Prepared = {"p"}
    Requests <- MCRequests
    Names = {"a", "c"}
    MaxJob = 1
    MaxDelete = 1
    MaxCollection = 2
    MaxMeddle = 1
    MaxCrash = 1
INVARIANTS
    PublishedFaithful
    ArchivedTogether
    OnlyHandsDisturb
PROPERTIES
    JobsTidyUp
CHECK_DEADLOCK FALSE
