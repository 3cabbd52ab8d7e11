SPECIFICATION FairSpec
CONSTANTS
  File = {info, old, new}
  Meta = info
  Created = {new}
  Removed = {info, old}
  Gone = Gone
  Partial = Partial
  NoTree = NoTree
  NoManifest = NoManifest
  MaxEdits = 2
  MaxFaults = 3
INVARIANTS
  SyncedIsTrue
  PublishedIsSnapshot
PROPERTIES
  PublishedStays
  RetriesSettle
