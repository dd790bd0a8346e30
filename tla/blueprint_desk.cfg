SPECIFICATION DeskSpec
CONSTANTS
  HandParts <- MCHandParts
  FilesOnDisk <- MCFilesOnDisk
  MaxChanges <- MCMaxChanges
  NameHits <- MCNameHits
\* A closed tab and an edit killed while writing leave nothing to do.
CHECK_DEADLOCK FALSE
INVARIANTS
  DeskTypeOK
  SteadyPageAgrees
PROPERTIES
  LaterEditUndoneOnlyByItsRow
  PartLostOnlyToStaleRead
  BreachCommittedOnlyUnseen
  BoardCatchesUp
