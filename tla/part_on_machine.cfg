SPECIFICATION MachineSpec
CONSTANTS
  SINGLE_THREAD = "one"
  confirmation_deadline = 3
  poll_interval = 2
  Directory <- MCDirectory
  Tables <- MCTables
  MEMORY_BACKED_FILESYSTEMS = {"tmpfs", "ramfs", "devtmpfs"}
  Specs <- MCSpecs
  ByteCount <- MCByteCount
  ObjectSpecs = {"objects"}
  MaxUpdates = 2
  MaxRemovals = 1
  Writers = {"part", "another", "recorder"}
  Part = "part"
  Recorder = "recorder"
  busy_timeout = 1
  MaxClock = 1
  MaxRows = 3
  interval = 3
  Blocks = {1, 2}
  MaxFailures = 1
INVARIANTS MachineTypeOK ForkedFromSeveralByChoice ReturnedIsInItsScope NotConfirmedOnlyIfJustLanded
  NeverReadAsAnother RefusedForAReason ReseedIsReported CurrentIsLastRecorded
  UnreleasedBounded HandedBackIsOnDisk
PROPERTIES AcceptedIsOnDisk WindowsGrowAtTheEnd
