SPECIFICATION Spec
CONSTANTS
    MaxFaults = 1
    MaxInvocations = 2
    Writers <- WriterIds
    Records = 2
    MaxRetries = 1
    Nobody = Nobody
    BaselineRecords = 2
    HoldRecords = 1
    NoFile = NoFile
    Arguments <- CommandLines
    SettingsReps = 2
    QueryRecords = 5
    QueryParts = 2
    QueryWindow = 2
    Elements = 2
    Cycles = 2
    Parts <- PartIds
    StreamItems = 7
    GlueWorkers = 3
INVARIANTS
    MeasurementsTypeOK
    ReportSaysWhatHappened
PROPERTY EveryProgramEnds
\* The programs end, and one of them may wait for ever.
CHECK_DEADLOCK FALSE
