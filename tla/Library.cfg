SPECIFICATION Spec
CONSTANTS
    Rows <- MCRows
    Width = 3
    PageSizes = {1, 2}
    MaxWrites = 2
    Batches <- MCBatches
    KeyColumns = {0, 1, 2}
    MaxId = 6
    MaxOthers = 2
    Identities <- MCIdentities
    Tables = {1, 2}
    Columns = {"note"}
    Bodies <- MCBodies
    AddedColumns <- MCAddedColumns
    AddedKeys <- MCAddedKeys
    KeysMayChange = FALSE
    Careless = FALSE
    Objects <- MCObjects
    MaxEdits = 3
    Callers = {1, 2, 3}
    Closers = {1, 2}
    Zones = {0}
    Spellings = {"iso"}
    GroupValues = {"a", "b"}
    Day = 2
    Buckets = {0, 2}
    Events <- DayEvents
    Backfills <- WindowSamples
    Lags = {0, 1}
    Moments <- SomeMoments
    ProcessZones <- SomeZones
    Answers = {"yes", "no"}
    Ups = {1, 2}
INVARIANTS
    QueryMeans
    WritesPortable
    PagesCoverOnce
    
    ReturnsOwnRows
    StatementsRun
    
    RollupMeans
    WindowsTile
    ValuesKept
    LogsHarmless
    PoolEnded
    ArgsMean
    LocalHistoryHolds
CHECK_DEADLOCK FALSE
