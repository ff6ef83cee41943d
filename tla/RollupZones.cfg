SPECIFICATION RollupSpec
CONSTANTS
    Zones = {0, 1}
    Spellings = {"iso"}
    GroupValues = {"a", "b"}
    Day = 2
    Buckets = {0, 2}
    Events <- DayEvents
INVARIANTS
    NoRowLost
CHECK_DEADLOCK FALSE
