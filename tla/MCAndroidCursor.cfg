SPECIFICATION LiveSpec
CONSTANTS
    r1 = r1
    Slots <- OneSet
    WindowRows = 3
    MaxInserts = 6
    MaxFaults = 1
INVARIANTS
    TypeOK
    RowsAreTheQuerys
    SmallResultIsSnapshot
    RowsComeOnce
PROPERTIES
    LoopsEnd
CHECK_DEADLOCK FALSE
