SPECIFICATION LiveSpec
CONSTANTS
    s1 = s1  s2 = s2
    Slots <- TwoSlots
    MaxRows = 2
INVARIANTS
    TypeOK
    OpenIsPrepared
    ConnectionIsOwned
PROPERTIES
    CloseCloses
    CountedOnce
    ClosesAtLast
