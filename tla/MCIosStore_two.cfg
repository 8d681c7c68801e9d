SPECIFICATION Spec
CONSTANTS
    a = a  b = b
    guid = guid  secret = secret
    AppGUID = guid
    Calls <- NoUpgrade
    Names <- TwoNames
    RowIds <- OneId
    LegacyIds <- OneId
    Keys <- OneKey
    HashArgs <- HashSHA1
    KdfArgs <- None
    Beginnings <- AllRecorded
    MaxCrashes = 1
    MaxFaults = 1
    MaxRemovals = 1
INVARIANTS
    NamesKeepTheirRows
    ConnectionsRead
PROPERTIES
    ImplementsDurable
