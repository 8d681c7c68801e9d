SPECIFICATION Spec
CONSTANTS
    a = a  b = b
    guid = guid  secret = secret
    AppGUID = guid
    Calls <- JustOpen
    Names <- OneName
    RowIds <- TwoIds
    LegacyIds <- OneId
    Keys <- OneKey
    HashArgs <- None
    KdfArgs <- None
    Beginnings <- AllUnrecorded
    MaxCrashes = 0
    MaxFaults = 0
    MaxRemovals = 0
INVARIANTS
    OpenUpdates
