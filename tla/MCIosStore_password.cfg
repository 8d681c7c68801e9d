SPECIFICATION Spec
CONSTANTS
    a = a  b = b
    guid = guid  secret = secret
    AppGUID = guid
    Calls <- JustOpen
    Names <- OneName
    RowIds <- TwoIds
    LegacyIds <- OneId
    Keys <- TwoKeys
    HashArgs <- SHA1AndSHA512
    KdfArgs <- None
    Beginnings <- AllRecorded
    MaxCrashes = 0
    MaxFaults = 0
    MaxRemovals = 0
INVARIANTS
    ConnectionsRead
