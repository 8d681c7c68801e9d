SPECIFICATION Spec
CONSTANTS
    a = a  b = b
    guid = guid  secret = secret
    AppGUID = guid
    Calls <- AnyCall
    Names <- OneName
    RowIds <- TwoIds
    LegacyIds <- OneId
    Keys <- TwoKeys
    HashArgs <- UnknownHash
    KdfArgs <- KdfAtItsEnds
    Beginnings <- Any
    MaxCrashes = 1
    MaxFaults = 1
    MaxRemovals = 1
INVARIANTS
    TypeOK
    DataOnDisk
    MigratedConnectionReads
PROPERTIES
    WrongPasswordChangesNothing
