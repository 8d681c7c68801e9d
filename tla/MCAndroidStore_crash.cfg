SPECIFICATION Spec
CONSTANTS
    r1 = r1  r2 = r2
    guid = guid  secret = secret
    p1 = p1  p2 = p2
    Rows <- TwoRows
    InstallRows <- OneRow
    LegacyRows <- OneRow
    Keys <- TwoKeys
    AppGUID = guid
    HashArgs <- SHA1SHA512AndUnknown
    KdfArgs <- KdfTooSmall
    PageArgs <- None
    LegacySettings <- V2ToV4
    Proxies <- OneProxy
    MaxCrashes = 2
    MaxFaults = 1
    MaxRemovals = 1
INVARIANTS
    TypeOK
    DataOnDisk
    MigrationEncrypts
    NeverStuck
    PropertiesOfProxy
PROPERTIES
    WrongPasswordChangesNothing
    ImplementsDurable
    StuckForGood
