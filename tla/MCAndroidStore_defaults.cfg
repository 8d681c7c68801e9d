SPECIFICATION LiveSpec
CONSTANTS
    r1 = r1  r2 = r2
    guid = guid  secret = secret
    p1 = p1  p2 = p2
    Rows <- TwoRows
    InstallRows <- OneRow
    LegacyRows <- OneRow
    Keys <- OneKey
    AppGUID = guid
    HashArgs <- None
    KdfArgs <- None
    PageArgs <- RoundedToDefault
    LegacySettings <- V4
    Proxies <- TwoProxies
    MaxCrashes = 2
    MaxFaults = 2
    MaxRemovals = 2
INVARIANTS
    ReturnedProxyReads
    PageSizeIsLeast
PROPERTIES
    OpenGivesReadableProxy
    InterruptedMigrationResumes
