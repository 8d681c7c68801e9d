SPECIFICATION Spec
CONSTANTS
    r1 = r1  r2 = r2
    guid = guid  secret = secret
    p1 = p1  p2 = p2
    Rows <- TwoRows
    InstallRows <- OneRow
    LegacyRows <- OneRow
    Keys <- OneKey
    AppGUID = guid
    HashArgs <- SHA1SHA512AndUnknown
    KdfArgs <- None
    PageArgs <- None
    LegacySettings <- V4
    Proxies <- OneProxy
    MaxCrashes = 0
    MaxFaults = 0
    MaxRemovals = 0
INVARIANTS
    SettingsApplied
