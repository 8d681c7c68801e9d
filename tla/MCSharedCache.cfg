SPECIFICATION Spec
CONSTANTS
    n1 = n1  n2 = n2  h1 = h1  h2 = h2
    i1 = i1  i2 = i2  i3 = i3 
    k1 = k1  k2 = k2  v4 = v4  old = old
    Temp = temp
    Names <- TwoNames
    Handles <- TwoHandles
    Inodes <- ThreeInodes
    Keys <- TwoKeys
    Params <- TwoParams
    LibraryParams = v4
SYMMETRY Symmetric
INVARIANTS
    TypeOK
    FileHasOneCipher
    UsedContextReads
PROPERTIES
    NamedWritesOnly
    FreshOpenIsNamed
    ReplacedAsGiven
