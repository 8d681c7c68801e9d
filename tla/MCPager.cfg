SPECIFICATION Spec
CONSTANTS
    p1 = p1  p2 = p2
    v1 = v1  v2 = v2  v3 = v3
    Pagers <- TwoPagers
    Versions <- ThreeVersions
    NPages = 3
    TruncatesFirst = TRUE
SYMMETRY Symmetric
INVARIANTS
    TypeOK
    ReadersSeeCommitted
PROPERTIES
    ImplementsAtomicFile
