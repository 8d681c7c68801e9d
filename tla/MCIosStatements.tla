--------------------------- MODULE MCIosStatements ---------------------------
EXTENDS IosStatements

CONSTANTS s1, s2

TwoSlots == {s1, s2}
=============================================================================
