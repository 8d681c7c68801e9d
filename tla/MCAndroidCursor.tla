--------------------------- MODULE MCAndroidCursor ---------------------------
EXTENDS AndroidCursor

CONSTANT r1

OneSet == {r1}
=============================================================================
