--------------------------- MODULE MCAndroidStore ---------------------------
EXTENDS AndroidStore

CONSTANTS r1, r2, guid, secret, p1, p2

TwoRows == {r1, r2}
OneRow == {r1}
TwoKeys == {guid, secret}
OneKey == {guid}
TwoProxies == {p1, p2}
OneProxy == {p1}
None == {}
SHA1SHA512AndUnknown == {1, 3, 4}
KdfTooSmall == {3999}
RoundedToDefault == {2049, 4096}
V4 == {FromSQLCipherV4}
V2ToV4 == {FromSQLCipherV2, FromSQLCipherV3, FromSQLCipherV4}
=============================================================================
