----------------------------- MODULE MCIosStore -----------------------------
EXTENDS IosStore

CONSTANTS a, b, guid, secret

OneName == {a}
TwoNames == {a, b}
OneId == {1}
TwoIds == {1, 2}
OneKey == {guid}
TwoKeys == {guid, secret}
None == {}
AnyCall == {"open", "install", "cipherUpgrade"}
NoUpgrade == {"open", "install"}
JustOpen == {"open"}
HashSHA1 == {1}
SHA1AndSHA512 == {1, 3}
UnknownHash == {4}
KdfAtItsEnds == {3999, 256001}
AllRecorded == {"recorded"}
AllUnrecorded == {"unrecorded"}
Any == {"new", "recorded", "unrecorded", "old directory"}
=============================================================================
