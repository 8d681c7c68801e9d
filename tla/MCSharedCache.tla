---------------------------- MODULE MCSharedCache ----------------------------
(* Values of the constants of SharedCache. *)
EXTENDS SharedCache, TLC

CONSTANTS n1, n2, h1, h2, i1, i2, i3, k1, k2, v4, old

TwoNames == {n1, n2}
TwoHandles == {h1, h2}
ThreeInodes == {i1, i2, i3}
TwoKeys == {k1, k2}
TwoParams == {v4, old}
Symmetric == Permutations(Inodes) \cup Permutations(Handles)
=============================================================================
