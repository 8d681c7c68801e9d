------------------------------- MODULE MCPager -------------------------------
(* Values of the constants of Pager. *)
EXTENDS Pager, TLC

CONSTANTS p1, p2, v1, v2, v3

TwoPagers == {p1, p2}
ThreeVersions == {v1, v2, v3}
Symmetric == Permutations(Pagers) \cup Permutations(Versions)
=============================================================================
