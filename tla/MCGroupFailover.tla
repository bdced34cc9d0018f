--------------------------- MODULE MCGroupFailover ---------------------------
(* Instances of GroupFailover for TLC: a Host and one or two Members.        *)
EXTENDS GroupFailover, TLC

CONSTANTS h, m1, m2

TwoMembers == {h, m1, m2}

\* The Members other than the Host are interchangeable.
MemberSymmetry == Permutations({m1, m2})
=============================================================================
