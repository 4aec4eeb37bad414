----------------------------- MODULE MCDetector -----------------------------
(***************************************************************************)
(* Instances of the detector core for TLC.                                 *)
(***************************************************************************)
EXTENDS DetectorProperties, TLC

CONSTANTS b1, b2, g1, g2, c1, c2, n1

OneName == [b \in Boundary |-> n1]
NoMarks == {}
MarkOfTwo == {{}, {2}}
PinnedToTwo == {{2}}

Symmetry == Permutations(Finisher) \cup Permutations(Conn) \cup Permutations(Boundary)
=============================================================================
