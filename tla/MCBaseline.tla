----------------------------- MODULE MCBaseline -----------------------------
(***************************************************************************)
(* Instance of the ratchet for TLC.                                        *)
(***************************************************************************)
EXTENDS Baseline, TLC

CONSTANTS n1, n2, r1, r2

Symmetry == Permutations(Name) \cup Permutations(Reporting)
=============================================================================
