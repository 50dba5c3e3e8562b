----------------------------- MODULE MCSnapshot -----------------------------
(***************************************************************************)
(* Snapshot for TLC: two interchangeable identities.                       *)
(***************************************************************************)
EXTENDS Snapshot, TLC

CONSTANTS c1, c2, none

MCIdent == {c1, c2}
MCSymmetry == Permutations({c1, c2})
=============================================================================
