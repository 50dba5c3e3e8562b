---------------------------- MODULE MCCollector ----------------------------
(***************************************************************************)
(* Instances of Collector for TLC: two identities, interchangeable         *)
(* (nothing orders them), and totals that stop at MaxTotal.                *)
(***************************************************************************)
EXTENDS Collector, TLC

CONSTANTS c1, c2, none

MCIdent == {c1, c2}
MCSymmetry == Permutations({c1, c2})
=============================================================================
