---------------------------- MODULE MCBucketStore ----------------------------
(***************************************************************************)
(* BucketStore for TLC.  An interval of 1 is accepted for 1 second, one of *)
(* 2 for 2; the times span three windows of the longer one, in half        *)
(* seconds.                                                                *)
(***************************************************************************)
EXTENDS BucketStore, TLC

CONSTANTS k1, k2, v

MCTimes == 1..12
MCIntervals == {1, 2}
MCSymmetry == Permutations({k1, k2})
=============================================================================
