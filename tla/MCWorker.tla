------------------------------ MODULE MCWorker ------------------------------
(* Worker for TLC: a process, one forked from it, and two engines at most. *)
EXTENDS Worker, TLC

CONSTANTS parent, child, main, other, k1, k2, k3

OneProcess == {parent}
ParentAndChild == {parent, child}
MainOnly == {main}
TwoThreads == {main, other}
TwoTargets == {k1, k2}
ThreeTargets == {k1, k2, k3}
OneTarget == {k1}
AllEngines == [p \in Proc |-> Target]
ChildHasItsOwn == parent :> {k1} @@ child :> {k2}
=============================================================================
