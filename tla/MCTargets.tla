----------------------------- MODULE MCTargets -----------------------------
(* Instances of Targets for TLC.                                           *)
EXTENDS Targets

ClusterTargetAB == <<<<>>, <<"a", "b">>>>
TargetAB == <<<<"a">>, <<"b">>>>
Both == {ClusterTargetAB, TargetAB}
One == {TargetAB}
=============================================================================
