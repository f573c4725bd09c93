---------------------------- MODULE MCScheduling ----------------------------
(* Instances of MulticlusterScheduling for TLC. Target clusters that are   *)
(* declared alike, and generated names, are interchangeable; runs of       *)
(* safety properties make use of it.                                       *)
EXTENDS MulticlusterScheduling, TLC

TargetSymmetry == Permutations(Targets)
NameSymmetry == Permutations(Names)
=============================================================================
