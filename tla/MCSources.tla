----------------------------- MODULE MCSources -----------------------------
(* Instances of Sources for TLC.                                           *)
EXTENDS Sources

ClusterSourceAB == <<<<>>, <<"a", "b">>>>
SourceAB == <<<<"a">>, <<"b">>>>
Both == {ClusterSourceAB, SourceAB}
OneClusterSource == {ClusterSourceAB}
OneSource == {SourceAB}
=============================================================================
