--------------------------- MODULE MCVirtualNodes ---------------------------
(* Instances of VirtualNodes for TLC: two clusters that are each other's   *)
(* targets, of which one supports several sizes of huge pages.             *)
EXTENDS VirtualNodes

CONSTANTS a, b, n1, n2

MutualLinks == {<<a, b>>, <<b, a>>}
ThreeNodes == {<<a, n1>>, <<a, n2>>, <<b, n1>>}
=============================================================================
