------------------------------ MODULE MCKnxBridges ------------------------------
(* Two KNX objects with a cluster plan each, for the checks of KnxBridges.         *)
EXTENDS KnxBridges
=============================================================================
