------------------------------ MODULE MCDevices ------------------------------
(***************************************************************************)
(* Devices for TLC: nodes of one id are alike but for their macs.          *)
(***************************************************************************)
EXTENDS Devices, TLC

CONSTANTS n1, n2

NodesAlike == Permutations(Nodes)
===============================================================================
