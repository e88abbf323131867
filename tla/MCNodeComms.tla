---------------------------- MODULE MCNodeComms -----------------------------
(* NodeComms with small sets of Device Nodes for TLC. *)
EXTENDS NodeComms

MCOneNode == {0}

MCTwoNodes == {0, 1}

(* The node that is served first is the silent one. *)
MCSecondOnly == {1}
=============================================================================
