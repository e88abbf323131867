-------------------------- MODULE MirroredRegions ---------------------------
(***************************************************************************)
(* What the exchange of regions promises of the regions of one direction:  *)
(* their owners change them, and others hold copies that are old, but      *)
(* never older than before and never a value the owner has not had.        *)
(* Values are numbered in the order in which the owner gives them.         *)
(***************************************************************************)
EXTENDS Naturals

CONSTANT Nodes   \* one region for each

VARIABLES
  source,   \* the regions in the Data Vectors of their owners
  copy      \* the same regions in the Data Vectors of the other nodes

vars == <<source, copy>>

Init == source = [i \in Nodes |-> 0] /\ copy = [i \in Nodes |-> 0]

Change ==
  /\ source' \in [Nodes -> Nat]
  /\ \A i \in Nodes : source[i] <= source'[i]
  /\ UNCHANGED copy

Copy ==
  /\ copy' \in [Nodes -> Nat]
  /\ \A i \in Nodes : copy[i] <= copy'[i] /\ copy'[i] <= source[i]
  /\ UNCHANGED source

Spec == Init /\ [][Change \/ Copy]_vars
=============================================================================
