-------------------------- MODULE MCSnapshotLogger --------------------------
(* Two bytes: the element z, which is signed and carries from one byte to  *)
(* the other, and the whole Data Vector, which has the same bytes.         *)
EXTENDS SnapshotLogger

MCAt == [e \in {"z", "whole"} |-> {0, 1}]

Of(op, on, data) ==
  [op |-> op, on |-> on, fits |-> TRUE, data |-> [b \in Bytes |-> data]]

MCReadAll == Of("read", "whole", 0)

MCCalls ==
  {MCReadAll, Of("write", "whole", 1), Of("increment", "z", 0),
   [Of("write", "z", 0) EXCEPT !.fits = FALSE], Of("increment", "none", 0)}
=============================================================================
