-------------------------- MODULE MCGroundCommands --------------------------
(* Constants of GroundCommands for model checking. *)
EXTENDS GroundCommands

(* Elements 1..6 are the handler's, 7 a bool and 8 a uint8 of the          *)
(* application; 9 is in no configuration.                                  *)
MCElem == 1 .. 8

MCType ==
  [e \in MCElem |-> CASE e \in {1, 2, 8} -> "DV_T_UINT8"
                      [] e \in {3, 5, 6} -> "DV_T_UINT32"
                      [] e = 4           -> "DV_T_UINT64"
                      [] e = 7           -> "DV_T_BOOL"]

MCModulus ==
  [t \in TypeName |-> CASE t = "DV_T_UINT8"  -> 6
                        [] t = "DV_T_UINT32" -> 10
                        [] t = "DV_T_UINT64" -> 20
                        [] t = "DV_T_BOOL"   -> 2]

MCInitialDv == [e \in MCElem |-> 0]

Ask(c, e, v) == [req |-> c, elem |-> e, val |-> v]

(* A flight command, two writes of one bool (12 becomes 1, where keeping   *)
(* the low bit would make it 0), and a write to a missing element.         *)
MCRequests == {Ask(CMD_LAUNCH, 9, 0), Ask(CMD_WRITE, 7, 12),
               Ask(CMD_WRITE, 7, 0), Ask(CMD_WRITE, 9, 1)}

(* A ground whose software knows a command the Control Node does not. *)
MCRequestsInvalid == {Ask(CMD_LAUNCH, 9, 0), Ask(CMD_LAST, 9, 0)}
=============================================================================
