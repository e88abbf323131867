---------------------------- MODULE MCDeviceLoop ----------------------------
(* Constants of DeviceLoop for model checking. *)
EXTENDS DeviceLoop

MCElem == 1 .. 6

MCType ==
  [e \in MCElem |-> CASE e = 1             -> "DV_T_UINT8"
                      [] e \in {2, 5, 6}   -> "DV_T_BOOL"
                      [] e \in {3, 4}      -> "DV_T_UINT64"]

(* One mode beyond the two of Mode_t is enough to stand for all. *)
MCModulus ==
  [t \in TypeName |-> CASE t = "DV_T_UINT8"  -> 3
                        [] t = "DV_T_UINT32" -> 10
                        [] t = "DV_T_UINT64" -> 16
                        [] t = "DV_T_BOOL"   -> 2]

MCInitialDv == [e \in MCElem |-> 0]
=============================================================================
