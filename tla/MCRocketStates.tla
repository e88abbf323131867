--------------------------- MODULE MCRocketStates ---------------------------
(***************************************************************************)
(* Constants of RocketStates for model checking: a machine of four states  *)
(* with every kind of comparison, a state that is its own target, a state  *)
(* with two transitions that may hold together, two actions of one time    *)
(* that write one element, and actions later than the state may last.      *)
(***************************************************************************)
EXTENDS RocketStates

(* 1 the state; 2, 3 inputs; 4, 5 outputs *)
MCElem == 1 .. 5

MCType ==
  [e \in MCElem |-> CASE e = 1          -> "DV_T_UINT32"
                      [] e \in {2, 4}   -> "DV_T_UINT8"
                      [] e \in {3, 5}   -> "DV_T_BOOL"]

MCModulus ==
  [t \in TypeName |-> CASE t = "DV_T_UINT8"  -> 3
                        [] t = "DV_T_UINT32" -> 5
                        [] t = "DV_T_UINT64" -> 8
                        [] t = "DV_T_BOOL"   -> 2]

MCStates == 1 .. 4

Tr(e, c, v, s) == [elem |-> e, cmp |-> c, val |-> v, target |-> s]

Act(t, e, v) == [time |-> t, elem |-> e, val |-> v]

MCTransitions ==
  << <<Tr(2, "CMP_EQUALS", 2, 2), Tr(3, "CMP_EQUALS", 1, 3)>>,
     <<Tr(2, "CMP_LESS_THAN", 1, 3), Tr(3, "CMP_GREATER_THAN", 0, 2)>>,
     <<Tr(2, "CMP_GREATER_EQUALS_THAN", 2, 4),
       Tr(2, "CMP_LESS_EQUALS_THAN", 0, 1)>>,
     <<>> >>

MCActions ==
  << <<Act(0, 4, 1), Act(2, 5, 1)>>,
     <<Act(0, 4, 2), Act(0, 4, 0), Act(1, 5, 0), Act(3, 4, 1)>>,
     <<>>,
     <<Act(1, 5, 0)>> >>

MCInitialDv == [e \in MCElem |-> IF e = 1 THEN 1 ELSE 0]
=============================================================================
