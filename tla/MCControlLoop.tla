---------------------------- MODULE MCControlLoop ----------------------------
(* Constants of ControlLoop for model checking: a rocket on its pad that   *)
(* ground launches and may abort, with one recovery igniter.               *)
EXTENDS ControlLoop

MCElem == 1 .. 19

(* 1..6 command handler, 7 state, 8..13 igniter, 14..15 misses of the      *)
(* Device Nodes, 16..19 the other counters.                                *)
MCType ==
  [e \in MCElem |-> CASE e \in {1, 2, 8} -> "DV_T_UINT8"
                      [] e \in {3, 5, 6, 7} \cup 14 .. 19 -> "DV_T_UINT32"
                      [] e \in {4, 10, 11} -> "DV_T_UINT64"
                      [] e \in {9, 12, 13} -> "DV_T_BOOL"]

MCModulus ==
  [t \in TypeName |-> CASE t = "DV_T_UINT8"  -> 5
                        [] t = "DV_T_UINT32" -> 24
                        [] t = "DV_T_UINT64" -> 8
                        [] t = "DV_T_BOOL"   -> 2]

PAD    == 0
FLIGHT == 1
SAFE   == 2

MCStates == {PAD, FLIGHT, SAFE}

When(e, c, v, s) == [elem |-> e, cmp |-> c, val |-> v, target |-> s]

MCTransitions ==
  [s \in MCStates |->
     CASE s = PAD    -> <<When(1, "CMP_EQUALS", CMD_LAUNCH, FLIGHT)>>
       [] s = FLIGHT -> <<When(1, "CMP_EQUALS", CMD_ABORT, SAFE)>>
       [] s = SAFE   -> <<>>]

Do(t, e, v) == [time |-> t, elem |-> e, val |-> v]

(* Flight arms the igniter at once and enables it one time unit later. *)
MCActions ==
  [s \in MCStates |->
     CASE s = PAD    -> <<>>
       [] s = FLIGHT -> <<Do(0, 13, 1), Do(1, 8, MODE_ENABLED)>>
       [] s = SAFE   -> <<Do(0, 8, MODE_SAFED)>>]

MCDeviceNodes == 1 .. 2

(* The Device Nodes answer, with nothing that the loop looks at.           *)
MCRegionFromDn == [i \in MCDeviceNodes |-> {}]

MCRxMissCount == [i \in MCDeviceNodes |-> 13 + i]

(* Most counters start at their maximum, which tells their two cases apart *)
(* with few states; the misses of Device Node 1 are one short of it.       *)
MCInitialDv ==
  [e \in MCElem |-> CASE e \in 15 .. 19 -> 23 [] e = 14 -> 22 [] OTHER -> 0]

Ask(c, e, v) == [req |-> c, elem |-> e, val |-> v]

LAUNCH == Ask(CMD_LAUNCH, 0, 0)
ABORT  == Ask(CMD_ABORT, 0, 0)

(* Deployment is commanded by a WRITE; 20 is no element. *)
MCRequests == {LAUNCH, ABORT, Ask(CMD_WRITE, 9, 1), Ask(CMD_WRITE, 20, 1)}

LaunchRequest == {LAUNCH}

ASSUME MCIgniterAssumption == IgniterIsSpared
=============================================================================
