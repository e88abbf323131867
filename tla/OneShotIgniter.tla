--------------------------- MODULE OneShotIgniter ---------------------------
(***************************************************************************)
(* What a recovery igniter must do at most once in its life: burn, for one *)
(* stretch of time.                                                        *)
(***************************************************************************)
VARIABLE igniter   \* "unfired", "burning" or "spent"

Init == igniter = "unfired"

Fire == igniter = "unfired" /\ igniter' = "burning"

(* The burn time is over, or the system is disarmed or safed. *)
Extinguish == igniter = "burning" /\ igniter' = "spent"

Next == Fire \/ Extinguish

Spec == Init /\ [][Next]_igniter
=============================================================================
