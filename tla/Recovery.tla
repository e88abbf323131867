------------------------------ MODULE Recovery ------------------------------
(***************************************************************************)
(* A recovery igniter controller in its node: before each run, the loop    *)
(* has brought the mode, the arming and the deployment command up to date  *)
(* from the network and from the State Machine, in any way, and mission    *)
(* time has moved.  Mission time comes from CLOCK_REALTIME, so it may even *)
(* move back.                                                              *)
(***************************************************************************)
EXTENDS RecoveryIgniter

CONSTANTS
  InitialDv,   \* initial values of the configuration
  MaxTime      \* bound: mission time

ASSUME RecoveryAssumption ==
  /\ InitialDv \in DataVectors
  /\ InitialDv[tDepTimeElem] = 0
  /\ InitialDv[igniterControlElem] = 0
  /\ MaxTime \in Nat
  \* no overflow: the end of uint64_t nanoseconds is centuries away
  /\ MaxTime + IGNITION_DURATION_NS < Modulus["DV_T_UINT64"]

VARIABLE phase   \* what the node's loop does next: "inputs" or "run"

vars == <<dv, ret, phase>>

Init ==
  /\ dv = InitialDv
  /\ ret = "E_SUCCESS"
  /\ phase = "inputs"

Inputs ==
  /\ phase = "inputs"
  /\ phase' = "run"
  /\ \E mode \in Values(modeElem), armed, dep \in {0, 1}, t \in 0 .. MaxTime :
       dv' = [dv EXCEPT ![modeElem] = mode, ![recArmedElem] = armed,
                        ![depCommandElem] = dep, ![missionTimeElem] = t]
  /\ UNCHANGED ret

Run ==
  /\ phase = "run"
  /\ phase' = "inputs"
  /\ IgniterRun

Next == Inputs \/ Run

Spec == Init /\ [][Next]_vars

(* The loop of a node never stops. *)
FairSpec == Spec /\ WF_vars(Next)

-----------------------------------------------------------------------------
(* Every variable has its type. *)
TypeOK ==
  /\ dv \in DataVectors
  /\ ret \in Error_t
  /\ phase \in {"inputs", "run"}

(* The igniter is raised only by an enabled controller of an armed system, *)
(* not before the window opens, and in the window only on command          *)
(* (RecoveryIgniterController.hpp, lines 7-12).                            *)
FiresOnlyWhenAllowed ==
  [][(~Igniter /\ Igniter') =>
       /\ dv[modeElem] = MODE_ENABLED
       /\ Armed
       /\ tDepBoundLowNs <= now
       /\ dv[depCommandElem] = 1 \/ tDepBoundHighNs < now]_vars

(* An igniter that is high after a run is high for a reason that holds     *)
(* now: enabled, armed and within the burn time, whatever the inputs and   *)
(* the clock did since it was raised.  A mode that is no Mode_t is the     *)
(* exception: the controller then does nothing.                            *)
HighIsJustified ==
  (phase = "inputs" /\ Igniter /\ ret # "E_INVALID_ENUM") =>
    /\ dv[modeElem] = MODE_ENABLED
    /\ Armed
    /\ dv[tDepTimeElem] <= now
    /\ now < dv[tDepTimeElem] + IGNITION_DURATION_NS

(* The time of deployment is stored once: nothing that happens later, not  *)
(* disarming, safing or a clock set back, makes the controller forget it.  *)
DeploymentIsFinal ==
  [][Fired => dv'[tDepTimeElem] = dv[tDepTimeElem]]_vars

(* The controller implements an igniter that burns at most once. *)
OneShot == INSTANCE OneShotIgniter WITH
  igniter <- IF Igniter THEN "burning" ELSE IF Fired THEN "spent" ELSE "unfired"

ImplementsOneShot == OneShot!Spec

(* Deployment does not depend on a command: if the system stays armed and  *)
(* the controller enabled until past the window, it fires.                 *)
DeploysAfterWindow ==
  <>[](dv[modeElem] = MODE_ENABLED /\ Armed /\ now > tDepBoundHighNs) => <>Fired
=============================================================================
