-------------------------- MODULE RecoveryIgniter ---------------------------
(***************************************************************************)
(* RecoveryIgniterController and the Controller::run that dispatches to    *)
(* it: one run per loop of its node, which raises the igniter's control    *)
(* value once, in the deployment window, and lowers it after a while.      *)
(***************************************************************************)
EXTENDS DataVector, Integers

CONSTANTS
  modeElem,            \* mode of the controller
  depCommandElem,      \* commands deployment
  tDepTimeElem,        \* when deployment was triggered, 0 if it was not
  missionTimeElem,     \* current mission time
  igniterControlElem,  \* control value of the igniter's digital out device
  recArmedElem,        \* recovery system armed
  tDepBoundLowNs,      \* bounds of the deployment window
  tDepBoundHighNs,
  IGNITION_DURATION_NS

IgniterElems == {modeElem, depCommandElem, tDepTimeElem, missionTimeElem,
                 igniterControlElem, recArmedElem}

(* verifyConfig *)
IgniterConfigVerified ==
  /\ IgniterElems \subseteq Elem
  /\ tDepBoundLowNs # 0
  /\ tDepBoundLowNs < tDepBoundHighNs

(* The types of the elements are those the header asks for, and the        *)
(* elements the controller writes are not among those it reads for another *)
(* purpose.                                                                *)
ASSUME IgniterConfigAssumption ==
  /\ IgniterConfigVerified
  /\ Type[modeElem] = "DV_T_UINT8"
  /\ \A e \in {depCommandElem, igniterControlElem, recArmedElem} :
       Type[e] = "DV_T_BOOL"
  /\ \A e \in {tDepTimeElem, missionTimeElem} : Type[e] = "DV_T_UINT64"
  /\ tDepTimeElem # missionTimeElem
  /\ igniterControlElem \notin {depCommandElem, recArmedElem}
  /\ tDepBoundLowNs \in Nat
  /\ tDepBoundHighNs \in Nat
  /\ IGNITION_DURATION_NS \in Nat \ {0}

MODE_SAFED   == 0
MODE_ENABLED == 1

-----------------------------------------------------------------------------

now     == dv[missionTimeElem]
Armed   == dv[recArmedElem] = 1
Igniter == dv[igniterControlElem] = 1
Fired   == dv[tDepTimeElem] > 0

(* currTimeNs - depTimeNs in uint64_t: a mission time before the time of   *)
(* deployment wraps around to a large number.                              *)
SinceDepNs == (now - dv[tDepTimeElem]) % Modulus["DV_T_UINT64"]

(* Faulty variants (named Bug...) are not part of the specification; they  *)
(* are the mistakes the properties are known to notice.                    *)
BugBurnTimeOver == SinceDepNs > IGNITION_DURATION_NS
BurnTimeOver == SinceDepNs >= IGNITION_DURATION_NS

(* In the window the Data Vector decides, after it there is no choice. *)
BugShouldDeploy == now > tDepBoundHighNs \/ dv[depCommandElem] = 1

BugNoAutoDeploy == now >= tDepBoundLowNs /\ dv[depCommandElem] = 1

ShouldDeploy ==
  /\ now >= tDepBoundLowNs
  /\ now > tDepBoundHighNs \/ dv[depCommandElem] = 1

Lower == dv' = [dv EXCEPT ![igniterControlElem] = 0]

(* runEnabled *)
Disarmed == ~Armed /\ Lower

EndBurn == Armed /\ Fired /\ BurnTimeOver /\ Lower

KeepBurning == Armed /\ Fired /\ ~BurnTimeOver /\ UNCHANGED dv

BugDeploy ==
  /\ Armed
  /\ ~Fired
  /\ ShouldDeploy
  /\ dv' = [dv EXCEPT ![igniterControlElem] = 1]

Deploy ==
  /\ Armed
  /\ ~Fired
  /\ ShouldDeploy
  /\ dv' = [dv EXCEPT ![tDepTimeElem] = now, ![igniterControlElem] = 1]

Wait == Armed /\ ~Fired /\ ~ShouldDeploy /\ UNCHANGED dv

RunEnabled == Disarmed \/ EndBurn \/ KeepBurning \/ Deploy \/ Wait

BugRunSafed == UNCHANGED dv
RunSafed == Lower

(* Controller::run *)
RunMode ==
  \/ /\ dv[modeElem] = MODE_SAFED
     /\ RunSafed
     /\ ret' = "E_SUCCESS"
  \/ /\ dv[modeElem] = MODE_ENABLED
     /\ RunEnabled
     /\ ret' = "E_SUCCESS"

(* A mode that is no Mode_t, which a WRITE of ground can leave behind: the *)
(* igniter stays as it is.                                                 *)
RunInvalidMode ==
  /\ dv[modeElem] \notin {MODE_SAFED, MODE_ENABLED}
  /\ ret' = "E_INVALID_ENUM"
  /\ UNCHANGED dv

IgniterRun == RunMode \/ RunInvalidMode
=============================================================================
