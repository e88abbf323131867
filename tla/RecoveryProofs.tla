--------------------------- MODULE RecoveryProofs ---------------------------
(***************************************************************************)
(* Proofs about Recovery, and about the Device Node that runs it, for      *)
(* every configuration and every bound.                                    *)
(***************************************************************************)
EXTENDS DeviceLoop, TLAPS

M64 == Modulus["DV_T_UINT64"]

(* A difference of two times below the modulus of uint64_t, as the         *)
(* controller computes it: it wraps around exactly if it is negative.      *)
LEMMA WrappedDifference ==
  ASSUME NEW m \in Nat, NEW a \in 0 .. m - 1, NEW b \in 0 .. m - 1
  PROVE  (a - b) % m = IF b <= a THEN a - b ELSE a - b + m
  OBVIOUS

(* The elements the controller writes are different from those it reads    *)
(* for another purpose, by their types or by assumption.                   *)
LEMMA DistinctElems ==
  /\ IgniterElems \subseteq Elem
  /\ igniterControlElem \notin {modeElem, depCommandElem, tDepTimeElem,
                                missionTimeElem, recArmedElem}
  /\ tDepTimeElem \notin {modeElem, depCommandElem, missionTimeElem,
                          recArmedElem}
  /\ missionTimeElem \notin {modeElem, depCommandElem, recArmedElem}
  /\ modeElem \notin {depCommandElem, recArmedElem}
  BY IgniterConfigAssumption DEF IgniterConfigVerified, IgniterElems

(* What the elements of the igniter may hold. *)
LEMMA IgniterValues ==
  /\ Values(modeElem) \subseteq Nat
  /\ \A e \in {depCommandElem, igniterControlElem, recArmedElem} :
       Values(e) = {0, 1}
  /\ \A e \in {tDepTimeElem, missionTimeElem} : Values(e) = 0 .. M64 - 1
  /\ M64 \in Nat
  <1>1. Modulus \in [TypeName -> Nat] /\ Modulus["DV_T_BOOL"] = 2
    BY ModulusAssumption
  <1>2. 0 .. 2 - 1 = {0, 1}
    OBVIOUS
  <1> QED  BY <1>1, <1>2, IgniterConfigAssumption
           DEF IgniterConfigVerified, Values, IgniterElems, M64, TypeName

(* An assignment of a value of its type keeps the Data Vector well typed.  *)
LEMMA WriteKeepsType ==
  ASSUME NEW d \in DataVectors, NEW e \in Elem, NEW v \in Nat, v \in Values(e)
  PROVE  [d EXCEPT ![e] = v] \in DataVectors
  BY DEF DataVectors

-----------------------------------------------------------------------------
(* What makes HighIsJustified inductive.  An igniter that is high was      *)
(* fired; the time of deployment and the mission time of a run are times   *)
(* that the clock showed, so their difference wraps around to more than    *)
(* the burn time if it is negative.                                        *)
Times ==
  /\ dv[tDepTimeElem] <= MaxTime
  /\ phase = "run" => now <= MaxTime

IInv == TypeOK /\ (Igniter => Fired) /\ Times /\ HighIsJustified

LEMMA InitEstablishesIInv == Init => IInv
  <1> SUFFICES ASSUME Init PROVE IInv
    OBVIOUS
  <1>1. TypeOK
    BY RecoveryAssumption DEF Init, TypeOK, Error_t
  <1>2. ~Igniter /\ Times
    BY RecoveryAssumption DEF Init, Times, Igniter
  <1> QED  BY <1>1, <1>2 DEF IInv, HighIsJustified

(* The types of what IInv reads.                                           *)
LEMMA TypedElems ==
  ASSUME TypeOK
  PROVE  /\ dv[modeElem] \in Nat
         /\ \A e \in {depCommandElem, igniterControlElem, recArmedElem} :
              dv[e] \in {0, 1}
         /\ \A e \in {tDepTimeElem, missionTimeElem} : dv[e] \in 0 .. M64 - 1
  <1>1. \A e \in IgniterElems : dv[e] \in Values(e)
    BY DistinctElems DEF TypeOK, DataVectors
  <1> QED  BY <1>1, IgniterValues DEF IgniterElems

LEMMA InputsKeepIInv ==
  ASSUME IInv, Inputs
  PROVE  IInv'
  <1>1. PICK mode \in Values(modeElem), armed \in {0, 1}, dep \in {0, 1},
             t \in 0 .. MaxTime :
          dv' = [dv EXCEPT ![modeElem] = mode, ![recArmedElem] = armed,
                           ![depCommandElem] = dep, ![missionTimeElem] = t]
    BY DEF Inputs
  <1>2. TypeOK'
    <2>1. t \in Values(missionTimeElem) /\ t \in Nat
      BY IgniterValues, RecoveryAssumption, IgniterConfigAssumption DEF M64
    <2>2. mode \in Nat /\ armed \in Values(recArmedElem) /\ dep \in Values(depCommandElem)
      BY IgniterValues
    <2>3. [dv EXCEPT ![modeElem] = mode] \in DataVectors
      BY <2>2, DistinctElems, WriteKeepsType DEF IInv, TypeOK, IgniterElems
    <2>4. [dv EXCEPT ![modeElem] = mode, ![recArmedElem] = armed] \in DataVectors
      BY <2>2, <2>3, DistinctElems, WriteKeepsType DEF IgniterElems
    <2>5. [dv EXCEPT ![modeElem] = mode, ![recArmedElem] = armed,
                     ![depCommandElem] = dep] \in DataVectors
      BY <2>2, <2>4, DistinctElems, WriteKeepsType DEF IgniterElems
    <2>6. dv' \in DataVectors
      BY <1>1, <2>1, <2>5, DistinctElems, WriteKeepsType DEF IgniterElems
    <2> QED  BY <2>6 DEF Inputs, IInv, TypeOK
  <1>3. /\ dv'[igniterControlElem] = dv[igniterControlElem]
        /\ dv'[tDepTimeElem] = dv[tDepTimeElem]
        /\ dv'[missionTimeElem] = t
    BY <1>1, DistinctElems DEF IInv, TypeOK, DataVectors, IgniterElems
  <1>4. (Igniter => Fired)' /\ Times'
    BY <1>3 DEF IInv, Times, Igniter, Fired, now
  <1>5. HighIsJustified'
    BY DEF Inputs, HighIsJustified
  <1> QED  BY <1>2, <1>4, <1>5 DEF IInv

(* A run of the controller leaves its inputs alone, and what it writes has *)
(* the right type.                                                         *)
LEMMA RunWrites ==
  ASSUME TypeOK, Run
  PROVE  /\ TypeOK'
         /\ \A e \in IgniterElems \ {igniterControlElem, tDepTimeElem} : dv'[e] = dv[e]
  <1> USE DistinctElems DEF IgniterElems
  <1>1. ASSUME NEW v \in {0, 1}, dv' = [dv EXCEPT ![igniterControlElem] = v]
        PROVE  /\ dv' \in DataVectors
               /\ \A e \in IgniterElems \ {igniterControlElem} : dv'[e] = dv[e]
    BY <1>1, IgniterValues, WriteKeepsType DEF TypeOK, DataVectors
  <1>2. CASE Lower
    BY <1>1, <1>2 DEF Lower, Run, IgniterRun, RunMode, RunInvalidMode, TypeOK, Error_t
  <1>3. CASE UNCHANGED dv
    BY <1>3 DEF Run, IgniterRun, RunMode, RunInvalidMode, TypeOK, Error_t
  <1>4. CASE Deploy
    <2>1. now \in Nat /\ now \in Values(tDepTimeElem)
      BY TypedElems, IgniterValues DEF now
    <2>2. [dv EXCEPT ![tDepTimeElem] = now] \in DataVectors
      BY <2>1, WriteKeepsType DEF TypeOK
    <2>3. dv' \in DataVectors
      BY <1>4, <2>2, IgniterValues, WriteKeepsType DEF Deploy
    <2>4. \A e \in IgniterElems \ {igniterControlElem, tDepTimeElem} : dv'[e] = dv[e]
      BY <1>4 DEF Deploy, TypeOK, DataVectors
    <2> QED  BY <2>3, <2>4 DEF Run, IgniterRun, RunMode, RunInvalidMode, TypeOK, Error_t
  <1> QED  BY <1>2, <1>3, <1>4
           DEF Run, IgniterRun, RunMode, RunInvalidMode, RunSafed, RunEnabled,
               Disarmed, EndBurn, KeepBurning, Wait

(* The cases of a run: what it does to the igniter, and why.               *)
LEMMA RunCases ==
  ASSUME TypeOK, Run
  PROVE  \/ Lower /\ ret' # "E_INVALID_ENUM"
         \/ UNCHANGED dv /\ ret' = "E_INVALID_ENUM"
         \/ /\ dv[modeElem] = MODE_ENABLED
            /\ Armed
            /\ \/ Fired /\ ~BurnTimeOver /\ UNCHANGED dv
               \/ ~Fired /\ UNCHANGED dv
               \/ Deploy
  <1>1. CASE dv[modeElem] = MODE_SAFED /\ RunSafed /\ ret' = "E_SUCCESS"
    BY <1>1 DEF RunSafed
  <1>2. CASE dv[modeElem] = MODE_ENABLED /\ RunEnabled /\ ret' = "E_SUCCESS"
    BY <1>2 DEF RunEnabled, Disarmed, EndBurn, KeepBurning, Wait, Deploy
  <1>3. CASE RunInvalidMode
    BY <1>3 DEF RunInvalidMode
  <1> QED  BY <1>1, <1>2, <1>3 DEF Run, IgniterRun, RunMode

LEMMA RunKeepsIInv ==
  ASSUME IInv, Run
  PROVE  IInv'
  <1>1. /\ TypeOK'
        /\ now' = now
        /\ dv'[modeElem] = dv[modeElem]
        /\ Armed' = Armed
    BY RunWrites, DistinctElems DEF IInv, IgniterElems, now, Armed
  <1>2. /\ phase = "run" /\ phase' = "inputs"
        /\ now \in Nat /\ now <= MaxTime
        /\ dv[tDepTimeElem] \in Nat /\ dv[tDepTimeElem] <= MaxTime
        /\ MaxTime \in Nat /\ IGNITION_DURATION_NS \in Nat \ {0}
        /\ tDepBoundLowNs \in Nat \ {0}
        /\ M64 \in Nat
        /\ MaxTime + IGNITION_DURATION_NS < M64
    BY TypedElems, RecoveryAssumption, IgniterConfigAssumption, IgniterValues
       DEF IgniterConfigVerified, Run, IInv, Times, now, M64
  <1>3. CASE Lower
    <2>1. dv'[igniterControlElem] = 0 /\ dv'[tDepTimeElem] = dv[tDepTimeElem]
      BY <1>3, DistinctElems DEF Lower, IInv, TypeOK, DataVectors, IgniterElems
    <2> QED  BY <1>1, <1>2, <2>1 DEF IInv, Times, HighIsJustified, Igniter
  <1>4. CASE UNCHANGED dv /\ ret' = "E_INVALID_ENUM"
    BY <1>1, <1>2, <1>4 DEF IInv, Times, HighIsJustified, Igniter, Fired
  <1>5. CASE dv[modeElem] = MODE_ENABLED /\ Armed /\ Fired /\ ~BurnTimeOver /\ UNCHANGED dv
    <2>1. SinceDepNs = IF dv[tDepTimeElem] <= now THEN now - dv[tDepTimeElem]
                       ELSE now - dv[tDepTimeElem] + M64
      <3>1. now \in 0 .. M64 - 1 /\ dv[tDepTimeElem] \in 0 .. M64 - 1
        BY TypedElems DEF IInv, now
      <3> QED  BY <1>2, <3>1, WrappedDifference DEF SinceDepNs, M64
    <2>2. dv[tDepTimeElem] <= now /\ now < dv[tDepTimeElem] + IGNITION_DURATION_NS
      BY <1>2, <1>5, <2>1 DEF BurnTimeOver
    <2> QED  BY <1>1, <1>2, <1>5, <2>2
             DEF IInv, Times, HighIsJustified, Igniter, Fired, Armed
  <1>6. CASE dv[modeElem] = MODE_ENABLED /\ Armed /\ ~Fired /\ UNCHANGED dv
    BY <1>1, <1>2, <1>6 DEF IInv, Times, HighIsJustified, Igniter, Fired
  <1>7. CASE dv[modeElem] = MODE_ENABLED /\ Armed /\ Deploy
    <2>1. dv'[tDepTimeElem] = now
      BY <1>7, DistinctElems DEF Deploy, IInv, TypeOK, DataVectors, IgniterElems
    <2>2. tDepBoundLowNs <= now
      BY <1>7 DEF Deploy, ShouldDeploy
    <2> QED  BY <1>1, <1>2, <1>7, <2>1, <2>2
             DEF IInv, Times, HighIsJustified, Fired, Armed
  <1> QED  BY <1>3, <1>4, <1>5, <1>6, <1>7, RunCases DEF IInv

LEMMA NextKeepsIInv == IInv /\ [Next]_vars => IInv'
  <1>1. ASSUME IInv, UNCHANGED vars PROVE IInv'
    BY <1>1 DEF vars, IInv, TypeOK, Times, HighIsJustified, Igniter, Fired, now, Armed
  <1> QED  BY <1>1, InputsKeepIInv, RunKeepsIInv DEF Next

THEOREM IInvHolds == Spec => []IInv
  BY InitEstablishesIInv, NextKeepsIInv, PTL DEF Spec

(* The Data Vector stays well typed: no write of the controller leaves the *)
(* range of its element.                                                   *)
THEOREM TypeCorrect == Spec => []TypeOK
  BY IInvHolds, PTL DEF IInv

(* An igniter that is high after a run is high because its system is       *)
(* enabled, armed and within the burn time, for every window, duration and *)
(* course of the inputs and the mission time.                              *)
THEOREM HighJustified == Spec => []HighIsJustified
  BY IInvHolds, PTL DEF IInv

-----------------------------------------------------------------------------
(* Inputs touches neither value that the controller writes.                *)
LEMMA InputsSpareIgniter ==
  ASSUME TypeOK, Inputs
  PROVE  /\ dv'[igniterControlElem] = dv[igniterControlElem]
         /\ dv'[tDepTimeElem] = dv[tDepTimeElem]
  BY DistinctElems DEF Inputs, TypeOK, DataVectors, IgniterElems

(* A run that does not deploy does not raise the igniter and leaves the    *)
(* time of deployment as it is.                                            *)
LEMMA OnlyDeployRaises ==
  ASSUME TypeOK, Run, ~Deploy
  PROVE  /\ dv'[tDepTimeElem] = dv[tDepTimeElem]
         /\ Igniter' => Igniter
  <1>1. CASE Lower
    BY <1>1, DistinctElems DEF Lower, TypeOK, DataVectors, IgniterElems, Igniter
  <1>2. CASE UNCHANGED dv
    BY <1>2 DEF Igniter
  <1> QED  BY <1>1, <1>2, RunCases

LEMMA DeployEffect ==
  ASSUME TypeOK, Run, Deploy
  PROVE  Igniter' /\ Fired' /\ ~Fired
  <1>1. dv'[tDepTimeElem] = now /\ dv'[igniterControlElem] = 1
    BY DistinctElems DEF Deploy, TypeOK, DataVectors, IgniterElems
  <1>2. now \in Nat /\ tDepBoundLowNs \in Nat \ {0} /\ tDepBoundLowNs <= now
    BY TypedElems, IgniterConfigAssumption DEF IgniterConfigVerified, Deploy, ShouldDeploy, now
  <1> QED  BY <1>1, <1>2 DEF Deploy, Igniter, Fired

(* A step of the controller's node that raises the igniter is one in which *)
(* it is enabled and armed, and the window or the command allows it.       *)
THEOREM FiresWhenAllowed == Spec => FiresOnlyWhenAllowed
  <1> DEFINE A == (~Igniter /\ Igniter') =>
                     /\ dv[modeElem] = MODE_ENABLED
                     /\ Armed
                     /\ tDepBoundLowNs <= now
                     /\ dv[depCommandElem] = 1 \/ tDepBoundHighNs < now
  <1>1. ASSUME TypeOK, Inputs PROVE A
    BY <1>1, InputsSpareIgniter DEF Igniter
  <1>2. ASSUME TypeOK, Run PROVE A
    <2>1. CASE Deploy
      <3>1. ~Lower /\ ~UNCHANGED dv
        BY <1>2, <2>1, DeployEffect, DistinctElems
           DEF Lower, TypeOK, DataVectors, IgniterElems, Igniter, Fired
      <3>2. dv[modeElem] = MODE_ENABLED
        BY <1>2, <3>1, RunCases
      <3> QED  BY <1>2, <2>1, <3>2, TypedElems, IgniterConfigAssumption
               DEF IgniterConfigVerified, Deploy, ShouldDeploy, now
    <2>2. CASE ~Deploy
      BY <1>2, <2>2, OnlyDeployRaises
    <2> QED  BY <2>1, <2>2
  <1>3. ASSUME UNCHANGED vars PROVE A
    BY <1>3 DEF vars, Igniter
  <1>4. TypeOK /\ [Next]_vars => [A]_vars
    BY <1>1, <1>2, <1>3 DEF Next
  <1> QED  BY <1>4, TypeCorrect, PTL DEF Spec, FiresOnlyWhenAllowed

(* Once deployment was triggered, its time is never changed again.         *)
THEOREM DeploymentFinal == Spec => DeploymentIsFinal
  <1> DEFINE A == Fired => dv'[tDepTimeElem] = dv[tDepTimeElem]
  <1>1. ASSUME TypeOK, Next PROVE A
    BY <1>1, InputsSpareIgniter, OnlyDeployRaises, DeployEffect DEF Next
  <1>2. TypeOK /\ [Next]_vars => [A]_vars
    BY <1>1
  <1> QED  BY <1>2, TypeCorrect, PTL DEF Spec, DeploymentIsFinal

(* The controller implements an igniter that burns at most once.           *)
THEOREM BurnsAtMostOnce == Spec => ImplementsOneShot
  <1>1. Init => OneShot!Init
    BY RecoveryAssumption DEF Init, OneShot!Init, Fired, Igniter
  <1>2. IInv /\ [Next]_vars
          => [OneShot!Next]_(IF Igniter THEN "burning"
                             ELSE IF Fired THEN "spent" ELSE "unfired")
    <2> SUFFICES ASSUME IInv, [Next]_vars
        PROVE \/ OneShot!Next
              \/ UNCHANGED (IF Igniter THEN "burning"
                            ELSE IF Fired THEN "spent" ELSE "unfired")
      OBVIOUS
    <2>1. CASE Inputs
      BY <2>1, InputsSpareIgniter DEF IInv, Igniter, Fired
    <2>2. CASE Run /\ Deploy
      <3>1. Igniter' /\ Fired' /\ ~Fired
        BY <2>2, DeployEffect DEF IInv
      <3>2. ~Igniter
        BY <3>1 DEF IInv
      <3> QED  BY <3>1, <3>2 DEF OneShot!Next, OneShot!Fire
    <2>3. CASE Run /\ ~Deploy
      <3>1. (Fired' <=> Fired) /\ (Igniter' => Igniter)
        BY <2>3, OnlyDeployRaises DEF IInv, Fired
      <3>2. Igniter => Fired
        BY DEF IInv
      <3> QED  BY <3>1, <3>2 DEF OneShot!Next, OneShot!Extinguish
    <2>4. CASE UNCHANGED vars
      BY <2>4 DEF vars, Fired, Igniter
    <2> QED  BY <2>1, <2>2, <2>3, <2>4 DEF Next
  <1> QED  BY <1>1, <1>2, IInvHolds, PTL DEF Spec, ImplementsOneShot, OneShot!Spec

-----------------------------------------------------------------------------
(* The Device Node.  Every step of it is one of Recovery or none at all.   *)
LEMMA LoopStepsAreRecoverySteps == [LoopNext]_loopVars => [Next]_vars
  BY DEF LoopNext, loopVars, Next, GetSession, SetOutput, SetOutputFails,
         EnableOutput, EnableOutputFails, EnterLoop, EnterLoopFails, LoopStep,
         Exchange, RunControllers, RunActuators

(* What holds of the controller in any node holds of it in this one.       *)
THEOREM LoopImplementsRecovery == LoopSpec => Spec
  <1>1. LoopInit => Init
    BY DEF LoopInit
  <1> QED  BY <1>1, LoopStepsAreRecoverySteps, PTL DEF LoopSpec, Spec

(* What the loop adds.  Before it, the controller has not run and the      *)
(* value to put out is low, and so is the register once it was set; in it, *)
(* the pin is an output.  A deployment is never before the window.         *)
NotBeforeWindow == Fired => tDepBoundLowNs <= dv[tDepTimeElem]

Started ==
  /\ loopPc = "controllers" <=> phase = "run"
  /\ loopPc \in {"session", "output", "enable", "sync"} =>
       dv[igniterControlElem] = 0 /\ devRet = "E_SUCCESS"
  /\ loopPc \in {"enable", "sync"} => out = 0
  /\ loopPc \in {"sync", "exchange", "controllers", "actuators"} => outputEnable

LoopIInv ==
  /\ LoopTypeOK
  /\ IInv
  /\ NotBeforeWindow
  /\ Started
  /\ PinFollowsOrIsReported

LEMMA LoopInitEstablishes == LoopInit => LoopIInv
  <1> SUFFICES ASSUME LoopInit PROVE LoopIInv
    OBVIOUS
  <1>1. IInv
    BY InitEstablishesIInv DEF LoopInit
  <1>2. LoopTypeOK
    BY <1>1, ErrorCountAssumption DEF LoopInit, LoopTypeOK, IInv
  <1>3. ~Fired /\ dv[igniterControlElem] = 0 /\ phase = "inputs"
    BY RecoveryAssumption DEF LoopInit, Init, Fired
  <1> QED  BY <1>1, <1>2, <1>3
           DEF LoopInit, LoopIInv, NotBeforeWindow, Started, PinFollowsOrIsReported

(* The controller's half of a step. *)
LEMMA RecoveryPartKept ==
  ASSUME IInv, NotBeforeWindow, [Next]_vars
  PROVE  IInv' /\ NotBeforeWindow'
  <1> SUFFICES NotBeforeWindow'
    BY NextKeepsIInv
  <1>2. CASE Inputs
    BY <1>2, InputsSpareIgniter DEF IInv, NotBeforeWindow, Fired
  <1>3. CASE Run /\ Deploy
    <2>1. dv'[tDepTimeElem] = now
      BY <1>3, DistinctElems DEF Deploy, IInv, TypeOK, DataVectors, IgniterElems
    <2> QED  BY <1>3, <2>1 DEF Deploy, ShouldDeploy, NotBeforeWindow
  <1>4. CASE Run /\ ~Deploy
    BY <1>4, OnlyDeployRaises DEF IInv, NotBeforeWindow, Fired
  <1>5. CASE UNCHANGED vars
    BY <1>5 DEF vars, NotBeforeWindow, Fired
  <1> QED  BY <1>2, <1>3, <1>4, <1>5 DEF Next

LEMMA CountKeepsType ==
  ASSUME errorCount \in 0 .. MaxErrorCount, NEW failed \in BOOLEAN, CountIf(failed)
  PROVE  errorCount' \in 0 .. MaxErrorCount /\ (failed => errorCount' > 0)
  BY ErrorCountAssumption DEF CountIf

LEMMA ControlIsBit == ASSUME TypeOK PROVE dv[igniterControlElem] \in {0, 1}
  BY TypedElems

LEMMA LoopNextKeeps == LoopIInv /\ [LoopNext]_loopVars => LoopIInv'
  <1> SUFFICES ASSUME LoopIInv, [LoopNext]_loopVars PROVE LoopIInv'
    OBVIOUS
  <1>1. IInv' /\ NotBeforeWindow' /\ TypeOK'
    BY LoopStepsAreRecoverySteps, RecoveryPartKept DEF LoopIInv, IInv
  <1>2. dv[igniterControlElem] \in {0, 1}
    BY ControlIsBit DEF LoopIInv, LoopTypeOK
  <1> SUFFICES LoopTypeOK' /\ Started' /\ PinFollowsOrIsReported'
    BY <1>1 DEF LoopIInv
  <1> USE DEF LoopIInv, LoopTypeOK, Started, PinFollowsOrIsReported
  <1>3. CASE GetSession
    BY <1>1, <1>3 DEF GetSession, vars, fpgaVars
  <1>4. CASE SetOutput
    BY <1>1, <1>2, <1>4 DEF SetOutput, UpdateFpgaControlValue, vars
  <1>5. CASE SetOutputFails
    BY <1>1, <1>2, <1>5 DEF SetOutputFails, FinalizeFpgaAtExit, vars
  <1>6. CASE EnableOutput
    BY <1>1, <1>6 DEF EnableOutput, vars
  <1>7. CASE EnableOutputFails
    BY <1>1, <1>7 DEF EnableOutputFails, FinalizeFpgaAtExit, vars
  <1>8. CASE EnterLoop
    BY <1>1, <1>2, <1>8 DEF EnterLoop, vars, fpgaVars, PinHigh, Igniter
  <1>9. CASE EnterLoopFails
    BY <1>1, <1>9 DEF EnterLoopFails, FinalizeFpgaAtExit, vars
  <1>10. CASE Exchange
    <2>1. errorCount' \in 0 .. MaxErrorCount
      BY <1>10, CountKeepsType DEF Exchange
    <2> QED  BY <1>1, <1>10, <2>1 DEF Exchange, Inputs, fpgaVars
  <1>11. CASE RunControllers
    <2>1. errorCount' \in 0 .. MaxErrorCount
      BY <1>11, CountKeepsType DEF RunControllers
    <2> QED  BY <1>1, <1>11, <2>1 DEF RunControllers, Run, fpgaVars
  <1>12. CASE RunActuators
    <2>1. /\ errorCount' \in 0 .. MaxErrorCount
          /\ devRet' # "E_SUCCESS" => errorCount' > 0
      <3>1. PICK others \in BOOLEAN : CountIf(devRet' # "E_SUCCESS" \/ others)
        BY <1>12 DEF RunActuators
      <3> QED  BY <3>1, CountKeepsType
    <2>2. /\ out' \in {0, 1}
          /\ feedback' \in {0, 1}
          /\ devRet' \in {"E_SUCCESS", "E_FPGA_WRITE", "E_FPGA_READ"}
          /\ devRet' = "E_FPGA_WRITE" \/ out' = dv[igniterControlElem]
      BY <1>2, <1>12 DEF RunActuators, DeviceRun, DeviceSucceeds, DeviceWriteFails,
                         DeviceReadFails, UpdateFpgaControlValue,
                         UpdateFpgaControlValueFails
    <2>3. PinFollowsOrIsReported'
      BY <1>12, <2>1, <2>2 DEF RunActuators, vars, PinHigh, Igniter
    <2> QED  BY <1>1, <1>12, <2>1, <2>2, <2>3 DEF RunActuators, vars
  <1>13. CASE UNCHANGED loopVars
    BY <1>1, <1>13 DEF loopVars, vars, fpgaVars, PinHigh, Igniter
  <1> QED  BY <1>3, <1>4, <1>5, <1>6, <1>7, <1>8, <1>9, <1>10, <1>11, <1>12, <1>13
           DEF LoopNext, LoopStep

THEOREM LoopIInvHolds == LoopSpec => []LoopIInv
  BY LoopInitEstablishes, LoopNextKeeps, PTL DEF LoopSpec

(* Every variable of the Device Node keeps its type.                       *)
THEOREM LoopTypeCorrect == LoopSpec => []LoopTypeOK
  BY LoopIInvHolds, PTL DEF LoopIInv

(* The pin agrees with the controller at the end of every loop, or the     *)
(* node's error count shows that the device has failed.                    *)
THEOREM PinFollows == LoopSpec => []PinFollowsOrIsReported
  BY LoopIInvHolds, PTL DEF LoopIInv

(* No start and no late write of the device raises the pin when the system *)
(* is safed, disarmed or before its window.                                *)
THEOREM PinRises == LoopSpec => PinRisesOnlyWhenAllowed
  <1> DEFINE A == (~PinHigh /\ PinHigh') =>
                    /\ loopPc = "actuators"
                    /\ \/ dv[modeElem] = MODE_ENABLED /\ Armed /\ tDepBoundLowNs <= now
                       \/ ret = "E_INVALID_ENUM"
  <1>1. ASSUME LoopIInv, LoopNext, loopPc # "actuators" PROVE PinHigh' => PinHigh
    <2>1. dv[igniterControlElem] \in {0, 1} /\ out \in {0, 1}
      BY <1>1, ControlIsBit DEF LoopIInv, LoopTypeOK
    <2> USE DEF LoopIInv, Started, PinHigh
    <2>2. CASE GetSession \/ EnterLoop
      BY <2>2 DEF GetSession, EnterLoop, fpgaVars
    <2>3. CASE SetOutput \/ SetOutputFails
      BY <1>1, <2>1, <2>3 DEF SetOutput, SetOutputFails, UpdateFpgaControlValue,
                              FinalizeFpgaAtExit
    <2>4. CASE EnableOutput \/ EnableOutputFails
      <3>1. out' = 0
        BY <1>1, <2>4 DEF EnableOutput, EnableOutputFails, FinalizeFpgaAtExit
      <3> QED  BY <3>1
    <2>5. CASE EnterLoopFails
      BY <2>5 DEF EnterLoopFails, FinalizeFpgaAtExit
    <2>6. CASE Exchange \/ RunControllers
      BY <2>6 DEF Exchange, RunControllers, fpgaVars
    <2> QED  BY <1>1, <2>2, <2>3, <2>4, <2>5, <2>6
             DEF LoopNext, LoopStep, RunActuators
  <1>2. ASSUME LoopIInv, RunActuators, ~PinHigh, PinHigh', ret # "E_INVALID_ENUM"
        PROVE  dv[modeElem] = MODE_ENABLED /\ Armed /\ tDepBoundLowNs <= now
    <2>1. Igniter
      BY <1>2 DEF RunActuators, DeviceRun, DeviceSucceeds, DeviceWriteFails,
                  DeviceReadFails, UpdateFpgaControlValue,
                  UpdateFpgaControlValueFails, PinHigh, Igniter
    <2>2. phase = "inputs"
      BY <1>2 DEF RunActuators, LoopIInv, Started, LoopTypeOK, TypeOK
    <2>3. /\ dv[modeElem] = MODE_ENABLED /\ Armed
          /\ dv[tDepTimeElem] <= now /\ tDepBoundLowNs <= dv[tDepTimeElem]
      BY <1>2, <2>1, <2>2 DEF LoopIInv, IInv, HighIsJustified, NotBeforeWindow
    <2>4. now \in Nat /\ dv[tDepTimeElem] \in Nat /\ tDepBoundLowNs \in Nat
      BY <1>2, TypedElems, IgniterValues, IgniterConfigAssumption
         DEF LoopIInv, IInv, now
    <2> QED  BY <2>3, <2>4
  <1>3. LoopIInv /\ [LoopNext]_loopVars => [A]_loopVars
    <2>1. ASSUME LoopIInv, LoopNext PROVE A
      <3>1. CASE loopPc # "actuators"
        BY <1>1, <2>1, <3>1
      <3>2. CASE loopPc = "actuators"
        <4>1. RunActuators
          BY <2>1, <3>2 DEF LoopNext, LoopStep, GetSession, SetOutput, SetOutputFails,
             EnableOutput, EnableOutputFails, EnterLoop, EnterLoopFails, Exchange,
             RunControllers
        <4> QED  BY <1>2, <2>1, <3>2, <4>1
      <3> QED  BY <3>1, <3>2
    <2> QED  BY <2>1
  <1> QED  BY <1>3, LoopIInvHolds, PTL DEF LoopSpec, PinRisesOnlyWhenAllowed
=============================================================================
