----------------------------- MODULE DeviceLoop -----------------------------
(***************************************************************************)
(* The Device Node of a recovery igniter, down to the pin: start of the    *)
(* FPGA session, construction of the igniter's DigitalOutDevice, and the   *)
(* loop of exchange, sensors, controller and actuator.  Every access to    *)
(* the FPGA may fail.                                                      *)
(*                                                                         *)
(* The FPGA keeps its registers while no program runs.  A start therefore  *)
(* finds them in any state, and the start after a crash is an initial      *)
(* state like any other.                                                   *)
(***************************************************************************)
EXTENDS Recovery

CONSTANT MaxErrorCount   \* largest value of the error counter

ASSUME ErrorCountAssumption == MaxErrorCount \in Nat \ {0}

VARIABLES
  loopPc,        \* "session", "output", "enable", "sync": the start;
                 \* "exchange", "controllers", "actuators": the loop
  out,           \* register with the value to put out
  outputEnable,  \* register that makes the pin an output
  feedback,      \* feedback value of the device in the Data Vector
  devRet,        \* what the last run of the device returned
  errorCount     \* error counter of the node in the Data Vector

fpgaVars == <<out, outputEnable>>
loopVars == <<vars, loopPc, fpgaVars, feedback, devRet, errorCount>>

LoopInit ==
  /\ Init
  /\ loopPc = "session"
  /\ out \in {0, 1}
  /\ outputEnable \in BOOLEAN
  /\ feedback = 0
  /\ devRet = "E_SUCCESS"
  /\ errorCount = 0

PinHigh == outputEnable /\ out = 1

-----------------------------------------------------------------------------
(* The start.  Any failure ends the program (exitOnError); whoever started *)
(* it does so again.                                                       *)

(* If the session cannot be opened, nothing has changed. *)
GetSession ==
  /\ loopPc = "session"
  /\ loopPc' = "output"
  /\ UNCHANGED <<vars, fpgaVars, feedback, devRet, errorCount>>

(* updateFpgaControlValue.  A status other than success is a failure; it   *)
(* may be a warning of a write that was done.                              *)
UpdateFpgaControlValue == out' = dv[igniterControlElem]
UpdateFpgaControlValueFails == out' \in {out, dv[igniterControlElem]}

(* finalizeFpgaAtExit: closing the session resets the FPGA, unless it      *)
(* fails, which is disregarded; then the registers keep o and e.           *)
FinalizeFpgaAtExit(o, e) ==
  \/ out' = 0 /\ outputEnable' = FALSE
  \/ out' = o /\ outputEnable' = e

(* Faulty variants (named Bug...) are not part of the specification; they  *)
(* are the mistakes the properties are known to notice.                    *)
BugEnableFirst ==
  /\ loopPc = "output"
  /\ loopPc' = "enable"
  /\ outputEnable' = TRUE
  /\ UNCHANGED <<vars, out, feedback, devRet, errorCount>>

(* The constructor: the value first, then the direction of the pin. *)
SetOutput ==
  /\ loopPc = "output"
  /\ loopPc' = "enable"
  /\ UpdateFpgaControlValue
  /\ UNCHANGED <<vars, outputEnable, feedback, devRet, errorCount>>

SetOutputFails ==
  /\ loopPc = "output"
  /\ loopPc' = "session"
  /\ \E o \in {out, dv[igniterControlElem]} : FinalizeFpgaAtExit(o, outputEnable)
  /\ UNCHANGED <<vars, feedback, devRet, errorCount>>

EnableOutput ==
  /\ loopPc = "enable"
  /\ loopPc' = "sync"
  /\ outputEnable' = TRUE
  /\ UNCHANGED <<vars, out, feedback, devRet, errorCount>>

EnableOutputFails ==
  /\ loopPc = "enable"
  /\ loopPc' = "session"
  /\ \E e \in {outputEnable, TRUE} : FinalizeFpgaAtExit(out, e)
  /\ UNCHANGED <<vars, feedback, devRet, errorCount>>

(* Clock synchronization and the thread of the loop. *)
EnterLoop ==
  /\ loopPc = "sync"
  /\ loopPc' = "exchange"
  /\ UNCHANGED <<vars, fpgaVars, feedback, devRet, errorCount>>

EnterLoopFails ==
  /\ loopPc = "sync"
  /\ loopPc' = "session"
  /\ FinalizeFpgaAtExit(out, outputEnable)
  /\ UNCHANGED <<vars, feedback, devRet, errorCount>>

-----------------------------------------------------------------------------
(* The loop. *)

(* Errors::incrementOnError.  A counter at its maximum stays there. *)
CountIf(failed) ==
  errorCount' = IF failed /\ errorCount < MaxErrorCount
                THEN errorCount + 1 ELSE errorCount

(* Exchange with the Control Node and sensor devices: new inputs, or the   *)
(* old ones and an error.                                                  *)
Exchange ==
  /\ loopPc = "exchange"
  /\ loopPc' = "controllers"
  /\ Inputs
  /\ \E failed \in BOOLEAN : CountIf(failed)
  /\ UNCHANGED <<fpgaVars, feedback, devRet>>

RunControllers ==
  /\ loopPc = "controllers"
  /\ loopPc' = "actuators"
  /\ Run
  /\ CountIf(ret' # "E_SUCCESS")
  /\ UNCHANGED <<fpgaVars, feedback, devRet>>

(* DigitalOutDevice::run.  The indicator shows a new value after a delay,  *)
(* so what is read may be the pin's value before the write.                *)
DeviceSucceeds ==
  /\ UpdateFpgaControlValue
  /\ feedback' \in {out, out'}
  /\ devRet' = "E_SUCCESS"

BugDeviceWriteFails ==
  /\ UpdateFpgaControlValueFails
  /\ devRet' = "E_SUCCESS"
  /\ UNCHANGED feedback

DeviceWriteFails ==
  /\ UpdateFpgaControlValueFails
  /\ devRet' = "E_FPGA_WRITE"
  /\ UNCHANGED feedback

DeviceReadFails ==
  /\ UpdateFpgaControlValue
  /\ devRet' = "E_FPGA_READ"
  /\ UNCHANGED feedback

DeviceRun == DeviceSucceeds \/ DeviceWriteFails \/ DeviceReadFails

(* The device, the other actuators, and the loop counter, which fails at   *)
(* its maximum.  Several errors of a loop count as one here.               *)
RunActuators ==
  /\ loopPc = "actuators"
  /\ loopPc' = "exchange"
  /\ DeviceRun
  /\ \E others \in BOOLEAN : CountIf(devRet' # "E_SUCCESS" \/ others)
  /\ UNCHANGED <<vars, outputEnable>>

LoopStep == Exchange \/ RunControllers \/ RunActuators

LoopNext ==
  \/ GetSession
  \/ SetOutput \/ SetOutputFails
  \/ EnableOutput \/ EnableOutputFails
  \/ EnterLoop \/ EnterLoopFails
  \/ LoopStep

LoopSpec == LoopInit /\ [][LoopNext]_loopVars

(* Nothing is assumed of the start or of the FPGA; the loop never stops. *)
FairLoopSpec == LoopSpec /\ WF_loopVars(LoopStep)

-----------------------------------------------------------------------------
(* Every variable has its type. *)
LoopTypeOK ==
  /\ TypeOK
  /\ loopPc \in {"session", "output", "enable", "sync",
                 "exchange", "controllers", "actuators"}
  /\ out \in {0, 1}
  /\ outputEnable \in BOOLEAN
  /\ feedback \in {0, 1}
  /\ devRet \in {"E_SUCCESS", "E_FPGA_WRITE", "E_FPGA_READ"}
  /\ errorCount \in 0 .. MaxErrorCount

(* The pin follows the controller within the loop (DeviceNode.cpp, lines   *)
(* 296-301), or the device has failed and the node's error count shows it, *)
(* at its maximum too: an igniter that burns on, or that was meant to fire *)
(* and did not, is never silent.                                           *)
PinFollowsOrIsReported ==
  loopPc = "exchange" =>
    \/ PinHigh <=> Igniter
    \/ devRet = "E_FPGA_WRITE" /\ errorCount > 0

(* The pin rises only in the loop, never in a start, whatever an earlier   *)
(* program has left in the registers (DigitalOutDevice.cpp, lines 210-212) *)
(* and only with the system enabled and armed and the window open, even if *)
(* the device raises it loops after the controller has fired.  A mode that *)
(* is no Mode_t is the exception: the controller does not lower the value. *)
PinRisesOnlyWhenAllowed ==
  [][(~PinHigh /\ PinHigh') =>
       /\ loopPc = "actuators"
       /\ \/ dv[modeElem] = MODE_ENABLED /\ Armed /\ tDepBoundLowNs <= now
          \/ ret = "E_INVALID_ENUM"]_loopVars

=============================================================================
