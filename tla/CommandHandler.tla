--------------------------- MODULE CommandHandler ---------------------------
(***************************************************************************)
(* CommandHandler: one run () per Control Node loop.  It reads the request *)
(* region that ground last sent, and either handles a request it has not   *)
(* seen, or clears the active command.                                     *)
(***************************************************************************)
EXTENDS DataVector

CONSTANTS
  cmd,              \* active command, read by the State Machine
  cmdReq,           \* the request of ground: command ...
  cmdWriteElem,     \*   element to write, for CMD_WRITE
  cmdWriteVal,      \*   value to write, for CMD_WRITE
  cmdReqNum,        \*   number of the request
  lastCmdProcNum    \* number of the request handled last

RequestElems == {cmdReq, cmdWriteElem, cmdWriteVal, cmdReqNum}
HandlerElems == {cmd, lastCmdProcNum}

(* What createNew checks of a configuration. *)
ChConfigVerified ==
  /\ RequestElems \cup HandlerElems \subseteq Elem
  /\ \A e \in {cmd, cmdReq} : Type[e] = "DV_T_UINT8"
  /\ \A e \in {cmdWriteElem, cmdReqNum, lastCmdProcNum} : Type[e] = "DV_T_UINT32"
  /\ Type[cmdWriteVal] = "DV_T_UINT64"

(* That they are six different elements is not checked there; every        *)
(* configuration of the repository names six.                              *)
ASSUME ChConfigAssumption ==
  /\ ChConfigVerified
  /\ cmd # cmdReq
  /\ cmdWriteElem \notin {cmdReqNum, lastCmdProcNum}
  /\ cmdReqNum # lastCmdProcNum

CMD_NONE   == 0
CMD_LAUNCH == 1
CMD_ABORT  == 2
CMD_WRITE  == 3
CMD_LAST   == 4

(* A command number must fit the uint8_t that holds it. *)
ASSUME CommandAssumption == Modulus["DV_T_UINT8"] >= CMD_LAST

-----------------------------------------------------------------------------

IsValidCommand(c) == c < CMD_LAST

(* Faulty variants (named Bug...) are not part of the specification; they  *)
(* are the mistakes the properties are known to notice.                    *)
BugSkipsNextRequest == dv[lastCmdProcNum] + 1 < dv[cmdReqNum]

BugIsNewRequest == dv[lastCmdProcNum] # dv[cmdReqNum]

IsNewRequest == dv[lastCmdProcNum] < dv[cmdReqNum]

(* Marking the request handled comes first, then the active command. *)
Accepted ==
  [dv EXCEPT ![lastCmdProcNum] = dv[cmdReqNum], ![cmd] = dv[cmdReq]]

RejectInvalidCommand ==
  /\ ~IsValidCommand(dv[cmdReq])
  /\ ret' = "E_INVALID_CMD"
  /\ UNCHANGED dv

HandleFlightCommand ==
  /\ IsValidCommand(dv[cmdReq])
  /\ IsNewRequest
  /\ dv[cmdReq] # CMD_WRITE
  /\ dv' = Accepted
  /\ ret' = "E_SUCCESS"

(* executeWriteCmd *)
HandleWrite ==
  /\ IsNewRequest
  /\ dv[cmdReq] = CMD_WRITE
  /\ ElementExists(dv[cmdWriteElem])
  /\ dv' = [Accepted EXCEPT ![dv[cmdWriteElem]] =
                               CastTo(dv[cmdWriteElem], dv[cmdWriteVal])]
  /\ ret' = "E_SUCCESS"

(* executeWriteCmd, early return: the request is handled all the same. *)
HandleWriteToMissingElem ==
  /\ IsNewRequest
  /\ dv[cmdReq] = CMD_WRITE
  /\ ~ElementExists(dv[cmdWriteElem])
  /\ dv' = Accepted
  /\ ret' = "E_INVALID_ELEM"

BugClearCommand ==
  /\ IsValidCommand(dv[cmdReq])
  /\ ~IsNewRequest
  /\ UNCHANGED dv
  /\ ret' = "E_SUCCESS"

ClearCommand ==
  /\ IsValidCommand(dv[cmdReq])
  /\ ~IsNewRequest
  /\ dv' = [dv EXCEPT ![cmd] = CMD_NONE]
  /\ ret' = "E_SUCCESS"

HandleRequest ==
  HandleFlightCommand \/ HandleWrite \/ HandleWriteToMissingElem

CommandHandlerRun == RejectInvalidCommand \/ HandleRequest \/ ClearCommand
=============================================================================
