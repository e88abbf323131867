--------------------------- MODULE GroundCommands ---------------------------
(***************************************************************************)
(* The path of a command: the ground computer numbers its requests and     *)
(* sends each once, over UDP; the Control Node takes at most one message   *)
(* from ground per loop and then runs its Command Handler.  A datagram may *)
(* be lost, duplicated or overtaken, and ground may restart and begin to   *)
(* number its requests anew.                                               *)
(***************************************************************************)
EXTENDS CommandHandler, Sequences

CONSTANTS
  Requests,      \* what ground may ask for: records [req, elem, val]
  InitialDv,     \* the initial values of the Control Node's configuration
  MaxRequests,   \* bound: requests sent between two starts of ground
  MaxRestarts    \* bound: restarts of ground

RequestType == [req  : Values(cmdReq),
                elem : Values(cmdWriteElem),
                val  : Values(cmdWriteVal)]

(* Ground addresses its writes to the elements of the application, never   *)
(* to those by which it and the handler count requests.                    *)
ASSUME RequestAssumption ==
  /\ Requests \subseteq RequestType
  /\ \A r \in Requests : r.elem \notin RequestElems \cup HandlerElems

ASSUME InitialDvAssumption ==
  /\ InitialDv \in DataVectors
  /\ InitialDv[cmd] = CMD_NONE
  /\ InitialDv[cmdReqNum] = 0
  /\ InitialDv[lastCmdProcNum] = 0

ASSUME BoundAssumption ==
  /\ MaxRequests \in Nat
  /\ MaxRequests < Modulus["DV_T_UINT32"]
  /\ MaxRestarts \in Nat

VARIABLES
  reqNum,     \* ground: its DV_ELEM_CMD_REQ_NUM
  restarts,   \* ground: how often it restarted
  sent,       \* the messages ground ever sent, any of which may arrive
  phase,      \* what the Control Node does next: "recv" or "run"
  handled     \* history: the requests the handler handled, in order

vars == <<dv, ret, reqNum, restarts, sent, phase, handled>>

Message == [req  : Values(cmdReq),
            elem : Values(cmdWriteElem),
            val  : Values(cmdWriteVal),
            num  : Values(cmdReqNum)]

Init ==
  /\ dv = InitialDv
  /\ ret = "E_SUCCESS"
  /\ reqNum = 0
  /\ restarts = 0
  /\ sent = {}
  /\ phase = "recv"
  /\ handled = <<>>

-----------------------------------------------------------------------------
(* Ground *)

(* Write the command, increment the request number, send the region once.  *)
SendRequest(r) ==
  /\ reqNum < MaxRequests
  /\ reqNum' = reqNum + 1
  /\ sent' = sent \cup
       {[req |-> r.req, elem |-> r.elem, val |-> r.val, num |-> reqNum + 1]}
  /\ UNCHANGED <<dv, ret, restarts, phase, handled>>

(* The number of the requests is kept in memory only. *)
GroundRestart ==
  /\ restarts < MaxRestarts
  /\ restarts' = restarts + 1
  /\ reqNum' = 0
  /\ UNCHANGED <<dv, ret, sent, phase, handled>>

(* Control Node *)

WithRegion(m) ==
  [dv EXCEPT ![cmdReq] = m.req, ![cmdWriteElem] = m.elem,
             ![cmdWriteVal] = m.val, ![cmdReqNum] = m.num]

(* recvNoBlock had a message, which is copied to DV_REG_GROUND_TO_CN *)
Recv(m) ==
  /\ phase = "recv"
  /\ dv' = WithRegion(m)
  /\ phase' = "run"
  /\ UNCHANGED <<ret, reqNum, restarts, sent, handled>>

RecvNothing ==
  /\ phase = "recv"
  /\ phase' = "run"
  /\ UNCHANGED <<dv, ret, reqNum, restarts, sent, handled>>

(* The region as it stands in the Data Vector. *)
Region == [req |-> dv[cmdReq], elem |-> dv[cmdWriteElem],
           val |-> dv[cmdWriteVal], num |-> dv[cmdReqNum]]

RunHandler ==
  /\ phase = "run"
  /\ phase' = "recv"
  /\ \/ HandleRequest /\ handled' = Append(handled, Region)
     \/ (RejectInvalidCommand \/ ClearCommand) /\ UNCHANGED handled
  /\ UNCHANGED <<reqNum, restarts, sent>>

Next ==
  \/ \E r \in Requests : SendRequest(r)
  \/ GroundRestart
  \/ \E m \in sent : Recv(m)
  \/ RecvNothing
  \/ RunHandler

Spec == Init /\ [][Next]_vars

-----------------------------------------------------------------------------
(* Every variable has its type; the Data Vector's values fit their types.  *)
TypeOK ==
  /\ dv \in DataVectors
  /\ ret \in Error_t
  /\ reqNum \in 0 .. MaxRequests
  /\ restarts \in 0 .. MaxRestarts
  /\ sent \subseteq Message
  /\ phase \in {"recv", "run"}
  /\ handled \in Seq(Message)

(* Requests are handled in the order of their numbers and none twice, in   *)
(* whatever order the network delivers them, how often, and whether or not *)
(* ground restarts in between (CommandHandler::run, lastCmdProcNum).       *)
HandledInOrder ==
  \A i, j \in DOMAIN handled : i < j => handled[i].num < handled[j].num

(* What the Data Vector remembers agrees with what was done: the last      *)
(* processed number is that of the last request handled, and 0 before.     *)
LastProcessedIsLastHandled ==
  dv[lastCmdProcNum] = IF handled = <<>> THEN 0 ELSE handled[Len(handled)].num

(* A WRITE of ground stays in effect: an element of the application holds  *)
(* the value of the WRITE with the highest number among those handled that *)
(* address it, cast to its type, or its initial value.  Requests that      *)
(* arrive late or again must not undo it (CommandHandler::executeWriteCmd, *)
(* lastCmdProcNum).                                                        *)
WritesTo(e) ==
  {i \in DOMAIN handled : handled[i].req = CMD_WRITE /\ handled[i].elem = e}

WritesInEffect ==
  \A e \in Elem \ (RequestElems \cup HandlerElems) :
    dv[e] = IF WritesTo(e) = {} THEN InitialDv[e]
            ELSE LET last == CHOOSE i \in WritesTo(e) :
                               \A j \in WritesTo(e) :
                                 handled[j].num <= handled[i].num
                 IN  CastTo(e, handled[last].val)

(* The active command lasts one loop: a run of the handler that handles no *)
(* new request leaves no command active (CommandHandler.hpp: "Command      *)
(* cleared after 1 Control Node loop").                                    *)
CommandClearedAfterOneLoop ==
  [][(phase = "run" /\ phase' = "recv" /\ handled' = handled)
        => dv'[cmd] = CMD_NONE]_vars

(* The handler implements the abstract command service: commands take      *)
(* effect at most once each, in order, and expire.                         *)
Service == INSTANCE CommandService WITH
  Number  <- Values(cmdReqNum) \ {0},
  Command <- Values(cmd),
  None    <- CMD_NONE,
  done    <- {handled[i].num : i \in DOMAIN handled},
  active  <- dv[cmd]

ImplementsCommandService == Service!Spec
=============================================================================
