---------------------------- MODULE ControlLoop -----------------------------
(***************************************************************************)
(* The periodic loop of the Control Node (ControlNode.cpp, loop): exchange *)
(* regions of the Data Vector with ground and the Device Nodes, read the   *)
(* time, run the Command Handler, step the State Machine, run the          *)
(* controllers (here one recovery igniter), count the loop.  Each call     *)
(* that fails increments an error counter, and the loop goes on.           *)
(*                                                                         *)
(* All steps are made by one thread on one Data Vector; what is concurrent *)
(* are the other nodes, seen through the sockets.                          *)
(***************************************************************************)
EXTENDS CommandHandler, StateMachine, RecoveryIgniter

CONSTANTS
  DeviceNodes,          \* the Device Nodes, numbered in the order of Node_t
  regionFromDn,         \* elements of the region each sends (DV_REG_DNi_TO_CN)
  rxMissCount,          \* DV_ELEM_DNi_RX_MISS_COUNT
  errorCount,           \* DV_ELEM_CN_ERROR_COUNT
  loopCount,            \* DV_ELEM_CN_LOOP_COUNT
  commsMissCount,       \* DV_ELEM_CN_COMMS_DEADLINE_MISS_COUNT
  loopMissCount,        \* DV_ELEM_CN_LOOP_DEADLINE_MISS_COUNT
  Requests,             \* what ground may ask for: records [req, elem, val]
  InitialDv,            \* initial values of the configuration
  MaxRequests,          \* bound: requests of ground
  MaxTime,              \* bound: time
  MaxClockFailures      \* bound: how often loop fails to read the clock

(* The Control Node writes its time to DV_ELEM_CN_TIME_NS, which is the    *)
(* mission time of the igniter's configuration.                            *)
timeElem == missionTimeElem

Counters == {rxMissCount[i] : i \in DeviceNodes} \cup
            {errorCount, loopCount, commsMissCount, loopMissCount}

RequestType == [req  : Values(cmdReq),
                elem : Values(cmdWriteElem),
                val  : Values(cmdWriteVal)]

Message == [req  : Values(cmdReq),
            elem : Values(cmdWriteElem),
            val  : Values(cmdWriteVal),
            num  : Values(cmdReqNum)]

(* verifyDvConfig: the elements the node itself uses exist. *)
DvConfigVerified ==
  /\ Counters \cup {stateElem, timeElem} \subseteq Elem
  /\ \A i \in DeviceNodes : regionFromDn[i] \subseteq Elem

(* The elements of a region are those of no other (DataVector::verifyConfig *)
(* refuses a duplicate).  Ground sends only commands the Control Node      *)
(* knows, and spares the elements by which requests are counted.           *)
ASSUME LoopConfigAssumption ==
  /\ DvConfigVerified
  /\ DeviceNodes \subseteq Nat
  /\ DOMAIN regionFromDn = DeviceNodes
  /\ DOMAIN rxMissCount = DeviceNodes
  /\ \A i \in DeviceNodes :
       regionFromDn[i] \cap (Counters \cup RequestElems \cup HandlerElems
                             \cup {stateElem, timeElem}) = {}
  /\ \A i, j \in DeviceNodes : i # j => /\ rxMissCount[i] # rxMissCount[j]
                                       /\ regionFromDn[i] \cap regionFromDn[j] = {}
  /\ \A e \in Counters : Type[e] = "DV_T_UINT32"
  /\ Counters \cap (RequestElems \cup HandlerElems \cup IgniterElems
                    \cup {stateElem}) = {}
  /\ Requests \subseteq RequestType
  /\ \A r \in Requests : /\ r.elem \notin RequestElems \cup HandlerElems
                         /\ IsValidCommand(r.req)

(* No part of the loop writes the elements of a request but the receive    *)
(* from ground, nor those of the Command Handler but that.  Nothing checks *)
(* it; it is so in every configuration of the repository.                  *)
ASSUME WriterAssumption ==
  /\ stateElem \notin RequestElems \cup HandlerElems
  /\ timeElem # cmdWriteVal
  /\ \A s \in States : \A k \in DOMAIN Actions[s] :
       Actions[s][k].elem \notin RequestElems \cup HandlerElems

ASSUME LoopBoundAssumption ==
  /\ InitialDv \in DataVectors
  /\ InitialDv[stateElem] \in States
  /\ \A e \in HandlerElems \cup {cmdReqNum} : InitialDv[e] = 0
  /\ MaxRequests \in Nat
  /\ MaxRequests < Modulus["DV_T_UINT32"]
  /\ MaxTime \in Nat
  /\ MaxTime < Modulus["DV_T_UINT64"]
  /\ MaxClockFailures \in Nat

VARIABLES
  pc,              \* the part of the loop that comes next
  currTimeNs,      \* local variable of loop
  clock,           \* the time that the clock shows
  clockFailures,   \* how often loop failed to read it
  reqNum,          \* ground: the number of its last request
  socket,          \* messages of ground that wait in the Control Node's socket
  taken,           \* history: those it took, in order
  handled          \* history: those the Command Handler handled, in order

groundVars == <<reqNum, socket, taken, handled>>
timeVars == <<currTimeNs, clock, clockFailures>>
vars == <<dv, ret, smVars, pc, timeVars, groundVars>>

Phases == {"ground", "devices", "time", "command", "state", "controllers",
           "count", "wait"}

(* The end of entry (): the State Machine starts at the time that is in    *)
(* the Data Vector.                                                        *)
Init ==
  /\ dv = [InitialDv EXCEPT ![timeElem] = 0]
  /\ ret = "E_SUCCESS"
  /\ StateMachineInit(0)
  /\ pc = "ground"
  /\ currTimeNs = 0
  /\ clock = 0
  /\ clockFailures = 0
  /\ reqNum = 0
  /\ socket = <<>>
  /\ taken = <<>>
  /\ handled = <<>>

(* The parts of the loop follow each other; an error is counted first.     *)
Goto(from, to) ==
  /\ ret = "E_SUCCESS"
  /\ pc = from
  /\ pc' = to

(* Errors::incrementOnError *)
IncrementOnError ==
  /\ ret # "E_SUCCESS"
  /\ ret' = "E_SUCCESS"
  /\ dv' = Incremented(dv, errorCount)
  /\ UNCHANGED <<smVars, pc, timeVars, groundVars>>

-----------------------------------------------------------------------------
(* Ground: a request that is not lost on the way enters the socket.        *)

SendRequest(r) ==
  /\ reqNum < MaxRequests
  /\ reqNum' = reqNum + 1
  /\ \/ UNCHANGED socket
     \/ socket' = Append(socket, [req |-> r.req, elem |-> r.elem,
                                  val |-> r.val, num |-> reqNum + 1])
  /\ UNCHANGED <<dv, ret, smVars, pc, timeVars, taken, handled>>

(* sendAndRecvDataVectorData, with its early returns *)

SendFails ==
  /\ Goto("ground", "time")
  /\ ret' \in {"E_NETWORK_MANAGER_TX_FAIL", "E_FAILED_TO_GET_TIME"}
  /\ UNCHANGED <<dv, smVars, timeVars, groundVars>>

RecvFails ==
  /\ \/ /\ Goto("ground", "time")
        /\ ret' = "E_NETWORK_MANAGER_RX_FAIL"
     \/ /\ Goto("devices", "time")
        /\ ret' \in {"E_NETWORK_MANAGER_RX_FAIL", "E_FAILED_TO_GET_TIME"}
  /\ UNCHANGED <<dv, smVars, timeVars, groundVars>>

BugRecvFromGround ==
  /\ Goto("ground", "devices")
  /\ socket # <<>>
  /\ LET m == socket[Len(socket)]
     IN  dv' = [dv EXCEPT ![cmdReq] = m.req, ![cmdWriteElem] = m.elem,
                          ![cmdWriteVal] = m.val, ![cmdReqNum] = m.num]
  /\ socket' = <<>>
  /\ taken' = taken \o socket
  /\ UNCHANGED <<ret, smVars, timeVars, reqNum, handled>>

(* One message per loop, "so that sequential commands do not overwrite     *)
(* each other".                                                            *)
RecvFromGround ==
  /\ Goto("ground", "devices")
  /\ socket # <<>>
  /\ LET m == Head(socket)
     IN  dv' = [dv EXCEPT ![cmdReq] = m.req, ![cmdWriteElem] = m.elem,
                          ![cmdWriteVal] = m.val, ![cmdReqNum] = m.num]
  /\ socket' = Tail(socket)
  /\ taken' = Append(taken, Head(socket))
  /\ UNCHANGED <<ret, smVars, timeVars, reqNum, handled>>

RecvNothingFromGround ==
  /\ Goto("ground", "devices")
  /\ socket = <<>>
  /\ UNCHANGED <<dv, ret, smVars, timeVars, groundVars>>

(* The regions of the nodes in got are copied and a miss of the others is  *)
(* counted, node by node; a counter that cannot be incremented ends it.    *)
Stuck(got) ==
  {i \in DeviceNodes : i \notin got /\ ~CanIncrement(dv, rxMissCount[i])}

Served(got) == {i \in DeviceNodes : \A j \in Stuck(got) : i < j}

Regions == UNION {regionFromDn[i] : i \in DeviceNodes}

WithRegions(got, f) ==
  [e \in Elem |->
     IF \E i \in got \cap Served(got) : e \in regionFromDn[i] THEN f[e]
     ELSE IF \E i \in Served(got) \ got : e = rxMissCount[i] THEN dv[e] + 1
     ELSE dv[e]]

RecvFromDevices(got, f) ==
  /\ Goto("devices", "time")
  /\ \/ /\ Stuck(got) # {}
        /\ dv' = WithRegions(got, f)
        /\ ret' = "E_DATA_VECTOR_WRITE"
     \/ /\ Stuck(got) = {}
        /\ dv' = WithRegions(got, f)
        \* the time that ends the communications may not be readable
        /\ ret' \in {"E_SUCCESS", "E_FAILED_TO_GET_TIME"}
     \* the communications ended after their deadline
     \/ /\ Stuck(got) = {}
        /\ dv' = Incremented(WithRegions(got, f), commsMissCount)
        /\ ret' = IF CanIncrement(dv, commsMissCount) THEN "E_SUCCESS"
                                                      ELSE "E_DATA_VECTOR_WRITE"
  /\ UNCHANGED <<smVars, timeVars, groundVars>>

-----------------------------------------------------------------------------

BugReadTime ==
  /\ Goto("time", "command")
  /\ \E t \in 0 .. MaxTime :
       /\ clock' = t
       /\ currTimeNs' = t
       /\ dv' = [dv EXCEPT ![timeElem] = t]
  /\ UNCHANGED <<ret, smVars, clockFailures, groundVars>>

(* The Control Node is the time server of the other nodes, and nothing     *)
(* sets its clock back in flight.                                          *)
ReadTime ==
  /\ Goto("time", "command")
  /\ \E t \in clock .. MaxTime :
       /\ clock' = t
       /\ currTimeNs' = t
       /\ dv' = [dv EXCEPT ![timeElem] = t]
  /\ UNCHANGED <<ret, smVars, clockFailures, groundVars>>

(* currTimeNs is not initialized in loop: if the clock cannot be read, the *)
(* time in the Data Vector and of the step is whatever the stack held.     *)
ReadTimeFails ==
  /\ clockFailures < MaxClockFailures
  /\ Goto("time", "command")
  /\ clockFailures' = clockFailures + 1
  /\ \E t \in 0 .. MaxTime :
       /\ currTimeNs' = t
       /\ dv' = [dv EXCEPT ![timeElem] = t]
  /\ ret' = "E_FAILED_TO_GET_TIME"
  /\ UNCHANGED <<smVars, clock, groundVars>>

RunCommandHandler ==
  /\ Goto("command", "state")
  /\ \/ /\ HandleRequest
        /\ handled' = Append(handled, [req |-> dv[cmdReq],
                                       elem |-> dv[cmdWriteElem],
                                       val |-> dv[cmdWriteVal],
                                       num |-> dv[cmdReqNum]])
     \/ (RejectInvalidCommand \/ ClearCommand) /\ UNCHANGED handled
  /\ UNCHANGED <<smVars, timeVars, reqNum, socket, taken>>

StepStateMachine ==
  /\ Goto("state", "controllers")
  /\ StateMachineStep(currTimeNs)
  /\ UNCHANGED <<timeVars, groundVars>>

RunControllers ==
  /\ Goto("controllers", "count")
  /\ IgniterRun
  /\ UNCHANGED <<smVars, timeVars, groundVars>>

CountLoop ==
  /\ Goto("count", "wait")
  /\ dv' = Incremented(dv, loopCount)
  /\ ret' = IF CanIncrement(dv, loopCount) THEN "E_SUCCESS" ELSE "E_ALREADY_MAX"
  /\ UNCHANGED <<smVars, timeVars, groundVars>>

(* The thread waits for the next period; if it has begun already, the      *)
(* error handler counts a missed deadline (periodicErrorHandler).          *)
NextPeriod ==
  /\ Goto("wait", "ground")
  /\ \/ UNCHANGED <<dv, ret>>
     \/ /\ dv' = Incremented(dv, loopMissCount)
        /\ ret' = IF CanIncrement(dv, loopMissCount) THEN "E_SUCCESS"
                                                     ELSE "E_ALREADY_MAX"
  /\ UNCHANGED <<smVars, timeVars, groundVars>>

RegionValues ==
  {f \in [Regions -> UNION {Values(e) : e \in Regions}] :
     \A e \in Regions : f[e] \in Values(e)}

Loop ==
  \/ IncrementOnError
  \/ SendFails
  \/ RecvFails
  \/ RecvFromGround
  \/ RecvNothingFromGround
  \/ \E got \in SUBSET DeviceNodes, f \in RegionValues : RecvFromDevices(got, f)
  \/ ReadTime
  \/ ReadTimeFails
  \/ RunCommandHandler
  \/ StepStateMachine
  \/ RunControllers
  \/ CountLoop
  \/ NextPeriod

Next == Loop \/ \E r \in Requests : SendRequest(r)

Spec == Init /\ [][Next]_vars

(* The thread is periodic and runs at a real-time priority on a core of    *)
(* its own, so the loop goes on.  Sending and receiving do not fail for    *)
(* ever: a loop that could take a message of ground infinitely often does. *)
FairSpec == Spec /\ WF_vars(Loop) /\ SF_vars(RecvFromGround)

-----------------------------------------------------------------------------
(* Every request that the node takes from its socket is handled in the     *)
(* same loop, once and in order; none is overwritten by the next one       *)
(* before the Command Handler has seen it, whatever else fails in the loop *)
(* (ControlNode.cpp, "Only done once per loop so that sequential commands  *)
(* do not overwrite each other").                                          *)
NoCommandOverwritten ==
  pc \notin {"devices", "time", "command"} => handled = taken

(* States that safe the igniter on entry and do not enable it later. *)
WritesMode(s, k) == Actions[s][k].elem = modeElem

SafeStates ==
  {s \in States :
     /\ \E k \in DOMAIN Actions[s] : Actions[s][k].time = 0 /\ WritesMode(s, k)
     /\ \A k \in DOMAIN Actions[s] :
          /\ WritesMode(s, k) => Actions[s][k].val = MODE_SAFED
          /\ Actions[s][k].elem # igniterControlElem}

(* In a state that safes the igniter, the igniter is low from the end of   *)
(* the loop that entered the state, before the next data are sent to the   *)
(* Device Nodes: the State Machine is stepped before the controllers run,  *)
(* and executes the actions of a state in the step that enters it.         *)
SafeStateHoldsIgniterLow ==
  (mStateCurrent \in SafeStates /\ pc # "controllers") => ~Igniter

(* What this takes of the configuration and of ground, which nothing       *)
(* checks: that the mode of the controller and its control value are       *)
(* written by actions and the controller alone, and the igniter is low     *)
(* when the node starts.                                                   *)
IgniterIsSpared ==
  /\ InitialDv[igniterControlElem] = 0
  /\ modeElem \notin RequestElems \cup HandlerElems
  /\ \A i \in DeviceNodes :
       regionFromDn[i] \cap {modeElem, igniterControlElem} = {}
  /\ \A r \in Requests :
       r.req = CMD_WRITE => r.elem \notin {modeElem, igniterControlElem}

(* A state cannot lie in the future, which would make each step fail with  *)
(* E_INVALID_TIME, unless the clock could not be read.                     *)
FreezesOnlyAfterClockFailure ==
  clockFailures = 0 => /\ mStateStartTimeNs <= clock
                       /\ ret # "E_INVALID_TIME"

(* The igniter is not raised before the window opens: "a minimum mission   *)
(* time that must elapse before deployment is allowed"                     *)
(* (RecoveryIgniterController.hpp).                                        *)
NotBeforeTheWindow ==
  [][(~Igniter /\ Igniter') => clock >= tDepBoundLowNs]_vars

(* A request that reached the socket is handled. *)
RequestsAreHandled ==
  \A n \in 1 .. MaxRequests :
    (\E i \in DOMAIN socket : socket[i].num = n)
      ~> (\E i \in DOMAIN handled : handled[i].num = n)

(* States whose actions arm the system and enable the igniter. *)
Sets(s, e, v) ==
  /\ \E k \in DOMAIN Actions[s] : Actions[s][k].elem = e
  /\ \A k \in DOMAIN Actions[s] : Actions[s][k].elem = e => Actions[s][k].val = v

ArmingStates ==
  {s \in States : Sets(s, modeElem, MODE_ENABLED) /\ Sets(s, recArmedElem, 1)}

(* A rocket that stays in a state whose timed actions arm and enable the   *)
(* igniter deploys once the window is over, however late the loops are and *)
(* without any command.                                                    *)
ArmedStateDeploys ==
  \A s \in ArmingStates :
    <>[](/\ mStateCurrent = s
         /\ \A k \in DOMAIN Actions[s] :
              clock >= mStateStartTimeNs + Actions[s][k].time
         /\ clock > tDepBoundHighNs)
      => <>Fired
=============================================================================
