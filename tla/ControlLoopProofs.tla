-------------------------- MODULE ControlLoopProofs --------------------------
(***************************************************************************)
(* Proofs about ControlLoop, for every configuration of the node and every *)
(* course of requests, losses, failures and times.                         *)
(***************************************************************************)
EXTENDS ControlLoop, FiniteSetTheorems, WellFoundedInduction, TLAPS

CommandElems == RequestElems \cup HandlerElems

Request_t == [req : Nat, elem : Nat, val : Nat, num : Nat]

(* The request that is in the Data Vector. *)
Request == [req |-> dv[cmdReq], elem |-> dv[cmdWriteElem],
            val |-> dv[cmdWriteVal], num |-> dv[cmdReqNum]]

Spared(m) == IsValidCommand(m.req) /\ m.elem \notin CommandElems

IsDv(d) == d = [e \in Elem |-> d[e]]

LoopType ==
  /\ IsDv(dv)
  /\ dv[cmdReqNum] \in Nat /\ dv[lastCmdProcNum] \in Nat
  /\ pc \in Phases
  /\ reqNum \in Nat
  /\ socket \in Seq(Request_t)

(* What waits in the socket is newer than what was taken from it, and in   *)
(* the order in which ground sent it.                                      *)
SocketInOrder ==
  /\ dv[cmdReqNum] <= reqNum
  /\ \A i \in 1 .. Len(socket) :
       dv[cmdReqNum] < socket[i].num /\ socket[i].num <= reqNum /\ Spared(socket[i])
  /\ \A i, j \in 1 .. Len(socket) : i < j => socket[i].num < socket[j].num

(* All requests that were taken were handled ...                           *)
Quiet == handled = taken /\ dv[lastCmdProcNum] = dv[cmdReqNum]

(* ... or all but the last one, which the Command Handler will handle.     *)
Pending ==
  /\ taken = Append(handled, Request)
  /\ dv[lastCmdProcNum] < dv[cmdReqNum]
  /\ Spared(Request)

IInv ==
  /\ LoopType
  /\ SocketInOrder
  /\ Quiet \/ (Pending /\ pc \in {"devices", "time", "command"})

(* The types of the elements tell apart those that the node writes.        *)
LEMMA ElemFacts ==
  /\ CommandElems \subseteq Elem
  /\ cmdReqNum \in Elem /\ lastCmdProcNum \in Elem /\ cmdReq \in Elem
  /\ cmdWriteElem \in Elem /\ cmdWriteVal \in Elem /\ cmd \in Elem
  /\ cmd \notin RequestElems \cup {lastCmdProcNum}
  /\ lastCmdProcNum \notin RequestElems
  /\ cmdReq \notin {cmdWriteElem, cmdWriteVal, cmdReqNum}
  /\ cmdWriteElem \notin {cmdWriteVal, cmdReqNum}
  /\ cmdWriteVal # cmdReqNum
  <1> USE DEF RequestElems, HandlerElems, CommandElems
  <1>1. RequestElems \cup HandlerElems \subseteq Elem
    BY ChConfigAssumption DEF ChConfigVerified
  <1>2. /\ Type[cmd] = "DV_T_UINT8" /\ Type[cmdReq] = "DV_T_UINT8"
        /\ Type[cmdWriteElem] = "DV_T_UINT32" /\ Type[cmdReqNum] = "DV_T_UINT32"
        /\ Type[lastCmdProcNum] = "DV_T_UINT32" /\ Type[cmdWriteVal] = "DV_T_UINT64"
    BY ChConfigAssumption DEF ChConfigVerified
  <1> QED  BY <1>1, <1>2, ChConfigAssumption

LEMMA OtherElems ==
  /\ Counters \cap CommandElems = {}
  /\ timeElem \notin CommandElems
  /\ igniterControlElem \notin CommandElems
  /\ tDepTimeElem \notin {cmdReqNum, lastCmdProcNum}
  /\ \A i \in DeviceNodes : regionFromDn[i] \cap CommandElems = {}
                            /\ rxMissCount[i] \in Counters
  /\ {errorCount, loopCount, commsMissCount, loopMissCount} \subseteq Counters
  <1>1. /\ Type[cmd] = "DV_T_UINT8" /\ Type[cmdReq] = "DV_T_UINT8"
        /\ Type[cmdWriteElem] = "DV_T_UINT32" /\ Type[cmdReqNum] = "DV_T_UINT32"
        /\ Type[lastCmdProcNum] = "DV_T_UINT32" /\ Type[cmdWriteVal] = "DV_T_UINT64"
    BY ChConfigAssumption DEF ChConfigVerified
  <1>2. /\ Type[tDepTimeElem] = "DV_T_UINT64" /\ Type[missionTimeElem] = "DV_T_UINT64"
        /\ Type[igniterControlElem] = "DV_T_BOOL"
    BY IgniterConfigAssumption
  <1>3. timeElem \notin CommandElems /\ igniterControlElem \notin CommandElems
        /\ tDepTimeElem \notin {cmdReqNum, lastCmdProcNum}
    BY <1>1, <1>2, WriterAssumption
    DEF timeElem, CommandElems, RequestElems, HandlerElems
  <1>4. Counters \cap CommandElems = {}
    BY LoopConfigAssumption DEF CommandElems
  <1>5. \A i \in DeviceNodes : regionFromDn[i] \cap CommandElems = {}
    BY LoopConfigAssumption DEF CommandElems
  <1>6. /\ \A i \in DeviceNodes : rxMissCount[i] \in Counters
        /\ {errorCount, loopCount, commsMissCount, loopMissCount} \subseteq Counters
    BY DEF Counters
  <1> QED  BY <1>3, <1>4, <1>5, <1>6

(* What a step may do to the Data Vector when nothing is said about the    *)
(* request in it: all elements of commands are kept.                       *)
Kept(S) == IsDv(dv') /\ \A e \in S : dv'[e] = dv[e]

LEMMA WriteKeeps ==
  ASSUME NEW S \in SUBSET Elem, NEW x, x \notin S, IsDv(dv),
         NEW v, dv' = [dv EXCEPT ![x] = v]
  PROVE  Kept(S)
  BY DEF Kept, IsDv

LEMMA CountKeeps ==
  ASSUME NEW d, IsDv(d), NEW x, x \in Counters
  PROVE  /\ IsDv(Incremented(d, x))
         /\ \A e \in CommandElems : Incremented(d, x)[e] = d[e]
  <1>1. x \notin CommandElems
    BY OtherElems
  <1>2. CommandElems \subseteq Elem
    BY ElemFacts
  <1>3. Incremented(d, x) = d \/ Incremented(d, x) = [d EXCEPT ![x] = d[x] + 1]
    BY DEF Incremented
  <1> QED  BY <1>1, <1>2, <1>3 DEF IsDv

(* A step that leaves the elements of commands and the requests as they    *)
(* are keeps the invariant, if it does not leave the phases in which a     *)
(* request may be pending.                                                 *)
LEMMA KeptKeepsIInv ==
  ASSUME IInv, Kept(CommandElems), UNCHANGED groundVars,
         pc' \in Phases,
         pc \in {"devices", "time", "command"} =>
           pc' \in {"devices", "time", "command"}
  PROVE  IInv'
  <1>1. /\ dv'[cmdReq] = dv[cmdReq] /\ dv'[cmdWriteElem] = dv[cmdWriteElem]
        /\ dv'[cmdWriteVal] = dv[cmdWriteVal] /\ dv'[cmdReqNum] = dv[cmdReqNum]
        /\ dv'[lastCmdProcNum] = dv[lastCmdProcNum]
    BY DEF Kept, CommandElems, RequestElems, HandlerElems
  <1>2. Request' = Request
    BY <1>1 DEF Request
  <1>3. reqNum' = reqNum /\ socket' = socket /\ taken' = taken /\ handled' = handled
    BY DEF groundVars
  <1>4. LoopType'
    BY <1>1, <1>3 DEF IInv, LoopType, Kept
  <1>5. SocketInOrder'
    BY <1>1, <1>3 DEF IInv, SocketInOrder, Spared
  <1>6. Quiet => Quiet'
    BY <1>1, <1>3 DEF Quiet
  <1>7. Pending => Pending'
    BY <1>1, <1>2, <1>3 DEF Pending, Spared
  <1> QED  BY <1>4, <1>5, <1>6, <1>7 DEF IInv

(* After the Command Handler, only the two numbers matter.                 *)
LEMMA NumbersKeepIInv ==
  ASSUME IInv, Kept({cmdReqNum, lastCmdProcNum}), UNCHANGED groundVars,
         pc' \in Phases, pc \notin {"devices", "time", "command"}
  PROVE  IInv'
  <1>1. dv'[cmdReqNum] = dv[cmdReqNum] /\ dv'[lastCmdProcNum] = dv[lastCmdProcNum]
    BY DEF Kept
  <1>2. reqNum' = reqNum /\ socket' = socket /\ taken' = taken /\ handled' = handled
    BY DEF groundVars
  <1>3. LoopType'
    BY <1>1, <1>2 DEF IInv, LoopType, Kept
  <1>4. SocketInOrder'
    BY <1>1, <1>2 DEF IInv, SocketInOrder, Spared
  <1>5. Quiet'
    BY <1>1, <1>2 DEF IInv, Quiet
  <1> QED  BY <1>3, <1>4, <1>5 DEF IInv

-----------------------------------------------------------------------------
LEMMA InitEstablishesIInv == Init => IInv
  <1> SUFFICES ASSUME Init PROVE IInv
    OBVIOUS
  <1>1. InitialDv \in [Elem -> Nat]
    BY LoopBoundAssumption DEF DataVectors
  <1>2. IsDv(dv) /\ dv[cmdReqNum] = 0 /\ dv[lastCmdProcNum] = 0
    <2>1. InitialDv[cmdReqNum] = 0 /\ InitialDv[lastCmdProcNum] = 0
      BY LoopBoundAssumption DEF HandlerElems
    <2>2. timeElem # cmdReqNum /\ timeElem # lastCmdProcNum
      BY OtherElems DEF CommandElems, RequestElems, HandlerElems
    <2> QED  BY <1>1, <2>1, <2>2, ElemFacts DEF Init, IsDv
  <1>3. Quiet
    BY <1>2 DEF Init, Quiet
  <1>4. SocketInOrder /\ LoopType
    BY <1>2 DEF Init, SocketInOrder, LoopType, Phases
  <1> QED  BY <1>3, <1>4 DEF IInv

LEMMA SendRequestKeepsIInv ==
  ASSUME IInv, NEW r \in Requests, SendRequest(r)
  PROVE  IInv'
  <1> DEFINE m == [req |-> r.req, elem |-> r.elem, val |-> r.val,
                   num |-> reqNum + 1]
  <1>1. /\ reqNum' = reqNum + 1 /\ dv' = dv /\ pc' = pc
        /\ taken' = taken /\ handled' = handled
        /\ socket' = socket \/ socket' = Append(socket, m)
    BY DEF SendRequest
  <1>2. m \in Request_t /\ Spared(m) /\ m.num = reqNum + 1
    <2>1. r.req \in Nat /\ r.elem \in Nat /\ r.val \in Nat
      <3>1. r \in RequestType
        BY LoopConfigAssumption
      <3> QED  BY <3>1 DEF RequestType, Values
    <2>2. reqNum + 1 \in Nat
      BY DEF IInv, LoopType
    <2>3. Spared(m)
      BY LoopConfigAssumption DEF Spared, CommandElems
    <2> QED  BY <2>1, <2>2, <2>3 DEF Request_t
  <1> HIDE DEF m
  <1>3. LoopType'
    BY <1>1, <1>2 DEF IInv, LoopType
  <1>4. SocketInOrder'
    <2>1. /\ dv[cmdReqNum] \in Nat /\ reqNum \in Nat
          /\ socket \in Seq(Request_t) /\ Len(socket) \in Nat
          /\ \A i \in 1 .. Len(socket) : socket[i].num \in Nat
      <3>1. dv[cmdReqNum] \in Nat /\ reqNum \in Nat /\ socket \in Seq(Request_t)
        BY ElemFacts DEF IInv, LoopType
      <3>2. \A x \in Request_t : x.num \in Nat
        BY DEF Request_t
      <3> HIDE DEF Request_t
      <3>3. Len(socket) \in Nat /\ \A i \in 1 .. Len(socket) : socket[i] \in Request_t
        BY <3>1
      <3> QED  BY <3>1, <3>2, <3>3
    <2>2. CASE socket' = socket
      BY <1>1, <2>1, <2>2 DEF IInv, SocketInOrder
    <2>3. CASE socket' = Append(socket, m)
      <3>1. /\ Len(socket') = Len(socket) + 1
            /\ \A i \in 1 .. Len(socket) : socket'[i] = socket[i]
            /\ socket'[Len(socket) + 1] = m
        BY <1>2, <2>1, <2>3
      <3>2. \A i \in 1 .. Len(socket') : i \in 1 .. Len(socket) \/ i = Len(socket) + 1
        BY <2>1, <3>1
      <3>3. \A i \in 1 .. Len(socket') :
              /\ dv[cmdReqNum] < socket'[i].num /\ socket'[i].num <= reqNum + 1
              /\ Spared(socket'[i])
        BY <1>2, <2>1, <3>1, <3>2 DEF IInv, SocketInOrder
      <3>4. \A i, j \in 1 .. Len(socket') : i < j => socket'[i].num < socket'[j].num
        BY <1>2, <2>1, <3>1, <3>2 DEF IInv, SocketInOrder
      <3> QED  BY <1>1, <2>1, <3>3, <3>4 DEF IInv, SocketInOrder
    <2> QED  BY <1>1, <2>2, <2>3
  <1>5. Quiet' = Quiet /\ Pending' = Pending
    BY <1>1 DEF Quiet, Pending, Request
  <1> QED  BY <1>1, <1>3, <1>4, <1>5 DEF IInv

LEMMA RecvFromGroundKeepsIInv ==
  ASSUME IInv, RecvFromGround
  PROVE  IInv' /\ Request' = Head(socket)
  <1> DEFINE m == Head(socket)
  <1>1. /\ pc = "ground" /\ pc' = "devices" /\ socket # <<>>
        /\ dv' = [dv EXCEPT ![cmdReq] = m.req, ![cmdWriteElem] = m.elem,
                            ![cmdWriteVal] = m.val, ![cmdReqNum] = m.num]
        /\ socket' = Tail(socket) /\ taken' = Append(taken, m)
        /\ reqNum' = reqNum /\ handled' = handled
    BY DEF RecvFromGround, Goto
  <1>2. /\ IsDv(dv) /\ dv[lastCmdProcNum] \in Nat /\ socket \in Seq(Request_t)
        /\ Len(socket) \in Nat /\ Len(socket) >= 1 /\ m = socket[1]
        /\ 1 \in 1 .. Len(socket)
    BY <1>1 DEF IInv, LoopType
  <1>3. m \in Request_t /\ Spared(m) /\ dv[cmdReqNum] < m.num /\ m.num <= reqNum
    BY <1>2 DEF IInv, SocketInOrder
  <1> HIDE DEF m
  <1>4. m.req \in Nat /\ m.elem \in Nat /\ m.val \in Nat /\ m.num \in Nat
    BY <1>3 DEF Request_t
  <1>5. /\ IsDv(dv')
        /\ dv'[cmdReq] = m.req /\ dv'[cmdWriteElem] = m.elem
        /\ dv'[cmdWriteVal] = m.val /\ dv'[cmdReqNum] = m.num
        /\ dv'[lastCmdProcNum] = dv[lastCmdProcNum]
    <2>1. lastCmdProcNum \notin {cmdReq, cmdWriteElem, cmdWriteVal, cmdReqNum}
      BY ElemFacts DEF RequestElems
    <2> QED  BY <1>1, <1>2, <2>1, ElemFacts DEF IsDv
  <1>6. Request' = m
    BY <1>3, <1>5 DEF Request, Request_t
  <1>7. socket' \in Seq(Request_t) /\ Len(socket') = Len(socket) - 1
        /\ \A i \in 1 .. Len(socket') : socket'[i] = socket[i + 1]
    BY <1>1, <1>2
  <1>8. LoopType'
    BY <1>1, <1>2, <1>4, <1>5, <1>7 DEF IInv, LoopType, Phases
  <1>9. SocketInOrder'
    <2>1. \A i \in 1 .. Len(socket') : i + 1 \in 1 .. Len(socket) /\ 1 < i + 1
      BY <1>2, <1>7
    <2>2. \A i \in 1 .. Len(socket') :
            /\ m.num < socket'[i].num /\ socket'[i].num <= reqNum
            /\ Spared(socket'[i])
      BY <1>2, <1>7, <2>1 DEF IInv, SocketInOrder
    <2>3. ASSUME NEW i \in 1 .. Len(socket'), NEW j \in 1 .. Len(socket'), i < j
          PROVE  socket'[i].num < socket'[j].num
      <3>1. i + 1 \in 1 .. Len(socket) /\ j + 1 \in 1 .. Len(socket) /\ i + 1 < j + 1
        BY <1>2, <1>7, <2>1, <2>3
      <3>2. socket[i + 1].num < socket[j + 1].num
        BY <3>1 DEF IInv, SocketInOrder
      <3> QED  BY <1>7, <3>2
    <2> QED  BY <1>1, <1>3, <1>5, <2>2, <2>3 DEF SocketInOrder
  <1>10. Pending'
    <2>1. handled = taken /\ dv[lastCmdProcNum] = dv[cmdReqNum]
      BY <1>1 DEF IInv, Quiet
    <2> QED  BY <1>1, <1>3, <1>5, <1>6, <2>1 DEF Pending
  <1> QED  BY <1>1, <1>6, <1>8, <1>9, <1>10 DEF IInv, m

LEMMA RunCommandHandlerKeepsIInv ==
  ASSUME IInv, RunCommandHandler
  PROVE  IInv'
  <1>1. pc = "command" /\ pc' = "state" /\ UNCHANGED <<reqNum, socket, taken>>
    BY DEF RunCommandHandler, Goto
  <1>2. IsDv(dv) /\ dv[cmdReqNum] \in Nat /\ dv[lastCmdProcNum] \in Nat
    BY DEF IInv, LoopType
  <1>3. SUFFICES /\ IsDv(dv') /\ dv'[cmdReqNum] = dv[cmdReqNum]
                 /\ Quiet'
    BY <1>1, <1>2 DEF IInv, LoopType, SocketInOrder, Spared, Phases, Quiet
  <1>4. CASE Quiet
    <2>1. ~IsNewRequest
      BY <1>2, <1>4 DEF Quiet, IsNewRequest
    <2>2. /\ UNCHANGED handled
          /\ dv' = dv \/ dv' = [dv EXCEPT ![cmd] = 0]
      BY <2>1 DEF RunCommandHandler, HandleRequest, HandleFlightCommand,
                  HandleWrite, HandleWriteToMissingElem, RejectInvalidCommand,
                  ClearCommand, CMD_NONE
    <2>3. cmd # cmdReqNum /\ cmd # lastCmdProcNum
      BY ElemFacts DEF RequestElems
    <2>4. /\ IsDv(dv') /\ dv'[cmdReqNum] = dv[cmdReqNum]
          /\ dv'[lastCmdProcNum] = dv[lastCmdProcNum]
      BY <1>2, <2>2, <2>3, ElemFacts DEF IsDv
    <2> QED  BY <1>1, <1>4, <2>2, <2>4 DEF Quiet
  <1>5. CASE Pending
    <2>1. IsNewRequest /\ IsValidCommand(dv[cmdReq])
          /\ dv[cmdWriteElem] \notin CommandElems
      BY <1>5 DEF Pending, IsNewRequest, Spared, Request
    <2>2. /\ handled' = Append(handled, Request)
          /\ HandleRequest
      BY <2>1 DEF RunCommandHandler, RejectInvalidCommand, ClearCommand, Request
    <2>3. \/ dv' = Accepted
          \/ /\ dv[cmdWriteElem] \in Elem
             /\ dv' = [Accepted EXCEPT ![dv[cmdWriteElem]] =
                                    CastTo(dv[cmdWriteElem], dv[cmdWriteVal])]
      BY <2>2 DEF HandleRequest, HandleFlightCommand, HandleWrite,
                  HandleWriteToMissingElem, ElementExists
    <2>4. /\ IsDv(Accepted)
          /\ Accepted[cmdReqNum] = dv[cmdReqNum]
          /\ Accepted[lastCmdProcNum] = dv[cmdReqNum]
      <3>1. cmd # lastCmdProcNum /\ cmd # cmdReqNum /\ lastCmdProcNum # cmdReqNum
        BY ElemFacts DEF RequestElems
      <3> QED  BY <1>2, <3>1, ElemFacts DEF Accepted, IsDv
    <2>5. dv[cmdWriteElem] # cmdReqNum /\ dv[cmdWriteElem] # lastCmdProcNum
      BY <2>1 DEF CommandElems, RequestElems, HandlerElems
    <2>6. /\ IsDv(dv')
          /\ dv'[cmdReqNum] = dv[cmdReqNum]
          /\ dv'[lastCmdProcNum] = dv[cmdReqNum]
      <3> HIDE DEF Accepted
      <3> QED  BY <2>3, <2>4, <2>5, ElemFacts DEF IsDv
    <2>7. handled' = taken'
      BY <1>1, <1>5, <2>2 DEF Pending
    <2> QED  BY <2>6, <2>7 DEF Quiet
  <1> QED  BY <1>4, <1>5 DEF IInv

LEMMA RecvFromDevicesKeeps ==
  ASSUME IInv, NEW got \in SUBSET DeviceNodes, NEW f \in RegionValues,
         RecvFromDevices(got, f)
  PROVE  Kept(CommandElems)
  <1> DEFINE w == WithRegions(got, f)
  <1>1. IsDv(w)
    BY DEF WithRegions, IsDv
  <1>2. \A e \in CommandElems : w[e] = dv[e]
    BY OtherElems, ElemFacts DEF WithRegions, Served
  <1> HIDE DEF w
  <1>3. dv' = w \/ dv' = Incremented(w, commsMissCount)
    BY DEF RecvFromDevices, w
  <1> QED  BY <1>1, <1>2, <1>3, CountKeeps, OtherElems DEF Kept

LEMMA ReadingTimeKeeps ==
  ASSUME IInv, ReadTime \/ ReadTimeFails
  PROVE  Kept(CommandElems)
  <1>1. \E t : dv' = [dv EXCEPT ![timeElem] = t]
    BY DEF ReadTime, ReadTimeFails
  <1>2. IsDv(dv)
    BY DEF IInv, LoopType
  <1> QED  BY <1>1, <1>2, WriteKeeps, OtherElems, ElemFacts

LEMMA StepStateMachineKeeps ==
  ASSUME IInv, mStateCurrent \in States, mActionIter \in Nat \ {0},
         StepStateMachine
  PROVE  Kept({cmdReqNum, lastCmdProcNum})
  <1>1. /\ cmdReqNum \in CommandElems /\ lastCmdProcNum \in CommandElems
        /\ cmdReqNum # stateElem /\ lastCmdProcNum # stateElem
    BY WriterAssumption DEF CommandElems, RequestElems, HandlerElems
  <1>2. IsDv(dv)
    BY DEF IInv, LoopType
  <1>3. ASSUME NEW d, NEW s \in States, NEW iter \in Nat \ {0}, NEW elapsed
        PROVE  /\ IsDv(Executed(d, s, Due(s, iter, elapsed)))
               /\ \A e \in CommandElems :
                    Executed(d, s, Due(s, iter, elapsed))[e] = d[e]
    <2> DEFINE K == Due(s, iter, elapsed)
    <2>1. Actions[s] \in Seq(Action)
      BY SmConfigAssumption DEF SmConfigVerified
    <2>2. K \subseteq DOMAIN Actions[s]
      BY <2>1 DEF Due
    <2>3. \A k \in K : Actions[s][k].elem \notin CommandElems
      BY <2>2, WriterAssumption DEF CommandElems
    <2> HIDE DEF K
    <2>4. Executed(d, s, K)
            = [e \in Elem |-> IF \E k \in K : Actions[s][k].elem = e
                               THEN Actions[s][LastWrite(s, K, e)].val
                               ELSE d[e]]
      BY DEF Executed
    <2>5. IsDv(Executed(d, s, K))
      BY <2>4 DEF IsDv
    <2>6. ASSUME NEW e \in CommandElems PROVE Executed(d, s, K)[e] = d[e]
      <3>1. e \in Elem /\ ~(\E k \in K : Actions[s][k].elem = e)
        BY <2>3, ElemFacts
      <3> QED  BY <2>4, <3>1
    <2> QED  BY <2>5, <2>6 DEF K
  <1>4. CASE StepInvalidTime(currTimeNs)
    BY <1>2, <1>4 DEF StepInvalidTime, Kept
  <1>5. CASE StepStay(currTimeNs)
    <2>1. dv' = Executed(dv, mStateCurrent,
                         Due(mStateCurrent, mActionIter,
                             currTimeNs - mStateStartTimeNs))
      BY <1>5 DEF StepStay
    <2> QED  BY <1>1, <1>3, <2>1 DEF Kept
  <1>6. CASE StepSwitch(currTimeNs)
    <2>1. PICK s \in States : dv' = Executed(Entered(s), s, Due(s, 1, 0))
      BY <1>6 DEF StepSwitch, FirstAction
    <2>2. /\ IsDv(dv') /\ dv'[cmdReqNum] = Entered(s)[cmdReqNum]
          /\ dv'[lastCmdProcNum] = Entered(s)[lastCmdProcNum]
      BY <1>1, <1>3, <2>1
    <2>3. /\ Entered(s)[cmdReqNum] = dv[cmdReqNum]
          /\ Entered(s)[lastCmdProcNum] = dv[lastCmdProcNum]
      BY <1>1, <1>2, ElemFacts DEF Entered, IsDv
    <2> QED  BY <2>2, <2>3 DEF Kept
  <1> QED  BY <1>4, <1>5, <1>6 DEF StepStateMachine, StateMachineStep

LEMMA RunControllersKeep ==
  ASSUME IInv, RunControllers
  PROVE  Kept({cmdReqNum, lastCmdProcNum})
  <1>1. /\ igniterControlElem \notin {cmdReqNum, lastCmdProcNum}
        /\ tDepTimeElem \notin {cmdReqNum, lastCmdProcNum}
    BY OtherElems DEF CommandElems, RequestElems, HandlerElems
  <1>2. IsDv(dv)
    BY DEF IInv, LoopType
  <1>3. \/ dv' = dv
        \/ dv' = [dv EXCEPT ![igniterControlElem] = 0]
        \/ dv' = [dv EXCEPT ![tDepTimeElem] = now, ![igniterControlElem] = 1]
    BY DEF RunControllers, IgniterRun, RunMode, RunInvalidMode, RunSafed,
           RunEnabled, Disarmed, EndBurn, KeepBurning, Deploy, Wait, Lower
  <1> QED  BY <1>1, <1>2, <1>3, ElemFacts DEF Kept, IsDv

-----------------------------------------------------------------------------
(* What makes FreezesOnlyAfterClockFailure inductive: while the clock was  *)
(* always read, the step of the State Machine gets the time it shows.      *)
TimeInv ==
  /\ mStateCurrent \in States
  /\ mActionIter \in Nat \ {0}
  /\ mStateStartTimeNs \in Nat /\ clock \in Nat /\ currTimeNs \in Nat
  /\ clockFailures \in Nat
  /\ clockFailures = 0 =>
       /\ mStateStartTimeNs <= clock
       /\ pc \in {"command", "state"} => currTimeNs = clock
       /\ ret # "E_INVALID_TIME"

LEMMA InitEstablishesTimeInv == Init => TimeInv
  <1>1. stateElem \in Elem /\ stateElem # timeElem
    BY SmConfigAssumption, IgniterConfigAssumption DEF SmConfigVerified, timeElem
  <1>2. InitialDv \in [Elem -> Nat] /\ InitialDv[stateElem] \in States
    BY LoopBoundAssumption DEF DataVectors
  <1> QED  BY <1>1, <1>2 DEF Init, StateMachineInit, TimeInv

(* Parts of the loop that touch neither the State Machine nor the time.    *)
LEMMA OthersKeepTimeInv ==
  ASSUME TimeInv, UNCHANGED <<smVars, timeVars>>,
         pc' \in {"command", "state"} => pc = "command" \/ pc' = pc,
         ret' = ret \/ ret' # "E_INVALID_TIME"
  PROVE  TimeInv'
  BY DEF TimeInv, smVars, timeVars

LEMMA DueCounts ==
  ASSUME NEW s \in States, NEW iter \in Nat \ {0}, NEW elapsed
  PROVE  iter + Cardinality(Due(s, iter, elapsed)) \in Nat \ {0}
  <1>1. Len(Actions[s]) \in Nat
    BY SmConfigAssumption DEF SmConfigVerified
  <1>2. IsFiniteSet(iter .. Len(Actions[s]))
    BY <1>1, FS_Interval
  <1>3. Due(s, iter, elapsed) \subseteq iter .. Len(Actions[s])
    BY DEF Due
  <1>4. IsFiniteSet(Due(s, iter, elapsed))
    BY <1>2, <1>3, FS_Subset
  <1>5. Cardinality(Due(s, iter, elapsed)) \in Nat
    BY <1>4, FS_CardinalityType
  <1> QED  BY <1>5

LEMMA StepKeepsTimeInv ==
  ASSUME TimeInv, StepStateMachine
  PROVE  TimeInv'
  <1>1. pc = "state" /\ pc' = "controllers" /\ UNCHANGED timeVars
    BY DEF StepStateMachine, Goto
  <1>2. CASE StepInvalidTime(currTimeNs)
    <2>1. clockFailures # 0
      BY <1>1, <1>2 DEF TimeInv, StepInvalidTime
    <2> QED  BY <1>1, <1>2, <2>1 DEF TimeInv, StepInvalidTime, smVars, timeVars
  <1>3. CASE StepStay(currTimeNs)
    <2>1. /\ mStateCurrent' = mStateCurrent /\ mStateStartTimeNs' = mStateStartTimeNs
          /\ ret' = "E_SUCCESS"
          /\ mActionIter' = mActionIter +
               Cardinality(Due(mStateCurrent, mActionIter,
                               currTimeNs - mStateStartTimeNs))
      BY <1>3 DEF StepStay
    <2>2. mActionIter' \in Nat \ {0}
      BY <2>1, DueCounts DEF TimeInv
    <2> QED  BY <1>1, <2>1, <2>2 DEF TimeInv, timeVars
  <1>4. CASE StepSwitch(currTimeNs)
    <2>1. PICK s \in States :
            /\ mStateCurrent' = s /\ mStateStartTimeNs' = currTimeNs
            /\ mActionIter' = 1 + Cardinality(Due(s, 1, 0))
      BY <1>4 DEF StepSwitch, FirstAction
    <2>2. mActionIter' \in Nat \ {0} /\ ret' = "E_SUCCESS"
      BY <1>4, <2>1, DueCounts DEF StepSwitch
    <2> QED  BY <1>1, <2>1, <2>2 DEF TimeInv, timeVars
  <1> QED  BY <1>2, <1>3, <1>4 DEF StepStateMachine, StateMachineStep

LEMMA ReadingKeepsTimeInv ==
  ASSUME TimeInv, ReadTime \/ ReadTimeFails
  PROVE  TimeInv'
  <1>1. CASE ReadTime
    <2>1. PICK t \in clock .. MaxTime : clock' = t /\ currTimeNs' = t
      BY <1>1 DEF ReadTime
    <2>2. t \in Nat /\ clock <= t
      BY LoopBoundAssumption DEF TimeInv
    <2> QED  BY <1>1, <2>1, <2>2 DEF ReadTime, Goto, TimeInv, smVars
  <1>2. CASE ReadTimeFails
    <2>1. PICK t \in 0 .. MaxTime : currTimeNs' = t
      BY <1>2 DEF ReadTimeFails
    <2>2. t \in Nat
      BY LoopBoundAssumption
    <2> QED  BY <1>2, <2>1, <2>2 DEF ReadTimeFails, TimeInv, smVars
  <1> QED  BY <1>1, <1>2

LEMMA NextKeepsTimeInv ==
  ASSUME TimeInv, [Next]_vars
  PROVE  TimeInv'
  <1>1. CASE ReadTime \/ ReadTimeFails
    BY <1>1, ReadingKeepsTimeInv
  <1>2. CASE StepStateMachine
    BY <1>2, StepKeepsTimeInv
  <1>3. CASE \/ IncrementOnError \/ SendFails \/ RecvFails \/ RecvFromGround
             \/ RecvNothingFromGround \/ CountLoop \/ NextPeriod
             \/ \E r \in Requests : SendRequest(r)
             \/ \E got \in SUBSET DeviceNodes, f \in RegionValues :
                  RecvFromDevices(got, f)
    BY <1>3, OthersKeepTimeInv
    DEF IncrementOnError, SendFails, RecvFails, RecvFromGround,
        RecvNothingFromGround, CountLoop, NextPeriod, SendRequest,
        RecvFromDevices, Goto
  <1>4. CASE RunCommandHandler
    BY <1>4, OthersKeepTimeInv
    DEF RunCommandHandler, Goto, HandleRequest, HandleFlightCommand,
        HandleWrite, HandleWriteToMissingElem, RejectInvalidCommand,
        ClearCommand
  <1>5. CASE RunControllers
    BY <1>5, OthersKeepTimeInv
    DEF RunControllers, Goto, IgniterRun, RunMode, RunInvalidMode
  <1>6. CASE UNCHANGED vars
    BY <1>6, OthersKeepTimeInv DEF vars
  <1> QED  BY <1>1, <1>2, <1>3, <1>4, <1>5, <1>6 DEF Next, Loop

LEMMA NextKeepsIInv ==
  ASSUME IInv, TimeInv, [Next]_vars
  PROVE  IInv'
  <1>1. IsDv(dv) /\ pc \in Phases
    BY DEF IInv, LoopType
  <1>2. CASE IncrementOnError
    <2>1. Kept(CommandElems)
      BY <1>1, <1>2, CountKeeps, OtherElems DEF IncrementOnError, Kept
    <2> QED  BY <1>1, <1>2, <2>1, KeptKeepsIInv DEF IncrementOnError
  <1>3. CASE SendFails \/ RecvFails \/ RecvNothingFromGround
    <2>1. /\ dv' = dv /\ UNCHANGED groundVars
          /\ pc \in {"ground", "devices"} /\ pc' \in {"time", "devices"}
      BY <1>3 DEF SendFails, RecvFails, RecvNothingFromGround, Goto
    <2>2. Kept(CommandElems) /\ pc' \in Phases
      BY <1>1, <2>1 DEF Kept, Phases
    <2> QED  BY <2>1, <2>2, KeptKeepsIInv
  <1>4. CASE RecvFromGround
    BY <1>4, RecvFromGroundKeepsIInv
  <1>5. ASSUME NEW got \in SUBSET DeviceNodes, NEW f \in RegionValues,
               RecvFromDevices(got, f)
        PROVE  IInv'
    <2>1. Kept(CommandElems)
      BY <1>5, RecvFromDevicesKeeps
    <2>2. pc' = "time" /\ UNCHANGED groundVars
      BY <1>5 DEF RecvFromDevices, Goto
    <2> QED  BY <2>1, <2>2, KeptKeepsIInv DEF Phases
  <1>6. CASE ReadTime \/ ReadTimeFails
    <2>1. Kept(CommandElems)
      BY <1>6, ReadingTimeKeeps
    <2>2. pc' = "command" /\ UNCHANGED groundVars
      BY <1>6 DEF ReadTime, ReadTimeFails, Goto
    <2> QED  BY <2>1, <2>2, KeptKeepsIInv DEF Phases
  <1>7. CASE RunCommandHandler
    BY <1>7, RunCommandHandlerKeepsIInv
  <1>8. CASE StepStateMachine
    <2>1. Kept({cmdReqNum, lastCmdProcNum})
      BY <1>8, StepStateMachineKeeps DEF TimeInv
    <2>2. pc = "state" /\ pc' = "controllers" /\ UNCHANGED groundVars
      BY <1>8 DEF StepStateMachine, Goto
    <2> QED  BY <2>1, <2>2, NumbersKeepIInv DEF Phases
  <1>9. CASE RunControllers
    <2>1. Kept({cmdReqNum, lastCmdProcNum})
      BY <1>9, RunControllersKeep
    <2>2. pc = "controllers" /\ pc' = "count" /\ UNCHANGED groundVars
      BY <1>9 DEF RunControllers, Goto
    <2> QED  BY <2>1, <2>2, NumbersKeepIInv DEF Phases
  <1>10. CASE CountLoop \/ NextPeriod
    <2>1. Kept(CommandElems)
      <3>1. \/ dv' = dv
            \/ dv' = Incremented(dv, loopCount)
            \/ dv' = Incremented(dv, loopMissCount)
        BY <1>10 DEF CountLoop, NextPeriod
      <3>2. loopCount \in Counters /\ loopMissCount \in Counters
        BY OtherElems
      <3> QED  BY <1>1, <3>1, <3>2, CountKeeps DEF Kept
    <2>2. /\ pc \in {"count", "wait"} /\ pc' \in {"wait", "ground"}
          /\ UNCHANGED groundVars
      BY <1>10 DEF CountLoop, NextPeriod, Goto
    <2> QED  BY <2>1, <2>2, KeptKeepsIInv DEF Phases
  <1>11. ASSUME NEW r \in Requests, SendRequest(r) PROVE IInv'
    BY <1>11, SendRequestKeepsIInv
  <1>12. CASE UNCHANGED vars
    <2>1. Kept(CommandElems) /\ UNCHANGED groundVars /\ pc' = pc
      BY <1>1, <1>12 DEF vars, Kept
    <2> QED  BY <1>1, <2>1, KeptKeepsIInv
  <1> QED
    BY <1>2, <1>3, <1>4, <1>5, <1>6, <1>7, <1>8, <1>9, <1>10, <1>11, <1>12
    DEF Next, Loop

LEMMA InvIsInvariant == Spec => [](IInv /\ TimeInv)
  <1>1. Init => IInv /\ TimeInv
    BY InitEstablishesIInv, InitEstablishesTimeInv
  <1>2. IInv /\ TimeInv /\ [Next]_vars => IInv' /\ TimeInv'
    BY NextKeepsIInv, NextKeepsTimeInv
  <1> QED  BY <1>1, <1>2, PTL DEF Spec

-----------------------------------------------------------------------------
(* No request that the node takes is overwritten before it is handled, for *)
(* any losses, failures and lateness of the loop (ControlNode.cpp, loop,   *)
(* and CommandHandler::run).                                               *)
THEOREM CommandsSurvive == Spec => []NoCommandOverwritten
  <1>1. IInv => NoCommandOverwritten
    BY DEF IInv, Quiet, NoCommandOverwritten
  <1> QED  BY <1>1, InvIsInvariant, PTL

(* While the clock could be read, no step of the State Machine is refused  *)
(* (StateMachine::step, E_INVALID_TIME).                                   *)
THEOREM NeverFreezes == Spec => []FreezesOnlyAfterClockFailure
  <1>1. TimeInv => FreezesOnlyAfterClockFailure
    BY DEF TimeInv, FreezesOnlyAfterClockFailure
  <1> QED  BY <1>1, InvIsInvariant, PTL
-----------------------------------------------------------------------------
(* The igniter is low in a safe state.  No request writes the mode or the  *)
(* control value of the igniter, and in a safe state the mode is safed once*)
(* its actions at time 0 were executed; which they are when it is entered, *)
(* or in the first step if the rocket starts in it.                        *)

IgniterOutputs == {modeElem, igniterControlElem}

LeavesIgniter(m) == m.req = CMD_WRITE => m.elem \notin IgniterOutputs

RequestsLeaveIgniter ==
  /\ \A i \in 1 .. Len(socket) : LeavesIgniter(socket[i])
  /\ IsNewRequest => LeavesIgniter(Request)

SafeStateInv ==
  mStateCurrent \in SafeStates =>
    /\ pc # "controllers" => ~Igniter
    /\ \/ dv[modeElem] = MODE_SAFED
       \/ mActionIter = 1 /\ mStateStartTimeNs = 0 /\ pc # "controllers"

LEMMA OutputFacts ==
  ASSUME IgniterIsSpared
  PROVE  /\ IgniterOutputs \subseteq Elem
         /\ modeElem # igniterControlElem
         /\ IgniterOutputs \cap (CommandElems \cup Counters) = {}
         /\ stateElem \notin IgniterOutputs /\ timeElem \notin IgniterOutputs
         /\ tDepTimeElem \notin IgniterOutputs
         /\ \A i \in DeviceNodes : regionFromDn[i] \cap IgniterOutputs = {}
  <1> USE DEF IgniterOutputs
  <1>1. /\ IgniterOutputs \subseteq Elem
        /\ Type[modeElem] = "DV_T_UINT8" /\ Type[igniterControlElem] = "DV_T_BOOL"
        /\ Type[tDepTimeElem] = "DV_T_UINT64" /\ Type[timeElem] = "DV_T_UINT64"
    BY IgniterConfigAssumption DEF IgniterConfigVerified, IgniterElems, timeElem
  <1>2. Type[stateElem] = "DV_T_UINT32"
    BY SmConfigAssumption DEF SmConfigVerified
  <1>3. IgniterOutputs \cap Counters = {}
    BY LoopConfigAssumption DEF IgniterElems
  <1>4. igniterControlElem \notin CommandElems /\ modeElem \notin CommandElems
    BY OtherElems DEF IgniterIsSpared, CommandElems
  <1> QED  BY <1>1, <1>2, <1>3, <1>4 DEF IgniterIsSpared

LEMMA CountLeaves ==
  ASSUME IgniterIsSpared, NEW d, IsDv(d), NEW x, x \in Counters
  PROVE  /\ IsDv(Incremented(d, x))
         /\ \A e \in IgniterOutputs : Incremented(d, x)[e] = d[e]
  <1>1. x \notin IgniterOutputs /\ IgniterOutputs \subseteq Elem
    BY OutputFacts
  <1>2. Incremented(d, x) = d \/ Incremented(d, x) = [d EXCEPT ![x] = d[x] + 1]
    BY DEF Incremented
  <1> QED  BY <1>1, <1>2 DEF IsDv

(* A nonempty set of indices has a largest one. *)
LEMMA LargestIndex ==
  ASSUME NEW n \in Nat, NEW K \in SUBSET (1 .. n), K # {}
  PROVE  \E k \in K : \A j \in K : j <= k
  <1> DEFINE T == {n - k : k \in K}
  <1>1. T \subseteq Nat /\ T # {}
    <2>1. \A k \in K : n - k \in Nat
      OBVIOUS
    <2> QED  BY <2>1, Zenon
  <1>2. \E x \in T : \A y \in T : <<y, x>> \notin OpToRel(<, Nat)
    <2> HIDE DEF T
    <2> QED  BY <1>1, NatLessThanWellFounded, WFMin, Zenon
  <1>3. PICK k \in K : \A j \in K : <<n - j, n - k>> \notin OpToRel(<, Nat)
    BY <1>2, Zenon
  <1>4. ASSUME NEW j \in K PROVE j <= k
    <2>1. n - j \in Nat /\ n - k \in Nat
      OBVIOUS
    <2>2. ~(n - j < n - k)
      BY <1>3, <2>1 DEF OpToRel
    <2> QED  BY <2>2
  <1> QED  BY <1>4

(* In a safe state the actions that are due leave the control value alone, *)
(* and the mode safed: if it was, or if the first ones are among them.     *)
LEMMA SafeActions ==
  ASSUME IgniterIsSpared, NEW s \in SafeStates, NEW d, NEW iter \in Nat \ {0},
         NEW elapsed
  PROVE  /\ Executed(d, s, Due(s, iter, elapsed))[igniterControlElem]
              = d[igniterControlElem]
         /\ d[modeElem] = MODE_SAFED \/ (iter = 1 /\ elapsed \in Nat) =>
              Executed(d, s, Due(s, iter, elapsed))[modeElem] = MODE_SAFED
  <1> DEFINE K == Due(s, iter, elapsed)
             W == {k \in K : Actions[s][k].elem = modeElem}
             e == Executed(d, s, K)
  <1>1. /\ s \in States
        /\ \E k \in DOMAIN Actions[s] : Actions[s][k].time = 0 /\ WritesMode(s, k)
        /\ \A k \in DOMAIN Actions[s] :
             /\ Actions[s][k].elem = modeElem => Actions[s][k].val = MODE_SAFED
             /\ Actions[s][k].elem # igniterControlElem
    BY DEF SafeStates, WritesMode
  <1>2. /\ Actions[s] \in Seq(Action)
        /\ DOMAIN Actions[s] = 1 .. Len(Actions[s]) /\ Len(Actions[s]) \in Nat
    BY <1>1, SmConfigAssumption DEF SmConfigVerified
  <1>3. K \subseteq 1 .. Len(Actions[s])
    BY <1>2 DEF Due
  <1>4. modeElem \in Elem /\ igniterControlElem \in Elem
    BY OutputFacts DEF IgniterOutputs
  <1>5. e[igniterControlElem] = d[igniterControlElem]
    <2>1. ~(\E k \in K : Actions[s][k].elem = igniterControlElem)
      BY <1>1, <1>2, <1>3
    <2> HIDE DEF K
    <2> QED  BY <1>4, <2>1 DEF Executed
  <1>6. CASE W = {}
    <2>1. e[modeElem] = d[modeElem]
      <3>1. ~(\E k \in K : Actions[s][k].elem = modeElem)
        BY <1>6
      <3> HIDE DEF K
      <3> QED  BY <1>4, <3>1 DEF Executed
    <2>2. ~(iter = 1 /\ elapsed \in Nat)
      <3> SUFFICES ASSUME iter = 1, elapsed \in Nat PROVE FALSE
        OBVIOUS
      <3>1. PICK k \in DOMAIN Actions[s] :
              Actions[s][k].time = 0 /\ WritesMode(s, k)
        BY <1>1
      <3>2. k \in W
        BY <1>2, <3>1 DEF Due, WritesMode
      <3> QED  BY <1>6, <3>2
    <2> QED  BY <1>5, <2>1, <2>2
  <1>7. CASE W # {}
    <2>1. \E k \in W : \A j \in W : j <= k
      BY <1>2, <1>3, <1>7, LargestIndex
    <2>2. LastWrite(s, K, modeElem) \in K
          /\ Actions[s][LastWrite(s, K, modeElem)].elem = modeElem
      <3>1. \E k \in K : /\ Actions[s][k].elem = modeElem
                         /\ \A j \in K : Actions[s][j].elem = modeElem => j <= k
        BY <2>1
      <3> HIDE DEF K
      <3> QED  BY <3>1 DEF LastWrite
    <2>3. e[modeElem] = Actions[s][LastWrite(s, K, modeElem)].val
      <3>1. \E k \in K : Actions[s][k].elem = modeElem
        BY <1>7
      <3> HIDE DEF K
      <3> QED  BY <1>4, <3>1 DEF Executed
    <2>4. e[modeElem] = MODE_SAFED
      <3> HIDE DEF K
      <3> QED  BY <1>1, <1>2, <1>3, <2>2, <2>3
    <2> QED  BY <1>5, <2>4
  <1> QED  BY <1>6, <1>7

LEMMA OutputsKeepSafe ==
  ASSUME SafeStateInv, Kept(IgniterOutputs), UNCHANGED smVars,
         pc # "controllers", pc' # "controllers"
  PROVE  SafeStateInv'
  BY DEF SafeStateInv, Kept, IgniterOutputs, smVars, Igniter

LEMMA StepKeepsSafe ==
  ASSUME IgniterIsSpared, IInv, TimeInv, SafeStateInv, StepStateMachine
  PROVE  SafeStateInv'
  <1>1. pc = "state" /\ pc' = "controllers" /\ IsDv(dv) /\ currTimeNs \in Nat
    BY DEF StepStateMachine, Goto, IInv, LoopType, TimeInv
  <1> SUFFICES ASSUME mStateCurrent' \in SafeStates
               PROVE  dv'[modeElem] = MODE_SAFED
    BY <1>1 DEF SafeStateInv
  <1>2. \A s \in SafeStates : \A d : \A iter \in Nat \ {0} : \A elapsed :
          d[modeElem] = MODE_SAFED \/ (iter = 1 /\ elapsed \in Nat) =>
            Executed(d, s, Due(s, iter, elapsed))[modeElem] = MODE_SAFED
    BY SafeActions
  <1>3. CASE StepInvalidTime(currTimeNs)
    <2>1. mStateStartTimeNs # 0 /\ UNCHANGED <<dv, smVars>>
      BY <1>1, <1>3 DEF StepInvalidTime
    <2> QED  BY <1>1, <2>1 DEF SafeStateInv, smVars
  <1>4. CASE StepStay(currTimeNs)
    <2>1. /\ mStateCurrent' = mStateCurrent
          /\ dv' = Executed(dv, mStateCurrent,
                            Due(mStateCurrent, mActionIter,
                                currTimeNs - mStateStartTimeNs))
          /\ mActionIter \in Nat \ {0}
      BY <1>4 DEF StepStay, TimeInv
    <2>2. mStateStartTimeNs = 0 => currTimeNs - mStateStartTimeNs \in Nat
      BY <1>1
    <2>3. \/ dv[modeElem] = MODE_SAFED
          \/ mActionIter = 1 /\ currTimeNs - mStateStartTimeNs \in Nat
      BY <2>1, <2>2 DEF SafeStateInv
    <2> QED  BY <1>2, <2>1, <2>3, Zenon
  <1>5. CASE StepSwitch(currTimeNs)
    <2>1. PICK s \in States :
            mStateCurrent' = s /\ dv' = Executed(Entered(s), s, Due(s, 1, 0))
      BY <1>5 DEF StepSwitch, FirstAction
    <2>2. s \in SafeStates /\ 1 \in Nat \ {0} /\ 0 \in Nat
      BY <2>1
    <2>3. Executed(Entered(s), s, Due(s, 1, 0))[modeElem] = MODE_SAFED
      BY <1>2, <2>2, Zenon
    <2> QED  BY <2>1, <2>3
  <1> QED  BY <1>3, <1>4, <1>5 DEF StepStateMachine, StateMachineStep

LEMMA ControllersKeepSafe ==
  ASSUME IgniterIsSpared, IInv, SafeStateInv, RunControllers
  PROVE  SafeStateInv'
  <1>1. /\ pc = "controllers" /\ pc' = "count" /\ UNCHANGED smVars /\ IsDv(dv)
        /\ IgniterRun
    BY DEF RunControllers, Goto, IInv, LoopType
  <1> SUFFICES ASSUME mStateCurrent \in SafeStates
               PROVE  dv'[modeElem] = MODE_SAFED /\ ~Igniter'
    BY <1>1 DEF SafeStateInv, smVars
  <1>2. dv[modeElem] = MODE_SAFED
    BY <1>1 DEF SafeStateInv
  <1>3. dv' = [dv EXCEPT ![igniterControlElem] = 0]
    BY <1>1, <1>2
    DEF IgniterRun, RunMode, RunInvalidMode, RunSafed, Lower, MODE_SAFED, MODE_ENABLED
  <1> QED  BY <1>1, <1>2, <1>3, OutputFacts DEF IsDv, IgniterOutputs, Igniter

(* What a request that is handled writes. *)
LEMMA CommandsLeaveIgniter ==
  ASSUME IgniterIsSpared, IInv, RequestsLeaveIgniter, RunCommandHandler
  PROVE  Kept(IgniterOutputs)
  <1>1. IsDv(dv) /\ {cmd, lastCmdProcNum} \cap IgniterOutputs = {}
        /\ IgniterOutputs \subseteq Elem
    BY OutputFacts DEF IInv, LoopType, CommandElems, HandlerElems
  <1>2. CASE HandleRequest
    <2>1. IsDv(Accepted) /\ \A e \in IgniterOutputs : Accepted[e] = dv[e]
      BY <1>1 DEF Accepted, IsDv
    <2>2. \/ dv' = Accepted
          \/ /\ IsNewRequest /\ dv[cmdReq] = CMD_WRITE
             /\ dv' = [Accepted EXCEPT ![dv[cmdWriteElem]] =
                                    CastTo(dv[cmdWriteElem], dv[cmdWriteVal])]
      BY <1>2 DEF HandleRequest, HandleFlightCommand, HandleWrite,
                  HandleWriteToMissingElem
    <2>3. IsNewRequest /\ dv[cmdReq] = CMD_WRITE =>
            dv[cmdWriteElem] \notin IgniterOutputs
      BY DEF RequestsLeaveIgniter, LeavesIgniter, Request
    <2> HIDE DEF Accepted
    <2> QED  BY <1>1, <2>1, <2>2, <2>3 DEF Kept, IsDv
  <1>3. CASE dv' = dv \/ dv' = [dv EXCEPT ![cmd] = CMD_NONE]
    BY <1>1, <1>3 DEF Kept, IsDv
  <1> QED  BY <1>2, <1>3 DEF RunCommandHandler, RejectInvalidCommand, ClearCommand

LEMMA DevicesLeaveIgniter ==
  ASSUME IgniterIsSpared, NEW got \in SUBSET DeviceNodes, NEW f \in RegionValues,
         RecvFromDevices(got, f)
  PROVE  Kept(IgniterOutputs)
  <1> DEFINE w == WithRegions(got, f)
  <1>1. IsDv(w)
    BY DEF WithRegions, IsDv
  <1>2. \A e \in IgniterOutputs : w[e] = dv[e]
    BY OutputFacts, OtherElems DEF WithRegions, Served
  <1> HIDE DEF w
  <1>3. dv' = w \/ dv' = Incremented(w, commsMissCount)
    BY DEF RecvFromDevices, w
  <1> QED  BY <1>1, <1>2, <1>3, CountLeaves, OutputFacts, OtherElems DEF Kept

LEMMA NextKeepsSafe ==
  ASSUME IgniterIsSpared, IInv, TimeInv, RequestsLeaveIgniter, SafeStateInv,
         [Next]_vars
  PROVE  SafeStateInv'
  <1>1. IsDv(dv)
    BY DEF IInv, LoopType
  <1>2. CASE IncrementOnError \/ CountLoop \/ NextPeriod
    <2>1. PICK x \in Counters : dv' = dv \/ dv' = Incremented(dv, x)
      BY <1>2, OtherElems DEF IncrementOnError, CountLoop, NextPeriod
    <2>2. Kept(IgniterOutputs)
      BY <1>1, <2>1, CountLeaves, OutputFacts DEF Kept
    <2>3. /\ UNCHANGED smVars
          /\ pc' = pc \/ (pc # "controllers" /\ pc' # "controllers")
      BY <1>2 DEF IncrementOnError, CountLoop, NextPeriod, Goto
    <2> QED
      BY <2>2, <2>3 DEF SafeStateInv, Kept, IgniterOutputs, smVars, Igniter
  <1>3. CASE SendFails \/ RecvFails \/ RecvNothingFromGround
    <2>1. Kept(IgniterOutputs) /\ UNCHANGED smVars
          /\ pc # "controllers" /\ pc' # "controllers"
      BY <1>1, <1>3 DEF SendFails, RecvFails, RecvNothingFromGround, Goto, Kept
    <2> QED  BY <2>1, OutputsKeepSafe
  <1>4. CASE RecvFromGround
    <2>1. \E m : dv' = [dv EXCEPT ![cmdReq] = m.req, ![cmdWriteElem] = m.elem,
                                 ![cmdWriteVal] = m.val, ![cmdReqNum] = m.num]
      BY <1>4 DEF RecvFromGround
    <2>2. {cmdReq, cmdWriteElem, cmdWriteVal, cmdReqNum} \cap IgniterOutputs = {}
      BY OutputFacts DEF CommandElems, RequestElems
    <2>3. Kept(IgniterOutputs)
      BY <1>1, <2>1, <2>2, OutputFacts DEF Kept, IsDv
    <2>4. UNCHANGED smVars /\ pc # "controllers" /\ pc' # "controllers"
      BY <1>4 DEF RecvFromGround, Goto
    <2> QED  BY <2>3, <2>4, OutputsKeepSafe
  <1>5. ASSUME NEW got \in SUBSET DeviceNodes, NEW f \in RegionValues,
               RecvFromDevices(got, f)
        PROVE  SafeStateInv'
    <2>1. UNCHANGED smVars /\ pc # "controllers" /\ pc' # "controllers"
      BY <1>5 DEF RecvFromDevices, Goto
    <2> QED  BY <1>5, <2>1, DevicesLeaveIgniter, OutputsKeepSafe
  <1>6. CASE ReadTime \/ ReadTimeFails
    <2>1. \E t : dv' = [dv EXCEPT ![timeElem] = t]
      BY <1>6 DEF ReadTime, ReadTimeFails
    <2>2. Kept(IgniterOutputs)
      BY <1>1, <2>1, OutputFacts, WriteKeeps
    <2>3. UNCHANGED smVars /\ pc # "controllers" /\ pc' # "controllers"
      BY <1>6 DEF ReadTime, ReadTimeFails, Goto
    <2> QED  BY <2>2, <2>3, OutputsKeepSafe
  <1>7. CASE RunCommandHandler
    <2>1. UNCHANGED smVars /\ pc # "controllers" /\ pc' # "controllers"
      BY <1>7 DEF RunCommandHandler, Goto
    <2> QED  BY <1>7, <2>1, CommandsLeaveIgniter, OutputsKeepSafe
  <1>8. CASE StepStateMachine
    BY <1>8, StepKeepsSafe
  <1>9. CASE RunControllers
    BY <1>9, ControllersKeepSafe
  <1>10. CASE UNCHANGED <<dv, smVars, pc>>
    BY <1>10 DEF SafeStateInv, smVars, Igniter
  <1> QED
    BY <1>2, <1>3, <1>4, <1>5, <1>6, <1>7, <1>8, <1>9, <1>10
    DEF Next, Loop, SendRequest, vars

LEMMA NextKeepsRequests ==
  ASSUME IgniterIsSpared, IInv, TimeInv, RequestsLeaveIgniter, [Next]_vars
  PROVE  RequestsLeaveIgniter'
  <1>1. IInv' /\ IsDv(dv) /\ socket \in Seq(Request_t)
    BY NextKeepsIInv DEF IInv, LoopType
  <1>2. \A i \in 1 .. Len(socket') : LeavesIgniter(socket'[i])
    <2>1. CASE socket' = socket
      BY <2>1 DEF RequestsLeaveIgniter
    <2>2. ASSUME NEW r \in Requests, SendRequest(r), socket' # socket
          PROVE  \A i \in 1 .. Len(socket') : LeavesIgniter(socket'[i])
      <3> DEFINE m == [req |-> r.req, elem |-> r.elem, val |-> r.val,
                       num |-> reqNum + 1]
      <3>1. socket' = Append(socket, m)
        BY <2>2 DEF SendRequest
      <3>2. LeavesIgniter(m)
        BY DEF LeavesIgniter, IgniterIsSpared, IgniterOutputs
      <3> HIDE DEF m
      <3>3. \A i \in 1 .. Len(socket') :
              \/ i \in 1 .. Len(socket) /\ socket'[i] = socket[i]
              \/ socket'[i] = m
        BY <1>1, <3>1
      <3> QED  BY <3>2, <3>3 DEF RequestsLeaveIgniter
    <2>3. CASE RecvFromGround
      <3>1. socket # <<>> /\ socket' = Tail(socket)
        BY <2>3 DEF RecvFromGround
      <3>2. \A i \in 1 .. Len(socket') :
              i + 1 \in 1 .. Len(socket) /\ socket'[i] = socket[i + 1]
        BY <1>1, <3>1
      <3> QED  BY <3>2 DEF RequestsLeaveIgniter
    <2> QED
      BY <2>1, <2>2, <2>3
      DEF Next, Loop, vars, groundVars, IncrementOnError, SendFails, RecvFails,
          RecvNothingFromGround, RecvFromDevices, ReadTime, ReadTimeFails,
          RunCommandHandler, StepStateMachine, RunControllers, CountLoop,
          NextPeriod
  <1>3. ASSUME IsNewRequest' PROVE LeavesIgniter(Request)'
    <2>1. Pending' /\ pc' \in {"devices", "time", "command"}
      BY <1>1, <1>3 DEF IInv, LoopType, Quiet, IsNewRequest
    <2>2. CASE RecvFromGround
      <3>1. socket # <<>>
        BY <2>2 DEF RecvFromGround
      <3>2. 1 \in 1 .. Len(socket) /\ Head(socket) = socket[1]
        BY <1>1, <3>1
      <3>3. Request' = Head(socket)
        BY <2>2, RecvFromGroundKeepsIInv
      <3> QED  BY <3>2, <3>3 DEF RequestsLeaveIgniter, LeavesIgniter
    <2>3. CASE Kept(CommandElems)
      <3>1. Request' = Request /\ IsNewRequest' = IsNewRequest
        BY <2>3 DEF Kept, Request, IsNewRequest, CommandElems, RequestElems,
                    HandlerElems
      <3> QED  BY <1>3, <3>1 DEF RequestsLeaveIgniter, LeavesIgniter
    <2>4. CASE \E got \in SUBSET DeviceNodes, f \in RegionValues :
                 RecvFromDevices(got, f)
      BY <2>3, <2>4, RecvFromDevicesKeeps
    <2>5. CASE ReadTime \/ ReadTimeFails
      BY <2>3, <2>5, ReadingTimeKeeps
    <2>6. CASE IncrementOnError
      BY <1>1, <2>3, <2>6, CountKeeps, OtherElems DEF IncrementOnError, Kept
    <2>7. CASE dv' = dv
      BY <1>1, <2>3, <2>7 DEF Kept
    <2>8. ~(RunCommandHandler \/ StepStateMachine \/ RunControllers \/ CountLoop
              \/ NextPeriod)
      BY <2>1 DEF RunCommandHandler, StepStateMachine, RunControllers, CountLoop,
                  NextPeriod, Goto
    <2> QED
      BY <2>2, <2>4, <2>5, <2>6, <2>7, <2>8
      DEF Next, Loop, SendRequest, SendFails, RecvFails, RecvNothingFromGround,
          vars
  <1> QED  BY <1>2, <1>3 DEF RequestsLeaveIgniter

(* In a state that safes the igniter, its control value is low whenever    *)
(* data are sent to the Device Nodes, for every configuration and all      *)
(* requests that leave the mode and the control value to the actions and   *)
(* the controller.  A node that starts in such a state needs no more: its  *)
(* actions at time 0 are executed before the controllers run.              *)
THEOREM SafeMeansLow ==
  ASSUME IgniterIsSpared
  PROVE  Spec => []SafeStateHoldsIgniterLow
  <1>1. Init => RequestsLeaveIgniter /\ SafeStateInv
    <2> SUFFICES ASSUME Init PROVE RequestsLeaveIgniter /\ SafeStateInv
      OBVIOUS
    <2>1. IInv /\ TimeInv /\ pc = "ground" /\ socket = <<>>
      BY InitEstablishesIInv, InitEstablishesTimeInv DEF Init
    <2>2. ~IsNewRequest
      BY <2>1 DEF IInv, LoopType, Quiet, IsNewRequest
    <2>3. ~Igniter
      <3>1. InitialDv \in [Elem -> Nat]
        BY LoopBoundAssumption DEF DataVectors
      <3> QED
        BY <3>1, OutputFacts
        DEF Init, IgniterIsSpared, IgniterOutputs, Igniter
    <2>4. mActionIter = 1 /\ mStateStartTimeNs = 0
      BY DEF Init, StateMachineInit
    <2> QED
      BY <2>1, <2>2, <2>3, <2>4 DEF RequestsLeaveIgniter, SafeStateInv
  <1>2. RequestsLeaveIgniter /\ SafeStateInv /\ IInv /\ TimeInv /\ [Next]_vars
          => RequestsLeaveIgniter' /\ SafeStateInv'
    BY NextKeepsRequests, NextKeepsSafe
  <1>3. SafeStateInv => SafeStateHoldsIgniterLow
    BY DEF SafeStateInv, SafeStateHoldsIgniterLow
  <1> QED  BY <1>1, <1>2, <1>3, InvIsInvariant, PTL DEF Spec

=============================================================================
