------------------------ MODULE GroundCommandsProofs ------------------------
(***************************************************************************)
(* Proofs about GroundCommands, for every configuration, every set of      *)
(* requests and every number of requests and restarts.                     *)
(***************************************************************************)
EXTENDS GroundCommands, TLAPS

(* The six elements are different, by their types or by assumption.        *)
LEMMA DistinctElems ==
  /\ RequestElems \cup HandlerElems \subseteq Elem
  /\ cmd \notin RequestElems \cup {lastCmdProcNum}
  /\ lastCmdProcNum \notin RequestElems
  /\ cmdReq \notin {cmdWriteElem, cmdWriteVal, cmdReqNum}
  /\ cmdWriteElem \notin {cmdWriteVal, cmdReqNum}
  /\ cmdWriteVal # cmdReqNum
  BY ChConfigAssumption DEF ChConfigVerified, RequestElems, HandlerElems

(* The elements of a request and of the handler hold natural numbers, and  *)
(* what moves from one to the other fits.                                  *)
LEMMA ElemValues ==
  /\ \A e \in Elem : \E m \in Nat \ {0} : Values(e) = 0 .. m - 1
  /\ Values(cmd) = Values(cmdReq)
  /\ Values(lastCmdProcNum) = Values(cmdReqNum)
  /\ 0 \in Values(cmd)
  /\ \A n \in 0 .. MaxRequests : n \in Values(cmdReqNum)
  <1>1. Modulus \in [TypeName -> Nat \ {0, 1}] /\ Type \in [Elem -> TypeName]
    BY ModulusAssumption, TypeAssumption
  <1>2. \A e \in Elem : Modulus[Type[e]] \in Nat \ {0, 1}
    BY <1>1
  <1>3. Type[cmdReqNum] = "DV_T_UINT32" /\ cmdReqNum \in Elem /\ cmd \in Elem
    BY ChConfigAssumption DEF ChConfigVerified, RequestElems, HandlerElems
  <1>4. \A n \in 0 .. MaxRequests : n \in Values(cmdReqNum)
    BY <1>2, <1>3, BoundAssumption DEF Values
  <1> QED  BY <1>2, <1>3, <1>4, ChConfigAssumption DEF ChConfigVerified, Values

LEMMA ModuloInRange ==
  ASSUME NEW m \in Nat \ {0}, NEW n \in Nat
  PROVE  n % m \in 0 .. m - 1
  OBVIOUS

(* A cast gives a value of the type of the element. *)
LEMMA CastInRange ==
  ASSUME NEW e \in Elem, NEW v \in Nat
  PROVE  CastTo(e, v) \in Values(e) /\ CastTo(e, v) \in Nat
  <1>1. Modulus[Type[e]] \in Nat \ {0, 1}
    BY ModulusAssumption, TypeAssumption
  <1>2. v % Modulus[Type[e]] \in 0 .. Modulus[Type[e]] - 1
    BY <1>1, ModuloInRange
  <1>3. CASE Type[e] = "DV_T_BOOL"
    BY <1>3, ModulusAssumption DEF CastTo, Values
  <1>4. CASE Type[e] # "DV_T_BOOL"
    BY <1>1, <1>2, <1>4 DEF CastTo, Values
  <1> QED  BY <1>3, <1>4

(* An assignment of a value of its type keeps the Data Vector well typed.  *)
LEMMA WriteKeepsType ==
  ASSUME NEW d \in DataVectors, NEW e \in Elem, NEW v \in Nat, v \in Values(e)
  PROVE  [d EXCEPT ![e] = v] \in DataVectors
  BY DEF DataVectors

-----------------------------------------------------------------------------
(* What makes the invariants inductive.  Ground's messages spare the       *)
(* elements that count requests, so a request that is about to be handled  *)
(* does too; the region of the initial values is none, its number is 0.    *)
SparesCounting(e) == e \notin RequestElems \cup HandlerElems

WritesSpareCounting ==
  /\ \A m \in sent : SparesCounting(m.elem)
  /\ IsNewRequest => SparesCounting(dv[cmdWriteElem])

IInv ==
  /\ TypeOK
  /\ HandledInOrder
  /\ LastProcessedIsLastHandled
  /\ WritesSpareCounting

LEMMA TypedRegion ==
  ASSUME TypeOK
  PROVE  /\ dv \in DataVectors
         /\ \A e \in Elem : dv[e] \in Values(e) /\ dv[e] \in Nat
         /\ Region \in Message
  BY DistinctElems DEF TypeOK, DataVectors, Region, Message, RequestElems

LEMMA InitEstablishesIInv == Init => IInv
  <1> SUFFICES ASSUME Init PROVE IInv
    OBVIOUS
  <1>1. TypeOK
    BY InitialDvAssumption, BoundAssumption DEF Init, TypeOK, Error_t
  <1>2. HandledInOrder /\ LastProcessedIsLastHandled /\ WritesSpareCounting
    BY InitialDvAssumption
       DEF Init, HandledInOrder, LastProcessedIsLastHandled,
           WritesSpareCounting, IsNewRequest
  <1> QED  BY <1>1, <1>2 DEF IInv

LEMMA SendKeepsIInv ==
  ASSUME IInv, NEW r \in Requests, SendRequest(r)
  PROVE  IInv'
  <1>1. /\ r \in RequestType /\ SparesCounting(r.elem)
        /\ reqNum + 1 \in 0 .. MaxRequests
    BY RequestAssumption, BoundAssumption
       DEF SendRequest, IInv, TypeOK, SparesCounting
  <1>2. [req |-> r.req, elem |-> r.elem, val |-> r.val, num |-> reqNum + 1] \in Message
    BY <1>1, ElemValues DEF RequestType, Message
  <1>3. TypeOK'
    BY <1>1, <1>2 DEF SendRequest, IInv, TypeOK
  <1>4. (HandledInOrder /\ LastProcessedIsLastHandled)'
    BY DEF SendRequest, IInv, HandledInOrder, LastProcessedIsLastHandled
  <1>5. WritesSpareCounting'
    BY <1>1 DEF SendRequest, IInv, WritesSpareCounting, IsNewRequest, SparesCounting
  <1> QED  BY <1>3, <1>4, <1>5 DEF IInv

(* Receiving a message replaces the region and nothing else.               *)
LEMMA RegionReplaced ==
  ASSUME TypeOK, NEW m \in sent
  PROVE  /\ WithRegion(m) \in DataVectors
         /\ WithRegion(m)[cmd] = dv[cmd]
         /\ WithRegion(m)[lastCmdProcNum] = dv[lastCmdProcNum]
         /\ WithRegion(m)[cmdWriteElem] = m.elem
  <1>1. /\ m.req \in Values(cmdReq) /\ m.elem \in Values(cmdWriteElem)
        /\ m.val \in Values(cmdWriteVal) /\ m.num \in Values(cmdReqNum)
    BY DEF TypeOK, Message
  <1>2. m.req \in Nat /\ m.elem \in Nat /\ m.val \in Nat /\ m.num \in Nat
    BY <1>1, ElemValues, DistinctElems DEF RequestElems
  <1>3. [dv EXCEPT ![cmdReq] = m.req] \in DataVectors
    BY <1>1, <1>2, WriteKeepsType, DistinctElems DEF RequestElems, TypeOK
  <1>4. [dv EXCEPT ![cmdReq] = m.req, ![cmdWriteElem] = m.elem] \in DataVectors
    BY <1>1, <1>2, <1>3, WriteKeepsType, DistinctElems DEF RequestElems
  <1>5. [dv EXCEPT ![cmdReq] = m.req, ![cmdWriteElem] = m.elem,
                   ![cmdWriteVal] = m.val] \in DataVectors
    BY <1>1, <1>2, <1>4, WriteKeepsType, DistinctElems DEF RequestElems
  <1>6. WithRegion(m) \in DataVectors
    BY <1>1, <1>2, <1>5, WriteKeepsType, DistinctElems DEF RequestElems, WithRegion
  <1> QED  BY <1>6, DistinctElems
           DEF WithRegion, RequestElems, HandlerElems, TypeOK, DataVectors

LEMMA RecvKeepsIInv ==
  ASSUME IInv, NEW m \in sent, Recv(m)
  PROVE  IInv'
  <1>1. dv' = WithRegion(m) /\ UNCHANGED <<ret, reqNum, restarts, sent, handled>>
    BY DEF Recv
  <1>2. TypeOK'
    BY <1>1, RegionReplaced DEF Recv, IInv, TypeOK
  <1>3. (HandledInOrder /\ LastProcessedIsLastHandled)'
    BY <1>1, RegionReplaced DEF IInv, HandledInOrder, LastProcessedIsLastHandled
  <1>4. WritesSpareCounting'
    BY <1>1, RegionReplaced DEF IInv, WritesSpareCounting
  <1> QED  BY <1>2, <1>3, <1>4 DEF IInv

-----------------------------------------------------------------------------
(* Handling a request marks it handled and makes its command the active    *)
(* one, whatever else it writes.                                           *)
LEMMA HandleRequestEffect ==
  ASSUME TypeOK, WritesSpareCounting, HandleRequest
  PROVE  /\ IsNewRequest
         /\ dv' \in DataVectors
         /\ dv'[cmd] = dv[cmdReq]
         /\ dv'[lastCmdProcNum] = dv[cmdReqNum]
         /\ dv'[cmdReqNum] = dv[cmdReqNum]
         /\ ret' \in Error_t
  <1> USE DistinctElems DEF RequestElems, HandlerElems
  <1>1. /\ [dv EXCEPT ![lastCmdProcNum] = dv[cmdReqNum]] \in DataVectors
        /\ dv[cmdReqNum] \in Nat /\ dv[cmdReq] \in Nat
    BY TypedRegion, ElemValues, WriteKeepsType
  <1>2. Accepted \in DataVectors
    BY <1>1, TypedRegion, ElemValues, WriteKeepsType DEF Accepted
  <1>3. /\ Accepted[cmd] = dv[cmdReq]
        /\ Accepted[lastCmdProcNum] = dv[cmdReqNum]
        /\ Accepted[cmdReqNum] = dv[cmdReqNum]
    BY TypedRegion DEF Accepted, DataVectors
  <1>4. CASE HandleWrite
    <2> DEFINE e == dv[cmdWriteElem]
    <2>1. e \in Elem /\ e \notin {cmd, lastCmdProcNum, cmdReqNum}
      BY <1>4 DEF HandleWrite, ElementExists, WritesSpareCounting, SparesCounting
    <2>2. CastTo(e, dv[cmdWriteVal]) \in Values(e) /\ CastTo(e, dv[cmdWriteVal]) \in Nat
      BY <2>1, TypedRegion, CastInRange
    <2>3. dv' = [Accepted EXCEPT ![e] = CastTo(e, dv[cmdWriteVal])]
      BY <1>4 DEF HandleWrite
    <2>4. dv' \in DataVectors
      BY <1>2, <2>1, <2>2, <2>3, WriteKeepsType
    <2>5. \A f \in {cmd, lastCmdProcNum, cmdReqNum} : dv'[f] = Accepted[f]
      BY <1>2, <2>1, <2>3 DEF DataVectors
    <2> QED  BY <1>3, <1>4, <2>4, <2>5 DEF HandleWrite, Error_t
  <1> QED  BY <1>2, <1>3, <1>4
           DEF HandleRequest, HandleFlightCommand, HandleWriteToMissingElem, Error_t

(* A run that handles nothing leaves the numbers of the requests alone.    *)
LEMMA NoRequestEffect ==
  ASSUME TypeOK, RejectInvalidCommand \/ ClearCommand
  PROVE  /\ dv' \in DataVectors
         /\ dv'[cmd] = dv[cmd] \/ dv'[cmd] = CMD_NONE
         /\ \A e \in RequestElems \cup {lastCmdProcNum} : dv'[e] = dv[e]
         /\ ret' \in Error_t
  <1> USE DistinctElems DEF RequestElems, HandlerElems
  <1>1. CASE RejectInvalidCommand
    BY <1>1 DEF RejectInvalidCommand, Error_t, TypeOK
  <1>2. CASE ClearCommand
    <2>1. [dv EXCEPT ![cmd] = CMD_NONE] \in DataVectors
      BY ElemValues, WriteKeepsType DEF CMD_NONE, TypeOK
    <2> QED  BY <1>2, <2>1 DEF ClearCommand, Error_t, DataVectors
  <1> QED  BY <1>1, <1>2

(* Every request handled before has a number of at most lastCmdProcNum.    *)
LEMMA HandledUpToLast ==
  ASSUME IInv
  PROVE  \A i \in DOMAIN handled :
           handled[i].num \in Nat /\ handled[i].num <= dv[lastCmdProcNum]
  <1> SUFFICES ASSUME NEW i \in DOMAIN handled
      PROVE  handled[i].num \in Nat /\ handled[i].num <= dv[lastCmdProcNum]
    OBVIOUS
  <1>1. /\ handled \in Seq(Message) /\ handled # <<>>
        /\ Len(handled) \in DOMAIN handled
        /\ i <= Len(handled) /\ i \in Nat /\ Len(handled) \in Nat
    BY DEF IInv, TypeOK
  <1>2. \A j \in DOMAIN handled : handled[j].num \in Nat
    <2>1. Values(cmdReqNum) \subseteq Nat
      BY ElemValues, DistinctElems DEF RequestElems
    <2>2. \A j \in DOMAIN handled : handled[j] \in Message
      BY <1>1
    <2> QED  BY <2>1, <2>2 DEF Message
  <1>3. i = Len(handled) \/ handled[i].num < handled[Len(handled)].num
    BY <1>1 DEF IInv, HandledInOrder
  <1>4. dv[lastCmdProcNum] = handled[Len(handled)].num
    BY <1>1 DEF IInv, LastProcessedIsLastHandled
  <1> QED  BY <1>1, <1>2, <1>3, <1>4

LEMMA RunHandlerKeepsIInv ==
  ASSUME IInv, RunHandler
  PROVE  IInv'
  <1>1. CASE HandleRequest /\ handled' = Append(handled, Region)
    <2>1. /\ IsNewRequest
          /\ dv' \in DataVectors
          /\ dv'[lastCmdProcNum] = dv[cmdReqNum]
          /\ dv'[cmdReqNum] = dv[cmdReqNum]
          /\ ret' \in Error_t
      BY <1>1, HandleRequestEffect DEF IInv
    <2>2. Region \in Message /\ Region.num = dv[cmdReqNum] /\ handled \in Seq(Message)
      BY TypedRegion DEF IInv, TypeOK, Region
    <2>3. TypeOK'
      BY <1>1, <2>1, <2>2 DEF RunHandler, IInv, TypeOK
    <2>4. /\ handled' \in Seq(Message)
          /\ Len(handled') = Len(handled) + 1
          /\ \A i \in DOMAIN handled : handled'[i] = handled[i]
          /\ handled'[Len(handled')] = Region
          /\ DOMAIN handled' = DOMAIN handled \cup {Len(handled')}
      BY <1>1, <2>2
    <2>5. \A i \in DOMAIN handled : handled[i].num < Region.num
      BY <2>1, <2>2, HandledUpToLast, TypedRegion, DistinctElems
         DEF IInv, IsNewRequest, RequestElems, HandlerElems
    <2>6. HandledInOrder'
      <3> SUFFICES ASSUME NEW i \in DOMAIN handled', NEW j \in DOMAIN handled', i < j
          PROVE  handled'[i].num < handled'[j].num
        BY DEF HandledInOrder
      <3>1. i \in DOMAIN handled
        BY <2>2, <2>4
      <3>2. CASE j \in DOMAIN handled
        BY <2>4, <3>1, <3>2 DEF IInv, HandledInOrder
      <3>3. CASE j = Len(handled')
        BY <2>4, <2>5, <3>1, <3>3
      <3> QED  BY <2>4, <3>2, <3>3
    <2>7. LastProcessedIsLastHandled'
      BY <2>1, <2>2, <2>4 DEF LastProcessedIsLastHandled
    <2>8. WritesSpareCounting'
      <3>1. ~IsNewRequest'
        BY <2>1, TypedRegion, DistinctElems DEF IsNewRequest, IInv, RequestElems
      <3> QED  BY <3>1 DEF RunHandler, IInv, WritesSpareCounting
    <2> QED  BY <2>3, <2>6, <2>7, <2>8 DEF IInv
  <1>2. CASE (RejectInvalidCommand \/ ClearCommand) /\ UNCHANGED handled
    <2>1. /\ dv' \in DataVectors
          /\ \A e \in RequestElems \cup {lastCmdProcNum} : dv'[e] = dv[e]
          /\ ret' \in Error_t
      BY <1>2, NoRequestEffect DEF IInv
    <2>2. TypeOK'
      BY <1>2, <2>1 DEF RunHandler, IInv, TypeOK
    <2>3. (HandledInOrder /\ LastProcessedIsLastHandled)'
      BY <1>2, <2>1 DEF IInv, HandledInOrder, LastProcessedIsLastHandled
    <2>4. WritesSpareCounting'
      BY <2>1 DEF RunHandler, IInv, WritesSpareCounting, IsNewRequest, RequestElems
    <2> QED  BY <2>2, <2>3, <2>4 DEF IInv
  <1> QED  BY <1>1, <1>2 DEF RunHandler

LEMMA NextKeepsIInv == IInv /\ [Next]_vars => IInv'
  <1>1. ASSUME IInv, UNCHANGED vars PROVE IInv'
    BY <1>1 DEF vars, IInv, TypeOK, HandledInOrder, LastProcessedIsLastHandled,
                WritesSpareCounting, IsNewRequest
  <1>2. ASSUME IInv, GroundRestart PROVE IInv'
    <2>1. TypeOK'
      BY <1>2, BoundAssumption DEF GroundRestart, IInv, TypeOK
    <2> QED  BY <1>2, <2>1
             DEF GroundRestart, IInv, HandledInOrder, LastProcessedIsLastHandled,
                 WritesSpareCounting, IsNewRequest
  <1>3. ASSUME IInv, RecvNothing PROVE IInv'
    BY <1>3 DEF RecvNothing, IInv, TypeOK, HandledInOrder,
                LastProcessedIsLastHandled, WritesSpareCounting, IsNewRequest
  <1> QED  BY <1>1, <1>2, <1>3, SendKeepsIInv, RecvKeepsIInv, RunHandlerKeepsIInv
           DEF Next

THEOREM IInvHolds == Spec => []IInv
  BY InitEstablishesIInv, NextKeepsIInv, PTL DEF Spec

-----------------------------------------------------------------------------
(* The Data Vector stays well typed, through every cast of a WRITE.        *)
THEOREM TypeCorrect == Spec => []TypeOK
  BY IInvHolds, PTL DEF IInv

(* No request is handled twice or after a later one, however the network   *)
(* reorders and repeats the messages and however often ground restarts.    *)
THEOREM InOrder == Spec => []HandledInOrder
  BY IInvHolds, PTL DEF IInv

(* The number in the Data Vector is that of the last request handled.      *)
THEOREM LastProcessed == Spec => []LastProcessedIsLastHandled
  BY IInvHolds, PTL DEF IInv

(* A request appended to those handled is one with the highest number.     *)
LEMMA PerformStep ==
  ASSUME IInv, HandleRequest, handled' = Append(handled, Region)
  PROVE  Service!Next
  <1>1. IsNewRequest /\ dv'[cmd] = dv[cmdReq]
    BY HandleRequestEffect DEF IInv
  <1>2. /\ dv[cmdReqNum] \in Values(cmdReqNum) /\ dv[cmdReqNum] \in Nat
        /\ dv[lastCmdProcNum] \in Nat
        /\ dv[cmdReq] \in Values(cmd)
    BY TypedRegion, DistinctElems, ElemValues DEF IInv, RequestElems, HandlerElems
  <1>3. handled \in Seq(Message) /\ Region \in Message /\ Region.num = dv[cmdReqNum]
    BY TypedRegion DEF IInv, TypeOK, Region
  <1>4. /\ \A i \in DOMAIN handled : handled'[i] = handled[i]
        /\ handled'[Len(handled) + 1] = Region
        /\ DOMAIN handled' = DOMAIN handled \cup {Len(handled) + 1}
    BY <1>3
  <1>5. {handled'[i].num : i \in DOMAIN handled'}
          = {handled[i].num : i \in DOMAIN handled} \cup {dv[cmdReqNum]}
    BY <1>3, <1>4
  <1>6. \A m \in {handled[i].num : i \in DOMAIN handled} : m < dv[cmdReqNum]
    BY <1>1, <1>2, HandledUpToLast DEF IsNewRequest
  <1>7. dv[cmdReqNum] \in Values(cmdReqNum) \ {0}
    BY <1>1, <1>2 DEF IsNewRequest
  <1> QED  BY <1>1, <1>2, <1>5, <1>6, <1>7 DEF Service!Next, Service!Perform

(* The handler implements the abstract service: commands take effect at    *)
(* most once each, in order, and expire.                                   *)
THEOREM HandlerImplementsService == Spec => ImplementsCommandService
  <1>1. Init => Service!Init
    BY InitialDvAssumption DEF Init, Service!Init
  <1>2. IInv /\ [Next]_vars
          => [Service!Next]_<<{handled[i].num : i \in DOMAIN handled}, dv[cmd]>>
    <2> SUFFICES ASSUME IInv, [Next]_vars
        PROVE  \/ Service!Next
               \/ UNCHANGED <<{handled[i].num : i \in DOMAIN handled}, dv[cmd]>>
      OBVIOUS
    <2>1. CASE RunHandler /\ HandleRequest /\ handled' = Append(handled, Region)
      BY <2>1, PerformStep
    <2>2. CASE RunHandler /\ (RejectInvalidCommand \/ ClearCommand) /\ UNCHANGED handled
      <3>1. dv'[cmd] = dv[cmd] \/ dv'[cmd] = CMD_NONE
        BY <2>2, NoRequestEffect DEF IInv
      <3>2. CASE dv'[cmd] = CMD_NONE
        BY <2>2, <3>2 DEF Service!Next, Service!Expire
      <3>3. CASE dv'[cmd] = dv[cmd]
        BY <2>2, <3>3
      <3> QED  BY <3>1, <3>2, <3>3
    <2>3. ASSUME NEW m \in sent, Recv(m) PROVE UNCHANGED <<handled, dv[cmd]>>
      BY <2>3, RegionReplaced DEF Recv, IInv
    <2>4. CASE \E r \in Requests : SendRequest(r)
      BY <2>4 DEF SendRequest
    <2>5. CASE GroundRestart \/ RecvNothing \/ UNCHANGED vars
      BY <2>5 DEF GroundRestart, RecvNothing, vars
    <2>6. RunHandler => \/ HandleRequest /\ handled' = Append(handled, Region)
                        \/ (RejectInvalidCommand \/ ClearCommand) /\ UNCHANGED handled
      BY DEF RunHandler
    <2> QED  BY <2>1, <2>2, <2>3, <2>4, <2>5, <2>6 DEF Next
  <1> QED  BY <1>1, <1>2, IInvHolds, PTL
           DEF Spec, ImplementsCommandService, Service!Spec

-----------------------------------------------------------------------------
(* WritesInEffect, with an index instead of the CHOOSE, and the order of   *)
(* the requests instead of the order of their numbers.                     *)
AppElem == Elem \ (RequestElems \cup HandlerElems)

LastWriteTo(i, e) == i \in WritesTo(e) /\ \A j \in WritesTo(e) : j <= i

ElemInEffect(e) ==
  IF WritesTo(e) = {} THEN dv[e] = InitialDv[e]
  ELSE \E i \in DOMAIN handled :
         LastWriteTo(i, e) /\ dv[e] = CastTo(e, handled[i].val)

AllInEffect == \A e \in AppElem : ElemInEffect(e)

(* The order of the numbers is that of the requests.                       *)
LEMMA IndexOrderSuffices ==
  ASSUME IInv, AllInEffect
  PROVE  WritesInEffect
  <1> SUFFICES ASSUME NEW e \in AppElem, WritesTo(e) # {}
      PROVE  dv[e] = LET last == CHOOSE i \in WritesTo(e) :
                               \A j \in WritesTo(e) :
                                 handled[j].num <= handled[i].num
                     IN  CastTo(e, handled[last].val)
    BY DEF AllInEffect, ElemInEffect, WritesInEffect, AppElem
  <1> DEFINE Newest(i) == \A j \in WritesTo(e) : handled[j].num <= handled[i].num
  <1>1. PICK i \in DOMAIN handled :
          LastWriteTo(i, e) /\ dv[e] = CastTo(e, handled[i].val)
    BY DEF AllInEffect, ElemInEffect
  <1>2. WritesTo(e) \subseteq DOMAIN handled /\ DOMAIN handled \subseteq Nat
    BY DEF WritesTo, IInv, TypeOK
  <1>3. \A j \in DOMAIN handled : handled[j].num \in Nat
    BY HandledUpToLast
  <1>4. Newest(i)
    <2> SUFFICES ASSUME NEW j \in WritesTo(e)
        PROVE  handled[j].num <= handled[i].num
      OBVIOUS
    <2>1. j = i \/ j < i
      BY <1>1, <1>2 DEF LastWriteTo
    <2>2. j < i => handled[j].num < handled[i].num
      BY <1>1, <1>2 DEF IInv, HandledInOrder
    <2> QED  BY <1>2, <1>3, <2>1, <2>2
  <1>5. ASSUME NEW k \in WritesTo(e), Newest(k) PROVE k = i
    <2>1. k <= i /\ i \in WritesTo(e)
      BY <1>1 DEF LastWriteTo
    <2>2. handled[i].num <= handled[k].num
      BY <1>5, <2>1
    <2>3. k < i => handled[k].num < handled[i].num
      BY <1>2 DEF IInv, HandledInOrder
    <2> QED  BY <1>2, <1>3, <2>1, <2>2, <2>3
  <1>6. i \in WritesTo(e)
    BY <1>1 DEF LastWriteTo
  <1> HIDE DEF Newest
  <1>7. (CHOOSE k \in WritesTo(e) : Newest(k)) = i
    BY <1>4, <1>5, <1>6
  <1> QED  BY <1>1, <1>7 DEF Newest

LEMMA InitInEffect == Init => AllInEffect
  BY DEF Init, AllInEffect, ElemInEffect, WritesTo

(* A step that handles nothing and leaves the application's elements as    *)
(* they are.                                                               *)
LEMMA QuietStepKeepsInEffect ==
  ASSUME AllInEffect, UNCHANGED handled, \A e \in AppElem : dv'[e] = dv[e]
  PROVE  AllInEffect'
  <1> SUFFICES ASSUME NEW e \in AppElem PROVE ElemInEffect(e)'
    BY DEF AllInEffect, AppElem
  <1>1. ElemInEffect(e) /\ dv'[e] = dv[e] /\ handled' = handled
    BY DEF AllInEffect
  <1> QED  BY <1>1 DEF ElemInEffect, LastWriteTo, WritesTo

(* What a request writes to an element of the application: the cast value, *)
(* if it is a WRITE of that element, and nothing otherwise.                *)
LEMMA RequestWrites ==
  ASSUME TypeOK, HandleRequest, NEW e \in AppElem
  PROVE  dv'[e] = IF dv[cmdReq] = CMD_WRITE /\ dv[cmdWriteElem] = e
                  THEN CastTo(e, dv[cmdWriteVal]) ELSE dv[e]
  <1>1. /\ e \in Elem /\ e \notin {cmd, lastCmdProcNum}
        /\ dv \in [Elem -> Nat]
    BY DEF AppElem, HandlerElems, TypeOK, DataVectors
  <1>2. Accepted[e] = dv[e] /\ Accepted \in [Elem -> Nat]
    <2>1. /\ cmd \in Elem /\ lastCmdProcNum \in Elem /\ cmdReq \in Elem
          /\ cmdReqNum \in Elem
      BY DistinctElems DEF RequestElems, HandlerElems
    <2> QED  BY <1>1, <2>1 DEF Accepted
  <1>3. CASE HandleWrite
    BY <1>1, <1>2, <1>3 DEF HandleWrite, ElementExists
  <1>4. CASE HandleFlightCommand
    BY <1>2, <1>4 DEF HandleFlightCommand
  <1>5. CASE HandleWriteToMissingElem
    BY <1>1, <1>2, <1>5 DEF HandleWriteToMissingElem, ElementExists
  <1> QED  BY <1>3, <1>4, <1>5 DEF HandleRequest

LEMMA HandleRequestKeepsInEffect ==
  ASSUME IInv, AllInEffect, HandleRequest, handled' = Append(handled, Region)
  PROVE  AllInEffect'
  <1> SUFFICES ASSUME NEW e \in AppElem PROVE ElemInEffect(e)'
    BY DEF AllInEffect, AppElem
  <1> PICK n : n = Len(handled) + 1
    OBVIOUS
  <1> DEFINE ToE == dv[cmdReq] = CMD_WRITE /\ dv[cmdWriteElem] = e
  <1>1. handled \in Seq(Message) /\ Region \in Message
    BY TypedRegion DEF IInv, TypeOK
  <1>2. /\ DOMAIN handled' = DOMAIN handled \cup {n} /\ handled'[n] = Region
        /\ \A i \in DOMAIN handled : handled'[i] = handled[i] /\ i < n /\ i \in Nat
        /\ n \in Nat
    BY <1>1
  <1>3. WritesTo(e)' = WritesTo(e) \cup (IF ToE THEN {n} ELSE {})
    BY <1>2 DEF WritesTo, Region
  <1>4. WritesTo(e) \subseteq DOMAIN handled
    BY DEF WritesTo
  <1>5. CASE ToE
    <2>1. dv'[e] = CastTo(e, handled'[n].val)
      BY <1>2, <1>5, RequestWrites DEF IInv, Region
    <2>2. LastWriteTo(n, e)'
      BY <1>2, <1>3, <1>4, <1>5 DEF LastWriteTo
    <2> QED  BY <1>2, <1>3, <1>5, <2>1, <2>2 DEF ElemInEffect
  <1>6. CASE ~ToE
    <2>1. dv'[e] = dv[e] /\ WritesTo(e)' = WritesTo(e)
      BY <1>3, <1>6, RequestWrites DEF IInv
    <2>2. ElemInEffect(e)
      BY DEF AllInEffect
    <2>3. CASE WritesTo(e) = {}
      BY <2>1, <2>2, <2>3 DEF ElemInEffect
    <2>4. CASE WritesTo(e) # {}
      <3>1. PICK i \in DOMAIN handled :
              LastWriteTo(i, e) /\ dv[e] = CastTo(e, handled[i].val)
        BY <2>2, <2>4 DEF ElemInEffect
      <3>2. LastWriteTo(i, e)'
        BY <2>1, <3>1 DEF LastWriteTo
      <3> QED  BY <1>2, <2>1, <2>4, <3>1, <3>2 DEF ElemInEffect
    <2> QED  BY <2>3, <2>4
  <1> QED  BY <1>5, <1>6

LEMMA NextKeepsInEffect == IInv /\ AllInEffect /\ [Next]_vars => AllInEffect'
  <1> SUFFICES ASSUME IInv, AllInEffect, [Next]_vars PROVE AllInEffect'
    OBVIOUS
  <1>1. ASSUME NEW m \in sent, Recv(m) PROVE AllInEffect'
    <2>1. \A e \in AppElem : WithRegion(m)[e] = dv[e]
      BY DEF WithRegion, AppElem, RequestElems, IInv, TypeOK, DataVectors
    <2> QED  BY <1>1, <2>1, QuietStepKeepsInEffect DEF Recv
  <1>2. CASE RunHandler
    <2>1. CASE HandleRequest /\ handled' = Append(handled, Region)
      BY <2>1, HandleRequestKeepsInEffect
    <2>2. CASE (RejectInvalidCommand \/ ClearCommand) /\ UNCHANGED handled
      <3>1. \A e \in AppElem : dv'[e] = dv[e]
        BY <2>2 DEF RejectInvalidCommand, ClearCommand, AppElem, HandlerElems,
                    IInv, TypeOK, DataVectors
      <3> QED  BY <2>2, <3>1, QuietStepKeepsInEffect
    <2> QED  BY <1>2, <2>1, <2>2 DEF RunHandler
  <1>3. CASE \/ \E r \in Requests : SendRequest(r)
             \/ GroundRestart \/ RecvNothing \/ UNCHANGED vars
    <2>1. UNCHANGED <<dv, handled>>
      BY <1>3 DEF SendRequest, GroundRestart, RecvNothing, vars
    <2> QED  BY <2>1, QuietStepKeepsInEffect
  <1> QED  BY <1>1, <1>2, <1>3 DEF Next

(* A WRITE stays in effect until a later WRITE of the same element: losses,*)
(* repetitions and late arrivals do not undo it (executeWriteCmd).         *)
THEOREM WritesStayInEffect == Spec => []WritesInEffect
  <1>1. Spec => []AllInEffect
    BY InitInEffect, NextKeepsInEffect, IInvHolds, PTL DEF Spec
  <1> QED  BY <1>1, IndexOrderSuffices, IInvHolds, PTL

-----------------------------------------------------------------------------
(* What keeps a command from outliving its loop: no request that is known  *)
(* to nobody is in the region or on its way.                               *)
CommandsKnown ==
  /\ IsValidCommand(dv[cmdReq])
  /\ \A m \in sent : IsValidCommand(m.req)

LEMMA HandlingKeepsRequest ==
  ASSUME IInv, CommandHandlerRun
  PROVE  dv'[cmdReq] = dv[cmdReq]
  <1>1. CASE RejectInvalidCommand \/ ClearCommand
    BY <1>1, NoRequestEffect DEF IInv, RequestElems
  <1>2. CASE HandleRequest
    <2>1. Accepted[cmdReq] = dv[cmdReq] /\ Accepted \in [Elem -> Nat]
      BY TypedRegion, DistinctElems
         DEF Accepted, IInv, DataVectors, RequestElems, HandlerElems
    <2>2. CASE HandleWrite
      BY <2>1, <2>2, DistinctElems
         DEF HandleWrite, IInv, WritesSpareCounting, SparesCounting, RequestElems
    <2>3. CASE HandleFlightCommand \/ HandleWriteToMissingElem
      BY <2>1, <2>3 DEF HandleFlightCommand, HandleWriteToMissingElem
    <2> QED  BY <1>2, <2>2, <2>3 DEF HandleRequest
  <1> QED  BY <1>1, <1>2 DEF CommandHandlerRun

LEMMA NextKeepsKnown ==
  ASSUME \A r \in Requests : IsValidCommand(r.req),
         IInv, CommandsKnown, [Next]_vars
  PROVE  CommandsKnown'
  <1>1. ASSUME NEW r \in Requests, SendRequest(r) PROVE CommandsKnown'
    BY <1>1 DEF SendRequest, CommandsKnown
  <1>2. ASSUME NEW m \in sent, Recv(m) PROVE CommandsKnown'
    <2>1. WithRegion(m)[cmdReq] = m.req
      BY DistinctElems DEF WithRegion, RequestElems, IInv, TypeOK, DataVectors
    <2> QED  BY <1>2, <2>1 DEF Recv, CommandsKnown
  <1>3. CASE RunHandler
    <2>1. CommandHandlerRun /\ sent' = sent
      BY <1>3 DEF RunHandler, CommandHandlerRun
    <2> QED  BY <2>1, HandlingKeepsRequest DEF CommandsKnown
  <1>4. CASE GroundRestart \/ RecvNothing \/ UNCHANGED vars
    BY <1>4 DEF GroundRestart, RecvNothing, vars, CommandsKnown
  <1> QED  BY <1>1, <1>2, <1>3, <1>4 DEF Next

(* The active command lasts one loop, with a ground that asks only for     *)
(* commands the Control Node knows (CommandHandler.hpp, "Command cleared   *)
(* after 1 Control Node loop"); with another one it does not.              *)
THEOREM KnownCommandsAreCleared ==
  ASSUME \A r \in Requests : IsValidCommand(r.req),
         IsValidCommand(InitialDv[cmdReq])
  PROVE  Spec => CommandClearedAfterOneLoop
  <1>1. Init => CommandsKnown
    BY DEF Init, CommandsKnown
  <1>2. Spec => []CommandsKnown
    BY <1>1, NextKeepsKnown, IInvHolds, PTL DEF Spec
  <1>3. IInv /\ CommandsKnown /\ [Next]_vars
          => [(phase = "run" /\ phase' = "recv" /\ handled' = handled)
                => dv'[cmd] = CMD_NONE]_vars
    <2> SUFFICES ASSUME IInv, CommandsKnown, Next,
                        phase = "run", phase' = "recv", handled' = handled
        PROVE  dv'[cmd] = CMD_NONE
      OBVIOUS
    <2>1. RunHandler
      BY DEF Next, SendRequest, GroundRestart, Recv, RecvNothing
    <2>2. handled # Append(handled, Region)
      BY TypedRegion DEF IInv, TypeOK
    <2>3. ClearCommand
      BY <2>1, <2>2 DEF RunHandler, RejectInvalidCommand, CommandsKnown
    <2> QED  BY <2>3, DistinctElems
             DEF ClearCommand, HandlerElems, IInv, TypeOK, DataVectors
  <1> QED  BY <1>2, <1>3, IInvHolds, PTL DEF CommandClearedAfterOneLoop, Spec
=============================================================================
