----------------------------- MODULE NodeComms ------------------------------
(***************************************************************************)
(* The exchange of regions between the Control Node                        *)
(* (sendAndRecvDataVectorData, recvMult) and the Device Nodes              *)
(* (recvAndSendDataVectorData).  In each period the Control Node sends a   *)
(* region to every Device Node and collects what they send until a timeout;*)
(* a Device Node blocks for a message, answers it with the region it read  *)
(* before, takes one more message if there is one, and runs its devices    *)
(* and controllers on the last it took.                                    *)
(*                                                                         *)
(* The content of a region is a number: the version of the commands of the *)
(* Control Node, and in the answers of a Device Node the version that its  *)
(* devices have acted upon.  Counters of messages and misses are below     *)
(* their maximum (ControlLoop has them at it).                             *)
(*                                                                         *)
(* The network is UDP through one switch: messages between two nodes keep  *)
(* their order, but wait for any time, as the message that is stuck in the *)
(* receive queue of the Ethernet controller does, or are lost.             *)
(***************************************************************************)
EXTENDS Naturals, Sequences

CONSTANTS
  DeviceNodes,   \* numbered in the order of Node_t
  Reachable,     \* those the network delivers messages to and from at last
  MaxVersion,    \* bound: versions of the commands
  QueueSize,     \* bound: messages on a link or in a socket
  MaxFailures    \* bound: calls that fail

ASSUME DeviceNodesAssumption == DeviceNodes \subseteq Nat /\ DeviceNodes # {}

ASSUME NodeCommsBoundAssumption ==
  /\ Reachable \subseteq DeviceNodes
  /\ MaxVersion \in Nat
  /\ QueueSize \in Nat \ {0}
  /\ MaxFailures \in Nat

VARIABLES
  cnPc,        \* Control Node: the part of its loop that comes next
  cnVersion,   \* the version of its regions DV_REG_CN_TO_DNi
  ready,       \* recvMult: sockets that select found ready and are not read yet
  timeLeft,    \* recvMult: the timeout has not run out in select
  got,         \* recvMult: nodes with kNumMsgsReceivedRet > 0
  bufs,        \* gDnRecvBufs
  view,        \* the regions DV_REG_DNi_TO_CN of the Control Node
  cnSocket,    \* its sockets, one for each Device Node
  dnPc,        \* Device Nodes: the part of their loop that comes next
  recvBuf,     \* gRecvBuf
  applied,     \* their region DV_REG_CN_TO_DNi, on which their devices act
  dnSocket,    \* their sockets
  toDn, toCn,  \* messages on their way
  failures,    \* number of calls that failed
  arrivedCn    \* history: the last message that entered each of cnSocket

recvMultVars == <<ready, timeLeft, got>>
cnVars == <<cnPc, cnVersion, recvMultVars, bufs, view>>
dnVars == <<dnPc, recvBuf, applied>>
vars == <<cnVars, cnSocket, dnVars, dnSocket, toDn, toCn, failures,
          arrivedCn>>

Version == 0 .. MaxVersion

EachNode(x) == [i \in DeviceNodes |-> x]

Init ==
  /\ cnPc = "send" /\ dnPc = EachNode("block")
  /\ cnVersion = 0 /\ view = EachNode(0) /\ applied = EachNode(0)
  /\ ready = {} /\ timeLeft = TRUE /\ got = {}
  /\ bufs = EachNode(0) /\ recvBuf = EachNode(0)
  /\ cnSocket = EachNode(<<>>) /\ dnSocket = EachNode(<<>>)
  /\ toDn = EachNode(<<>>) /\ toCn = EachNode(<<>>)
  /\ failures = 0
  /\ arrivedCn = EachNode(0)

(* NetworkManager::send; a message for which there is no room is lost. *)
Queued(link, m) == IF Len(link) < QueueSize THEN Append(link, m) ELSE link

Fail == failures < MaxFailures /\ failures' = failures + 1

-----------------------------------------------------------------------------
(* The Control Node *)

SentTo(nodes) ==
  [i \in DeviceNodes |->
     IF i \in nodes THEN Queued(toDn[i], cnVersion) ELSE toDn[i]]

SendToNodes ==
  /\ cnPc = "send"
  /\ toDn' = SentTo(DeviceNodes)
  /\ cnPc' = "recv"
  /\ UNCHANGED <<cnVersion, recvMultVars, bufs, view, cnSocket, dnVars,
                 dnSocket, toCn, failures, arrivedCn>>

(* The nodes are sent to one after the other, then ground, and the first   *)
(* call that fails ends the exchange; it may fail after it sent its        *)
(* message (at the noop message or the counter).                           *)
SendFails ==
  /\ cnPc = "send"
  /\ Fail
  /\ \E nodes \in SUBSET DeviceNodes :
       /\ \A i \in nodes, j \in DeviceNodes : j < i => j \in nodes
       /\ toDn' = SentTo(nodes)
  /\ cnPc' = "run"
  /\ UNCHANGED <<cnVersion, recvMultVars, bufs, view, cnSocket, dnVars,
                 dnSocket, toCn, arrivedCn>>

(* Its local variables end with a call of recvMult. *)
RecvMultReset == ready' = {} /\ timeLeft' = TRUE /\ got' = {}

(* select: time only passes in it, when there is nothing to read. *)
Waiting == {i \in DeviceNodes : cnSocket[i] # <<>>}

Select ==
  /\ cnPc = "recv"
  /\ ready = {} /\ timeLeft /\ Waiting # {}
  /\ ready' = Waiting
  /\ timeLeft' \in BOOLEAN
  /\ UNCHANGED <<cnPc, cnVersion, got, bufs, view, cnSocket, dnVars, dnSocket,
                 toDn, toCn, failures, arrivedCn>>

NextReady(i) == i \in ready /\ \A j \in ready : i <= j

BugReadReady(i) ==
  /\ cnPc = "recv"
  /\ NextReady(i)
  /\ bufs' = IF i \in got THEN bufs ELSE [bufs EXCEPT ![i] = Head(cnSocket[i])]
  /\ got' = got \cup {i}
  /\ cnSocket' = [cnSocket EXCEPT ![i] = Tail(@)]
  /\ ready' = ready \ {i}
  /\ UNCHANGED <<cnPc, cnVersion, timeLeft, view, dnVars, dnSocket, toDn,
                 toCn, failures, arrivedCn>>

(* "If multiple messages are received from a single node, the last message *)
(* will be what is returned".                                              *)
ReadReady(i) ==
  /\ cnPc = "recv"
  /\ NextReady(i)
  /\ bufs' = [bufs EXCEPT ![i] = Head(cnSocket[i])]
  /\ got' = got \cup {i}
  /\ cnSocket' = [cnSocket EXCEPT ![i] = Tail(@)]
  /\ ready' = ready \ {i}
  /\ UNCHANGED <<cnPc, cnVersion, timeLeft, view, dnVars, dnSocket, toDn,
                 toCn, failures, arrivedCn>>

(* select, recv, a size or the counter: recvMult returns at once, and what *)
(* it has read of any node is not used.                                    *)
RecvFails ==
  /\ cnPc = "recv"
  /\ Fail
  /\ \/ UNCHANGED <<bufs, cnSocket>>
     \/ \E i \in DeviceNodes :
          /\ NextReady(i)
          /\ cnSocket' = [cnSocket EXCEPT ![i] = Tail(@)]
          /\ bufs' = [bufs EXCEPT ![i] = Head(cnSocket[i])]
  /\ cnPc' = "run"
  /\ RecvMultReset
  /\ UNCHANGED <<cnVersion, view, dnVars, dnSocket, toDn, toCn, arrivedCn>>

BugEndExchange ==
  /\ cnPc = "recv"
  /\ ready = {}
  /\ timeLeft => Waiting = {}
  /\ view' = IF got = DeviceNodes THEN bufs ELSE view
  /\ cnPc' = "run"
  /\ RecvMultReset
  /\ UNCHANGED <<cnVersion, bufs, cnSocket, dnVars, dnSocket, toDn, toCn,
                 failures, arrivedCn>>

(* recvMult returns when select has waited until the timeout, or when a    *)
(* message ended that wait at its very end.  The regions of the nodes with *)
(* a message are copied; of the others a miss is counted.                  *)
EndExchange ==
  /\ cnPc = "recv"
  /\ ready = {}
  /\ timeLeft => Waiting = {}
  /\ view' = [i \in DeviceNodes |-> IF i \in got THEN bufs[i] ELSE view[i]]
  /\ cnPc' = "run"
  /\ RecvMultReset
  /\ UNCHANGED <<cnVersion, bufs, cnSocket, dnVars, dnSocket, toDn, toCn,
                 failures, arrivedCn>>

(* The rest of the loop may change what the Device Nodes are to do. *)
CnRun ==
  /\ cnPc = "run"
  /\ cnPc' = "send"
  /\ cnVersion' \in {cnVersion, cnVersion + 1} \cap Version
  /\ UNCHANGED <<recvMultVars, bufs, view, cnSocket, dnVars, dnSocket, toDn,
                 toCn, failures, arrivedCn>>

CnStep ==
  \/ SendToNodes \/ Select \/ EndExchange \/ CnRun
  \/ \E i \in DeviceNodes : ReadReady(i)

-----------------------------------------------------------------------------
(* A Device Node *)

Replied(i, m) == [toCn EXCEPT ![i] = Queued(@, m)]

BugRecvAndReply(i) ==
  /\ dnPc[i] = "block"
  /\ dnSocket[i] # <<>>
  /\ recvBuf' = [recvBuf EXCEPT ![i] = Head(dnSocket[i])]
  /\ dnSocket' = [dnSocket EXCEPT ![i] = Tail(@)]
  /\ toCn' = Replied(i, Head(dnSocket[i]))
  /\ dnPc' = [dnPc EXCEPT ![i] = "drain"]
  /\ UNCHANGED <<cnVars, cnSocket, applied, toDn, failures, arrivedCn>>

(* recvBlock, send.  The answer is the region read before the message came,*)
(* which is what the Data Vector still holds.                              *)
RecvAndReply(i) ==
  /\ dnPc[i] = "block"
  /\ dnSocket[i] # <<>>
  /\ recvBuf' = [recvBuf EXCEPT ![i] = Head(dnSocket[i])]
  /\ dnSocket' = [dnSocket EXCEPT ![i] = Tail(@)]
  /\ toCn' = Replied(i, applied[i])
  /\ dnPc' = [dnPc EXCEPT ![i] = "drain"]
  /\ UNCHANGED <<cnVars, cnSocket, applied, toDn, failures, arrivedCn>>

BugDrain(i) ==
  /\ dnPc[i] = "drain"
  /\ applied' = [applied EXCEPT ![i] = recvBuf[i]]
  /\ dnPc' = [dnPc EXCEPT ![i] = "block"]
  /\ UNCHANGED <<cnVars, cnSocket, recvBuf, dnSocket, toDn, toCn, failures,
                 arrivedCn>>

BugClearedDrain(i) ==
  /\ dnPc[i] = "drain"
  /\ \/ /\ dnSocket[i] = <<>>
        /\ recvBuf' = [recvBuf EXCEPT ![i] = 0]
        /\ UNCHANGED dnSocket
     \/ /\ dnSocket[i] # <<>>
        /\ recvBuf' = [recvBuf EXCEPT ![i] = Head(dnSocket[i])]
        /\ dnSocket' = [dnSocket EXCEPT ![i] = Tail(@)]
  /\ applied' = [applied EXCEPT ![i] = recvBuf'[i]]
  /\ dnPc' = [dnPc EXCEPT ![i] = "block"]
  /\ UNCHANGED <<cnVars, cnSocket, toDn, toCn, failures, arrivedCn>>

(* recvNoBlock into the same buffer, writeRegion, and a run of the devices *)
(* and controllers.                                                        *)
Drain(i) ==
  /\ dnPc[i] = "drain"
  /\ \/ UNCHANGED <<recvBuf, dnSocket>> /\ dnSocket[i] = <<>>
     \/ /\ dnSocket[i] # <<>>
        /\ recvBuf' = [recvBuf EXCEPT ![i] = Head(dnSocket[i])]
        /\ dnSocket' = [dnSocket EXCEPT ![i] = Tail(@)]
  /\ applied' = [applied EXCEPT ![i] = recvBuf'[i]]
  /\ dnPc' = [dnPc EXCEPT ![i] = "block"]
  /\ UNCHANGED <<cnVars, cnSocket, toDn, toCn, failures, arrivedCn>>

(* A call that fails: a message may have been taken and the answer sent,   *)
(* but the region is not written, and the devices run on the old one.      *)
DnFails(i) ==
  /\ Fail
  /\ \/ UNCHANGED <<recvBuf, dnSocket, toCn>>
     \/ /\ dnSocket[i] # <<>>
        /\ recvBuf' = [recvBuf EXCEPT ![i] = Head(dnSocket[i])]
        /\ dnSocket' = [dnSocket EXCEPT ![i] = Tail(@)]
        /\ \/ UNCHANGED toCn
           \/ dnPc[i] = "block" /\ toCn' = Replied(i, applied[i])
  /\ dnPc' = [dnPc EXCEPT ![i] = "block"]
  /\ UNCHANGED <<cnVars, cnSocket, applied, toDn, arrivedCn>>

DnStep(i) == RecvAndReply(i) \/ Drain(i)

-----------------------------------------------------------------------------
(* The network *)

DeliverToDn(i) ==
  /\ toDn[i] # <<>> /\ Len(dnSocket[i]) < QueueSize
  /\ dnSocket' = [dnSocket EXCEPT ![i] = Append(@, Head(toDn[i]))]
  /\ toDn' = [toDn EXCEPT ![i] = Tail(@)]
  /\ UNCHANGED <<cnVars, cnSocket, dnVars, toCn, failures, arrivedCn>>

DeliverToCn(i) ==
  /\ toCn[i] # <<>> /\ Len(cnSocket[i]) < QueueSize
  /\ cnSocket' = [cnSocket EXCEPT ![i] = Append(@, Head(toCn[i]))]
  /\ arrivedCn' = [arrivedCn EXCEPT ![i] = Head(toCn[i])]
  /\ toCn' = [toCn EXCEPT ![i] = Tail(@)]
  /\ UNCHANGED <<cnVars, dnVars, dnSocket, toDn, failures>>

Lose(i) ==
  /\ \/ toDn[i] # <<>> /\ toDn' = [toDn EXCEPT ![i] = Tail(@)] /\ UNCHANGED toCn
     \/ toCn[i] # <<>> /\ toCn' = [toCn EXCEPT ![i] = Tail(@)] /\ UNCHANGED toDn
  /\ UNCHANGED <<cnVars, cnSocket, dnVars, dnSocket, failures, arrivedCn>>

Next ==
  \/ CnStep
  \/ SendFails
  \/ RecvFails
  \/ \E i \in DeviceNodes : \/ DnStep(i)
                            \/ DnFails(i)
                            \/ DeliverToDn(i)
                            \/ DeliverToCn(i)
                            \/ Lose(i)

Spec == Init /\ [][Next]_vars

(* The loops have real-time threads of their own, calls fail a bounded     *)
(* number of times, and of the messages to and from a reachable node not   *)
(* all are lost.  Nothing is assumed of the others.                        *)
FairSpec ==
  /\ Spec
  /\ WF_vars(CnStep)
  /\ \A i \in DeviceNodes : WF_vars(DnStep(i))
  /\ \A i \in Reachable : SF_vars(DeliverToDn(i)) /\ SF_vars(DeliverToCn(i))

-----------------------------------------------------------------------------
(* Every variable has its type. *)
TypeOK ==
  /\ cnPc \in {"send", "recv", "run"}
  /\ dnPc \in [DeviceNodes -> {"block", "drain"}]
  /\ cnVersion \in Version
  /\ got \subseteq DeviceNodes
  /\ timeLeft \in BOOLEAN
  /\ ready \subseteq IF cnPc = "recv" THEN Waiting ELSE {}
  /\ bufs \in [DeviceNodes -> Version]
  /\ view \in [DeviceNodes -> Version]
  /\ recvBuf \in [DeviceNodes -> Version]
  /\ applied \in [DeviceNodes -> Version]
  /\ arrivedCn \in [DeviceNodes -> Version]
  /\ cnSocket \in [DeviceNodes -> Seq(Version)]
  /\ dnSocket \in [DeviceNodes -> Seq(Version)]
  /\ toDn \in [DeviceNodes -> Seq(Version)]
  /\ toCn \in [DeviceNodes -> Seq(Version)]
  /\ \A i \in DeviceNodes, q \in {cnSocket, dnSocket, toDn, toCn} :
       Len(q[i]) <= QueueSize
  /\ failures \in 0 .. MaxFailures

(* What the Control Node holds of a Device Node is never ahead of what its *)
(* devices acted upon: a Device Node does not confirm a command that it    *)
(* has only received (it answers with the region it read before).          *)
FeedbackIsTrue ==
  \A i \in DeviceNodes : view[i] <= applied[i] /\ applied[i] <= cnVersion

(* Both directions of every exchange implement a mirrored region: losses,  *)
(* stuck messages, late answers and failed calls never set a copy back or  *)
(* make it something its owner did not send.                               *)
Down == INSTANCE MirroredRegions
          WITH Nodes <- DeviceNodes, source <- EachNode(cnVersion), copy <- applied

Up == INSTANCE MirroredRegions
        WITH Nodes <- DeviceNodes, source <- applied, copy <- view

CommandsAreMirrored == Down!Spec

ReportsAreMirrored == Up!Spec

(* recvMult leaves no backlog: when it had the time to wait, the copy of   *)
(* a node that it changes becomes the newest that arrived, even if several *)
(* messages had piled up.                                                  *)
CopiesAreNewest ==
  [][\A i \in DeviceNodes :
       (view'[i] # view[i] /\ timeLeft) => view'[i] = arrivedCn[i]]_vars

(* "Call recv one more time without blocking to make sure the Device Node  *)
(* is not operating on the previous loop's data" (DeviceNode.cpp): with at *)
(* most one message waiting behind the one it blocked for, the devices     *)
(* act on the newest that arrived.                                         *)
DrainAppliesNewest ==
  [][\A i \in DeviceNodes :
       LET q == <<recvBuf[i]>> \o dnSocket[i]
       IN  (dnPc[i] = "drain" /\ Len(q) <= 2 /\ failures' = failures
              /\ dnPc'[i] = "block") => applied'[i] = q[Len(q)]]_vars

(* Every change of the commands, an abort for example, reaches the devices *)
(* of a reachable node, and the Control Node learns that they acted upon   *)
(* it, whatever is lost on the way and however silent other nodes are.     *)
ChangesAreConfirmed ==
  \A i \in Reachable, v \in 1 .. MaxVersion :
    (cnVersion = v) ~> (view[i] >= v)
=============================================================================
