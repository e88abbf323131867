-------------------------- MODULE NodeCommsProofs ---------------------------
(***************************************************************************)
(* Proofs about NodeComms, for any number of Device Nodes, of versions, of *)
(* messages on their way and of failures.                                  *)
(***************************************************************************)
EXTENDS NodeComms, SequenceTheorems, TLAPS

(* One direction of an exchange, from the region of the owner back to the  *)
(* buffer it is received in: versions do not fall from one to the other.   *)
Between(low, s, high) == \A k \in 1 .. Len(s) : low <= s[k] /\ s[k] <= high

Rising(s) == \A k, l \in 1 .. Len(s) : k <= l => s[k] <= s[l]

Pipe(low, socket, link, high) ==
  /\ low <= high
  /\ Between(low, socket, high)
  /\ Between(low, link, high)
  /\ Rising(socket)
  /\ Rising(link)
  /\ \A k \in 1 .. Len(socket), l \in 1 .. Len(link) : socket[k] <= link[l]

LEMMA PipeSend ==
  ASSUME NEW low \in Nat, NEW high \in Nat, NEW socket \in Seq(Nat),
         NEW link \in Seq(Nat), Pipe(low, socket, link, high)
  PROVE  Pipe(low, socket, Queued(link, high), high)
  BY DEF Pipe, Between, Rising, Queued

LEMMA PipeRaise ==
  ASSUME NEW low \in Nat, NEW high \in Nat, NEW socket \in Seq(Nat),
         NEW link \in Seq(Nat), Pipe(low, socket, link, high),
         NEW h \in Nat, high <= h
  PROVE  Pipe(low, socket, link, h)
  <1>1. \A k \in 1 .. Len(socket) : socket[k] \in Nat
    OBVIOUS
  <1>2. \A k \in 1 .. Len(link) : link[k] \in Nat
    OBVIOUS
  <1> QED  BY <1>1, <1>2 DEF Pipe, Between, Rising

LEMMA PipeLose ==
  ASSUME NEW low \in Nat, NEW high \in Nat, NEW socket \in Seq(Nat),
         NEW link \in Seq(Nat), Pipe(low, socket, link, high), link # <<>>
  PROVE  Pipe(low, socket, Tail(link), high)
  BY DEF Pipe, Between, Rising

LEMMA PipeDeliver ==
  ASSUME NEW low \in Nat, NEW high \in Nat, NEW socket \in Seq(Nat),
         NEW link \in Seq(Nat), Pipe(low, socket, link, high), link # <<>>
  PROVE  Pipe(low, Append(socket, Head(link)), Tail(link), high)
  <1> DEFINE m == Head(link)
             s == Append(socket, m)
  <1>1. /\ m = link[1] /\ m \in Nat /\ 1 \in 1 .. Len(link)
        /\ Len(s) = Len(socket) + 1 /\ s[Len(socket) + 1] = m
        /\ \A k \in 1 .. Len(socket) : s[k] = socket[k] /\ socket[k] \in Nat
    OBVIOUS
  <1>2. /\ Len(Tail(link)) = Len(link) - 1 /\ Len(link) \in Nat
        /\ \A l \in 1 .. Len(Tail(link)) :
             /\ l + 1 \in 1 .. Len(link)
             /\ Tail(link)[l] = link[l + 1] /\ link[l + 1] \in Nat
    OBVIOUS
  <1>3. low <= m /\ m <= high /\ \A k \in 1 .. Len(socket) : socket[k] <= m
    BY <1>1 DEF Pipe, Between
  <1>4. \A l \in 1 .. Len(Tail(link)) : m <= Tail(link)[l]
    BY <1>1, <1>2 DEF Pipe, Rising
  <1>5. \A k \in 1 .. Len(s) : k = Len(socket) + 1 \/ k \in 1 .. Len(socket)
    BY <1>1
  <1> HIDE DEF s, m
  <1>6. Between(low, s, high)
    BY <1>1, <1>3, <1>5 DEF Pipe, Between
  <1>7. Rising(s)
    <2>1. \A k, l \in 1 .. Len(socket) : k <= l => s[k] <= s[l]
      BY <1>1 DEF Pipe, Rising
    <2>2. \A k \in 1 .. Len(s) : s[k] <= s[Len(socket) + 1]
      <3>1. ASSUME NEW k \in 1 .. Len(s) PROVE s[k] <= s[Len(socket) + 1]
        <4>1. CASE k = Len(socket) + 1
          BY <1>1, <4>1
        <4>2. CASE k \in 1 .. Len(socket)
          <5>1. s[k] = socket[k] /\ s[Len(socket) + 1] = m
            BY <1>1, <4>2
          <5> QED  BY <1>3, <4>2, <5>1
        <4> QED  BY <1>5, <4>1, <4>2
      <3> QED  BY <3>1
    <2>3. ASSUME NEW k \in 1 .. Len(s), NEW l \in 1 .. Len(s), k <= l
          PROVE  s[k] <= s[l]
      <3>1. CASE l = Len(socket) + 1
        BY <2>2, <3>1
      <3>2. CASE l \in 1 .. Len(socket)
        <4>1. k \in 1 .. Len(socket)
          BY <2>3, <3>2
        <4> QED  BY <2>1, <2>3, <3>2, <4>1
      <3> QED  BY <1>5, <3>1, <3>2
    <2> QED  BY <2>3 DEF Rising
  <1>8. Between(low, Tail(link), high) /\ Rising(Tail(link))
    BY <1>2 DEF Pipe, Between, Rising
  <1>9. \A k \in 1 .. Len(s), l \in 1 .. Len(Tail(link)) : s[k] <= Tail(link)[l]
    BY <1>1, <1>2, <1>4, <1>5 DEF Pipe
  <1> QED  BY <1>6, <1>7, <1>8, <1>9 DEF Pipe, s, m

LEMMA PipeTake ==
  ASSUME NEW low \in Nat, NEW high \in Nat, NEW socket \in Seq(Nat),
         NEW link \in Seq(Nat), Pipe(low, socket, link, high), socket # <<>>
  PROVE  /\ Pipe(Head(socket), Tail(socket), link, high)
         /\ low <= Head(socket) /\ Head(socket) <= high
  BY DEF Pipe, Between, Rising

-----------------------------------------------------------------------------
(* The inductive invariant: around the whole way of a version, from the    *)
(* Control Node through a Device Node and back, versions do not rise.      *)
RoundTrip(i) ==
  /\ view[i] <= bufs[i]
  /\ Pipe(bufs[i], cnSocket[i], toCn[i], applied[i])
  /\ applied[i] <= recvBuf[i]
  /\ Pipe(recvBuf[i], dnSocket[i], toDn[i], cnVersion)

IInv == TypeOK /\ \A i \in DeviceNodes : RoundTrip(i)

(* The types of what RoundTrip reads, for one node. *)
LEMMA NodeTypes ==
  ASSUME TypeOK, NEW i \in DeviceNodes
  PROVE  /\ cnVersion \in Nat /\ view[i] \in Nat /\ bufs[i] \in Nat
         /\ applied[i] \in Nat /\ recvBuf[i] \in Nat
         /\ cnSocket[i] \in Seq(Nat) /\ toCn[i] \in Seq(Nat)
         /\ dnSocket[i] \in Seq(Nat) /\ toDn[i] \in Seq(Nat)
         /\ cnSocket[i] \in Seq(Version) /\ toCn[i] \in Seq(Version)
         /\ dnSocket[i] \in Seq(Version) /\ toDn[i] \in Seq(Version)
  <1>1. Version \subseteq Nat
    BY DEF Version
  <1>2. \A s \in Seq(Version) : s \in Seq(Nat)
    BY <1>1, SeqMonotonic
  <1> QED  BY <1>1, <1>2 DEF TypeOK

LEMMA InitEstablishesIInv == Init => IInv
  <1> SUFFICES ASSUME Init PROVE IInv
    OBVIOUS
  <1>1. TypeOK
    BY NodeCommsBoundAssumption DEF Init, TypeOK, EachNode, Version
  <1>2. Pipe(0, <<>>, <<>>, 0)
    BY DEF Pipe, Between, Rising
  <1> QED  BY <1>1, <1>2 DEF Init, IInv, RoundTrip, EachNode

(* A queue of versions with room for one more.                             *)
LEMMA QueuedType ==
  ASSUME NEW s \in Seq(Version), NEW m \in Version, Len(s) <= QueueSize
  PROVE  Queued(s, m) \in Seq(Version) /\ Len(Queued(s, m)) <= QueueSize
  BY NodeCommsBoundAssumption DEF Queued

LEMMA TailType ==
  ASSUME NEW s \in Seq(Version), s # <<>>, Len(s) <= QueueSize
  PROVE  /\ Head(s) \in Version /\ Tail(s) \in Seq(Version)
         /\ Len(Tail(s)) <= QueueSize
  BY NodeCommsBoundAssumption

(* Sending to some of the nodes. *)
LEMMA SendToKeepsIInv ==
  ASSUME IInv, NEW nodes \in SUBSET DeviceNodes, toDn' = SentTo(nodes),
         cnPc = "send", cnPc' \in {"recv", "run"}, failures' \in 0 .. MaxFailures,
         UNCHANGED <<cnVersion, recvMultVars, bufs, view, cnSocket, dnVars,
                     dnSocket, toCn, arrivedCn>>
  PROVE  IInv'
  <1> USE DEF IInv
  <1>1. \A i \in DeviceNodes : /\ toDn'[i] \in Seq(Version)
                               /\ Len(toDn'[i]) <= QueueSize
    BY QueuedType DEF TypeOK, SentTo
  <1>2. toDn' \in [DeviceNodes -> Seq(Version)]
    BY <1>1 DEF SentTo
  <1>3. TypeOK'
    BY <1>1, <1>2 DEF TypeOK, Waiting, recvMultVars, dnVars
  <1>4. ASSUME NEW i \in DeviceNodes PROVE RoundTrip(i)'
    <2>1. Pipe(recvBuf[i], dnSocket[i], toDn'[i], cnVersion)
      BY PipeSend, NodeTypes DEF RoundTrip, SentTo
    <2> QED  BY <2>1 DEF RoundTrip, recvMultVars, dnVars
  <1> QED  BY <1>3, <1>4

LEMMA ControlNodeKeepsIInv ==
  ASSUME IInv, SendToNodes \/ SendFails \/ Select \/ CnRun
  PROVE  IInv'
  <1> USE DEF IInv
  <1>1. CASE SendToNodes
    BY <1>1, SendToKeepsIInv DEF SendToNodes, TypeOK
  <1>2. CASE SendFails
    BY <1>2, SendToKeepsIInv, NodeCommsBoundAssumption DEF SendFails, Fail, TypeOK
  <1>3. CASE Select
    BY <1>3 DEF Select, TypeOK, Waiting, RoundTrip, dnVars
  <1>4. CASE CnRun
    <2>1. TypeOK'
      BY <1>4 DEF CnRun, TypeOK, Waiting, recvMultVars, dnVars
    <2>2. cnVersion \in Nat /\ cnVersion' \in Nat /\ cnVersion <= cnVersion'
      BY <1>4 DEF CnRun, TypeOK, Version
    <2>3. ASSUME NEW i \in DeviceNodes PROVE RoundTrip(i)'
      <3>1. Pipe(recvBuf[i], dnSocket[i], toDn[i], cnVersion')
        BY <2>2, PipeRaise, NodeTypes DEF RoundTrip
      <3> QED  BY <1>4, <3>1 DEF CnRun, RoundTrip, recvMultVars, dnVars
    <2> QED  BY <2>1, <2>3
  <1> QED  BY <1>1, <1>2, <1>3, <1>4

LEMMA ReadReadyKeepsIInv ==
  ASSUME IInv, NEW i \in DeviceNodes, ReadReady(i)
  PROVE  IInv'
  <1> USE DEF IInv
  <1>1. cnSocket[i] # <<>>
    BY DEF ReadReady, NextReady, TypeOK, Waiting
  <1>2. /\ Head(cnSocket[i]) \in Version /\ Tail(cnSocket[i]) \in Seq(Version)
        /\ Len(Tail(cnSocket[i])) <= QueueSize
    BY <1>1, TailType, NodeTypes DEF TypeOK
  <1>3. TypeOK'
    BY <1>2 DEF TypeOK, ReadReady, NextReady, Waiting, dnVars
  <1>4. RoundTrip(i)'
    <2>1. /\ Pipe(Head(cnSocket[i]), Tail(cnSocket[i]), toCn[i], applied[i])
          /\ bufs[i] <= Head(cnSocket[i])
      BY <1>1, PipeTake, NodeTypes DEF RoundTrip
    <2>2. /\ bufs'[i] = Head(cnSocket[i])
          /\ cnSocket'[i] = Tail(cnSocket[i])
      BY DEF ReadReady, TypeOK
    <2>3. view[i] <= Head(cnSocket[i])
      BY <1>2, <2>1, NodeTypes DEF RoundTrip, Version
    <2> QED  BY <2>1, <2>2, <2>3 DEF RoundTrip, ReadReady, dnVars
  <1>5. ASSUME NEW j \in DeviceNodes, j # i PROVE RoundTrip(j)'
    BY <1>5 DEF RoundTrip, ReadReady, TypeOK, dnVars
  <1> QED  BY <1>3, <1>4, <1>5

LEMMA RecvFailsKeepsIInv ==
  ASSUME IInv, RecvFails
  PROVE  IInv'
  <1> USE DEF IInv
  <1>1. cnPc' = "run" /\ ready' = {} /\ timeLeft' = TRUE /\ got' = {}
    BY DEF RecvFails, RecvMultReset
  <1>2. failures' \in 0 .. MaxFailures
    BY NodeCommsBoundAssumption DEF RecvFails, Fail, TypeOK
  <1>3. CASE UNCHANGED <<bufs, cnSocket>>
    BY <1>1, <1>2, <1>3 DEF RecvFails, TypeOK, RoundTrip, dnVars
  <1>4. ASSUME NEW i \in DeviceNodes, NextReady(i),
               cnSocket' = [cnSocket EXCEPT ![i] = Tail(@)],
               bufs' = [bufs EXCEPT ![i] = Head(cnSocket[i])]
        PROVE  IInv'
    <2>1. cnSocket[i] # <<>>
      BY <1>4 DEF RecvFails, NextReady, TypeOK, Waiting
    <2>2. /\ Head(cnSocket[i]) \in Version /\ Tail(cnSocket[i]) \in Seq(Version)
          /\ Len(Tail(cnSocket[i])) <= QueueSize
      BY <2>1, TailType, NodeTypes DEF TypeOK
    <2>3. TypeOK'
      BY <1>1, <1>2, <1>4, <2>2 DEF TypeOK, RecvFails, dnVars
    <2>4. RoundTrip(i)'
      <3>1. /\ Pipe(Head(cnSocket[i]), Tail(cnSocket[i]), toCn[i], applied[i])
            /\ bufs[i] <= Head(cnSocket[i])
        BY <2>1, PipeTake, NodeTypes DEF RoundTrip
      <3>2. bufs'[i] = Head(cnSocket[i]) /\ cnSocket'[i] = Tail(cnSocket[i])
        BY <1>4 DEF TypeOK
      <3>3. view[i] <= Head(cnSocket[i])
        BY <2>2, <3>1, NodeTypes DEF RoundTrip, Version
      <3> QED  BY <3>1, <3>2, <3>3 DEF RoundTrip, RecvFails, dnVars
    <2>5. ASSUME NEW j \in DeviceNodes, j # i PROVE RoundTrip(j)'
      BY <1>4, <2>5 DEF RoundTrip, RecvFails, TypeOK, dnVars
    <2> QED  BY <2>3, <2>4, <2>5
  <1> QED  BY <1>3, <1>4 DEF RecvFails

LEMMA EndExchangeKeepsIInv ==
  ASSUME IInv, EndExchange
  PROVE  IInv'
  <1> USE DEF IInv
  <1>1. TypeOK'
    BY DEF EndExchange, RecvMultReset, TypeOK, dnVars
  <1>2. ASSUME NEW i \in DeviceNodes PROVE RoundTrip(i)'
    <2>1. view'[i] \in {view[i], bufs[i]}
      BY DEF EndExchange
    <2>2. view'[i] <= bufs[i]
      BY <2>1, NodeTypes DEF RoundTrip
    <2> QED  BY <2>2 DEF RoundTrip, EndExchange, dnVars
  <1> QED  BY <1>1, <1>2

-----------------------------------------------------------------------------
(* A Device Node that takes a message: what it knows moves on.             *)
LEMMA Taken ==
  ASSUME IInv, NEW i \in DeviceNodes, dnSocket[i] # <<>>
  PROVE  /\ Head(dnSocket[i]) \in Version /\ Tail(dnSocket[i]) \in Seq(Version)
         /\ Len(Tail(dnSocket[i])) <= QueueSize
         /\ Pipe(Head(dnSocket[i]), Tail(dnSocket[i]), toDn[i], cnVersion)
         /\ applied[i] <= Head(dnSocket[i])
  <1> USE DEF IInv
  <1>1. /\ Head(dnSocket[i]) \in Version /\ Tail(dnSocket[i]) \in Seq(Version)
        /\ Len(Tail(dnSocket[i])) <= QueueSize
    BY TailType, NodeTypes DEF TypeOK
  <1>2. /\ Pipe(Head(dnSocket[i]), Tail(dnSocket[i]), toDn[i], cnVersion)
        /\ recvBuf[i] <= Head(dnSocket[i])
    BY PipeTake, NodeTypes DEF RoundTrip
  <1>3. applied[i] <= Head(dnSocket[i])
    BY <1>1, <1>2, NodeTypes DEF RoundTrip, Version
  <1> QED  BY <1>1, <1>2, <1>3

(* ... and the answer it sends fits behind those on their way. *)
LEMMA Answered ==
  ASSUME IInv, NEW i \in DeviceNodes
  PROVE  /\ Queued(toCn[i], applied[i]) \in Seq(Version)
         /\ Len(Queued(toCn[i], applied[i])) <= QueueSize
         /\ Pipe(bufs[i], cnSocket[i], Queued(toCn[i], applied[i]), applied[i])
  <1> USE DEF IInv
  <1>1. applied[i] \in Version
    BY DEF TypeOK
  <1>2. /\ Queued(toCn[i], applied[i]) \in Seq(Version)
        /\ Len(Queued(toCn[i], applied[i])) <= QueueSize
    BY <1>1, QueuedType, NodeTypes DEF TypeOK
  <1> QED  BY <1>2, PipeSend, NodeTypes DEF RoundTrip

LEMMA RecvAndReplyKeepsIInv ==
  ASSUME IInv, NEW i \in DeviceNodes, RecvAndReply(i)
  PROVE  IInv'
  <1> USE DEF IInv
  <1>1. dnSocket[i] # <<>>
    BY DEF RecvAndReply
  <1>2. /\ dnSocket'[i] = Tail(dnSocket[i]) /\ recvBuf'[i] = Head(dnSocket[i])
        /\ toCn'[i] = Queued(toCn[i], applied[i])
    BY DEF RecvAndReply, Replied, TypeOK
  <1>3. TypeOK'
    BY <1>1, Taken, Answered
    DEF RecvAndReply, Replied, TypeOK, Waiting, cnVars, recvMultVars
  <1>4. RoundTrip(i)'
    BY <1>1, <1>2, Taken, Answered DEF RecvAndReply, RoundTrip, cnVars
  <1>5. ASSUME NEW j \in DeviceNodes, j # i PROVE RoundTrip(j)'
    BY <1>5 DEF RecvAndReply, Replied, RoundTrip, TypeOK, cnVars
  <1> QED  BY <1>3, <1>4, <1>5

LEMMA DrainKeepsIInv ==
  ASSUME IInv, NEW i \in DeviceNodes, Drain(i)
  PROVE  IInv'
  <1> USE DEF IInv
  <1>1. /\ recvBuf'[i] \in Version /\ applied'[i] = recvBuf'[i]
        /\ dnSocket'[i] \in Seq(Version) /\ Len(dnSocket'[i]) <= QueueSize
        /\ applied[i] <= recvBuf'[i]
        /\ Pipe(recvBuf'[i], dnSocket'[i], toDn[i], cnVersion)
    <2>1. CASE dnSocket[i] = <<>>
      BY <2>1 DEF Drain, TypeOK, RoundTrip
    <2>2. CASE dnSocket[i] # <<>>
      BY <2>2, Taken DEF Drain, TypeOK
    <2> QED  BY <2>1, <2>2
  <1>2. TypeOK'
    BY <1>1 DEF Drain, TypeOK, Waiting, cnVars, recvMultVars
  <1>3. RoundTrip(i)'
    <2>1. Pipe(bufs[i], cnSocket[i], toCn[i], applied'[i])
      BY <1>1, PipeRaise, NodeTypes DEF RoundTrip, Version
    <2>2. applied'[i] <= recvBuf'[i]
      BY <1>1 DEF Version
    <2> QED  BY <1>1, <2>1, <2>2 DEF Drain, RoundTrip, cnVars
  <1>4. ASSUME NEW j \in DeviceNodes, j # i PROVE RoundTrip(j)'
    BY <1>4 DEF Drain, RoundTrip, TypeOK, cnVars
  <1> QED  BY <1>2, <1>3, <1>4

LEMMA DnFailsKeepsIInv ==
  ASSUME IInv, NEW i \in DeviceNodes, DnFails(i)
  PROVE  IInv'
  <1> USE DEF IInv
  <1>1. failures' \in 0 .. MaxFailures
    BY NodeCommsBoundAssumption DEF DnFails, Fail, TypeOK
  <1>2. CASE UNCHANGED <<recvBuf, dnSocket, toCn>>
    BY <1>1, <1>2 DEF DnFails, TypeOK, RoundTrip, Waiting, cnVars, recvMultVars
  <1>3. CASE /\ dnSocket[i] # <<>>
             /\ recvBuf' = [recvBuf EXCEPT ![i] = Head(dnSocket[i])]
             /\ dnSocket' = [dnSocket EXCEPT ![i] = Tail(@)]
             /\ \/ UNCHANGED toCn
                \/ toCn' = Replied(i, applied[i])
    <2>1. /\ dnSocket'[i] = Tail(dnSocket[i]) /\ recvBuf'[i] = Head(dnSocket[i])
          /\ toCn'[i] \in {toCn[i], Queued(toCn[i], applied[i])}
          /\ \A j \in DeviceNodes \ {i} : /\ dnSocket'[j] = dnSocket[j]
                                         /\ recvBuf'[j] = recvBuf[j]
                                         /\ toCn'[j] = toCn[j]
      BY <1>3 DEF Replied, TypeOK
    <2>2. TypeOK'
      BY <1>1, <1>3, Taken, Answered
      DEF DnFails, Replied, TypeOK, Waiting, cnVars, recvMultVars
    <2>3. RoundTrip(i)'
      BY <1>3, <2>1, Taken, Answered DEF DnFails, RoundTrip, cnVars
    <2>4. ASSUME NEW j \in DeviceNodes, j # i PROVE RoundTrip(j)'
      BY <2>1, <2>4 DEF DnFails, RoundTrip, cnVars
    <2> QED  BY <2>2, <2>3, <2>4
  <1> QED  BY <1>2, <1>3 DEF DnFails

-----------------------------------------------------------------------------
(* The network *)

LEMMA DeliverToDnKeepsIInv ==
  ASSUME IInv, NEW i \in DeviceNodes, DeliverToDn(i)
  PROVE  IInv'
  <1> USE DEF IInv
  <1>1. toDn[i] # <<>>
    BY DEF DeliverToDn
  <1>2. /\ Head(toDn[i]) \in Version /\ Tail(toDn[i]) \in Seq(Version)
        /\ Len(Tail(toDn[i])) <= QueueSize
    BY <1>1, TailType, NodeTypes DEF TypeOK
  <1>3. /\ Append(dnSocket[i], Head(toDn[i])) \in Seq(Version)
        /\ Len(Append(dnSocket[i], Head(toDn[i]))) <= QueueSize
    BY <1>2, NodeTypes, NodeCommsBoundAssumption DEF DeliverToDn
  <1>4. TypeOK'
    BY <1>2, <1>3 DEF DeliverToDn, TypeOK, Waiting, cnVars, recvMultVars, dnVars
  <1>5. RoundTrip(i)'
    <2>1. Pipe(recvBuf[i], Append(dnSocket[i], Head(toDn[i])), Tail(toDn[i]),
               cnVersion)
      BY <1>1, PipeDeliver, NodeTypes DEF RoundTrip
    <2>2. /\ dnSocket'[i] = Append(dnSocket[i], Head(toDn[i]))
          /\ toDn'[i] = Tail(toDn[i])
      BY DEF DeliverToDn, TypeOK
    <2> QED  BY <2>1, <2>2 DEF DeliverToDn, RoundTrip, cnVars, dnVars
  <1>6. ASSUME NEW j \in DeviceNodes, j # i PROVE RoundTrip(j)'
    BY <1>6 DEF DeliverToDn, RoundTrip, TypeOK, cnVars, dnVars
  <1> QED  BY <1>4, <1>5, <1>6

LEMMA DeliverToCnKeepsIInv ==
  ASSUME IInv, NEW i \in DeviceNodes, DeliverToCn(i)
  PROVE  IInv'
  <1> USE DEF IInv
  <1>1. toCn[i] # <<>>
    BY DEF DeliverToCn
  <1>2. /\ Head(toCn[i]) \in Version /\ Tail(toCn[i]) \in Seq(Version)
        /\ Len(Tail(toCn[i])) <= QueueSize
    BY <1>1, TailType, NodeTypes DEF TypeOK
  <1>3. /\ Append(cnSocket[i], Head(toCn[i])) \in Seq(Version)
        /\ Append(cnSocket[i], Head(toCn[i])) # <<>>
        /\ Len(Append(cnSocket[i], Head(toCn[i]))) <= QueueSize
    <2>1. \A s \in Seq(Version), m \in Version :
            Append(s, m) # <<>> /\ Len(Append(s, m)) = Len(s) + 1
      OBVIOUS
    <2>2. cnSocket[i] \in Seq(Version) /\ Len(cnSocket[i]) < QueueSize
      BY NodeTypes DEF DeliverToCn
    <2> QED  BY <1>2, <2>1, <2>2, NodeCommsBoundAssumption
  <1>4. TypeOK'
    <2>1. Waiting \subseteq Waiting'
      <3>1. \A j \in DeviceNodes : cnSocket[j] # <<>> => cnSocket'[j] # <<>>
        <4>1. cnSocket'[i] # <<>>
          BY <1>3 DEF DeliverToCn, TypeOK
        <4>2. \A j \in DeviceNodes \ {i} : cnSocket'[j] = cnSocket[j]
          BY DEF DeliverToCn, TypeOK
        <4> QED  BY <4>1, <4>2
      <3> QED  BY <3>1 DEF Waiting
    <2>2. cnSocket' \in [DeviceNodes -> Seq(Version)]
      BY <1>3 DEF DeliverToCn, TypeOK
    <2>3. toCn' \in [DeviceNodes -> Seq(Version)]
      BY <1>2 DEF DeliverToCn, TypeOK
    <2>4. arrivedCn' \in [DeviceNodes -> Version]
      BY <1>2 DEF DeliverToCn, TypeOK
    <2>5. \A j \in DeviceNodes : Len(cnSocket'[j]) <= QueueSize
                                /\ Len(toCn'[j]) <= QueueSize
      BY <1>2, <1>3 DEF DeliverToCn, TypeOK
    <2>6. ready' \subseteq IF cnPc' = "recv" THEN Waiting' ELSE {}
      BY <2>1 DEF DeliverToCn, TypeOK, cnVars, recvMultVars
    <2> QED
      BY <2>2, <2>3, <2>4, <2>5, <2>6
      DEF DeliverToCn, TypeOK, cnVars, recvMultVars, dnVars
  <1>5. RoundTrip(i)'
    <2>1. Pipe(bufs[i], Append(cnSocket[i], Head(toCn[i])), Tail(toCn[i]),
               applied[i])
      BY <1>1, PipeDeliver, NodeTypes DEF RoundTrip
    <2>2. /\ cnSocket'[i] = Append(cnSocket[i], Head(toCn[i]))
          /\ toCn'[i] = Tail(toCn[i])
      BY DEF DeliverToCn, TypeOK
    <2> QED  BY <2>1, <2>2 DEF DeliverToCn, RoundTrip, cnVars, dnVars
  <1>6. ASSUME NEW j \in DeviceNodes, j # i PROVE RoundTrip(j)'
    BY <1>6 DEF DeliverToCn, RoundTrip, TypeOK, cnVars, dnVars
  <1> QED  BY <1>4, <1>5, <1>6

LEMMA LoseKeepsIInv ==
  ASSUME IInv, NEW i \in DeviceNodes, Lose(i)
  PROVE  IInv'
  <1> USE DEF IInv
  <1>1. CASE toDn[i] # <<>> /\ toDn' = [toDn EXCEPT ![i] = Tail(@)] /\ UNCHANGED toCn
    <2>1. /\ Tail(toDn[i]) \in Seq(Version) /\ Len(Tail(toDn[i])) <= QueueSize
          /\ Pipe(recvBuf[i], dnSocket[i], Tail(toDn[i]), cnVersion)
      BY <1>1, TailType, PipeLose, NodeTypes DEF TypeOK, RoundTrip
    <2>2. TypeOK'
      BY <1>1, <2>1 DEF Lose, TypeOK, Waiting, cnVars, recvMultVars, dnVars
    <2>3. ASSUME NEW j \in DeviceNodes PROVE RoundTrip(j)'
      BY <1>1, <2>1 DEF Lose, RoundTrip, TypeOK, cnVars, dnVars
    <2> QED  BY <2>2, <2>3
  <1>2. CASE toCn[i] # <<>> /\ toCn' = [toCn EXCEPT ![i] = Tail(@)] /\ UNCHANGED toDn
    <2>1. /\ Tail(toCn[i]) \in Seq(Version) /\ Len(Tail(toCn[i])) <= QueueSize
          /\ Pipe(bufs[i], cnSocket[i], Tail(toCn[i]), applied[i])
      BY <1>2, TailType, PipeLose, NodeTypes DEF TypeOK, RoundTrip
    <2>2. TypeOK'
      BY <1>2, <2>1 DEF Lose, TypeOK, Waiting, cnVars, recvMultVars, dnVars
    <2>3. ASSUME NEW j \in DeviceNodes PROVE RoundTrip(j)'
      BY <1>2, <2>1 DEF Lose, RoundTrip, TypeOK, cnVars, dnVars
    <2> QED  BY <2>2, <2>3
  <1> QED  BY <1>1, <1>2 DEF Lose

-----------------------------------------------------------------------------
LEMMA NextKeepsIInv == IInv /\ [Next]_vars => IInv'
  <1> SUFFICES ASSUME IInv, [Next]_vars PROVE IInv'
    OBVIOUS
  <1>1. CASE UNCHANGED vars
    BY <1>1 DEF vars, cnVars, dnVars, recvMultVars, IInv, TypeOK, RoundTrip, Waiting
  <1>2. CASE CnStep
    BY <1>2, ControlNodeKeepsIInv, EndExchangeKeepsIInv, ReadReadyKeepsIInv
    DEF CnStep
  <1>3. CASE SendFails \/ RecvFails
    BY <1>3, ControlNodeKeepsIInv, RecvFailsKeepsIInv
  <1>4. ASSUME NEW i \in DeviceNodes, DnStep(i) \/ DnFails(i)
        PROVE  IInv'
    BY <1>4, RecvAndReplyKeepsIInv, DrainKeepsIInv, DnFailsKeepsIInv DEF DnStep
  <1>5. ASSUME NEW i \in DeviceNodes,
               DeliverToDn(i) \/ DeliverToCn(i) \/ Lose(i)
        PROVE  IInv'
    BY <1>5, DeliverToDnKeepsIInv, DeliverToCnKeepsIInv, LoseKeepsIInv
  <1> QED  BY <1>1, <1>2, <1>3, <1>4, <1>5 DEF Next

(* Versions do not rise around the whole way of an exchange.               *)
THEOREM Invariance == Spec => []IInv
  BY InitEstablishesIInv, NextKeepsIInv, PTL DEF Spec

(* Every variable has its type; in particular recvMult only reads sockets  *)
(* in which a message waits, so that its recv does not block.              *)
THEOREM TypeCorrect == Spec => []TypeOK
  <1>1. IInv => TypeOK
    BY DEF IInv
  <1> QED  BY <1>1, Invariance, PTL

(* The Control Node never holds feedback that is ahead of what the devices *)
(* acted upon, nor do they act upon a command that was not given.          *)
THEOREM FeedbackTrue == Spec => []FeedbackIsTrue
  <1>1. ASSUME IInv, NEW i \in DeviceNodes
        PROVE  view[i] <= applied[i] /\ applied[i] <= cnVersion
    <2>1. /\ view[i] <= bufs[i] /\ bufs[i] <= applied[i]
          /\ applied[i] <= recvBuf[i] /\ recvBuf[i] <= cnVersion
      BY <1>1 DEF IInv, RoundTrip, Pipe
    <2> QED  BY <1>1, <2>1, NodeTypes DEF IInv
  <1>2. IInv => FeedbackIsTrue
    BY <1>1 DEF FeedbackIsTrue
  <1> QED  BY <1>2, Invariance, PTL

-----------------------------------------------------------------------------
(* The refinement: a version of the commands only rises, and what the      *)
(* devices act upon rises to one the Control Node has given.               *)
LEMMA CommandsStep ==
  ASSUME IInv, IInv', [Next]_vars
  PROVE  [Down!Change \/ Down!Copy]_(Down!vars)
  <1>1. /\ cnVersion \in Nat /\ cnVersion' \in Nat
        /\ applied \in [DeviceNodes -> Nat] /\ applied' \in [DeviceNodes -> Nat]
    BY DEF IInv, TypeOK, Version
  <1>2. CASE UNCHANGED <<cnVersion, applied>>
    BY <1>2 DEF Down!vars, EachNode
  <1>3. CASE CnRun
    <2>1. cnVersion <= cnVersion' /\ applied' = applied
      BY <1>1, <1>3 DEF CnRun, dnVars
    <2> QED  BY <1>1, <2>1 DEF Down!Change, EachNode
  <1>4. ASSUME NEW i \in DeviceNodes, Drain(i)
        PROVE  Down!Copy
    <2>1. cnVersion' = cnVersion
      BY <1>4 DEF Drain, cnVars
    <2>2. \A j \in DeviceNodes : applied[j] <= applied'[j]
      <3>1. \A j \in DeviceNodes \ {i} : applied'[j] = applied[j]
        BY <1>4 DEF Drain, IInv, TypeOK
      <3>2. applied'[i] = recvBuf'[i]
        BY <1>4 DEF Drain, IInv, TypeOK
      <3>3. applied[i] <= recvBuf'[i]
        <4>1. CASE dnSocket[i] = <<>>
          BY <1>4, <4>1 DEF Drain, IInv, RoundTrip
        <4>2. CASE dnSocket[i] # <<>>
          BY <1>4, <4>2, Taken DEF Drain, IInv, TypeOK
        <4> QED  BY <4>1, <4>2
      <3> QED  BY <1>1, <3>1, <3>2, <3>3
    <2>3. \A j \in DeviceNodes : applied'[j] <= cnVersion
      <3>1. \A j \in DeviceNodes : /\ applied'[j] <= recvBuf'[j]
                                   /\ recvBuf'[j] <= cnVersion'
        BY DEF IInv, RoundTrip, Pipe
      <3>2. recvBuf' \in [DeviceNodes -> Nat]
        BY DEF IInv, TypeOK, Version
      <3> QED  BY <1>1, <2>1, <3>1, <3>2
    <2> QED  BY <1>1, <2>1, <2>2, <2>3 DEF Down!Copy, EachNode
  <1>5. ASSUME Next, ~CnRun, ~\E i \in DeviceNodes : Drain(i)
        PROVE  UNCHANGED <<cnVersion, applied>>
    <2>1. CASE CnStep
      BY <1>5, <2>1 DEF CnStep, SendToNodes, Select, EndExchange, ReadReady, dnVars
    <2>2. CASE SendFails \/ RecvFails
      BY <2>2 DEF SendFails, RecvFails, dnVars
    <2>3. ASSUME NEW i \in DeviceNodes, DnStep(i) \/ DnFails(i)
          PROVE  UNCHANGED <<cnVersion, applied>>
      BY <1>5, <2>3 DEF DnStep, RecvAndReply, DnFails, cnVars
    <2>4. ASSUME NEW i \in DeviceNodes,
                 DeliverToDn(i) \/ DeliverToCn(i) \/ Lose(i)
          PROVE  UNCHANGED <<cnVersion, applied>>
      BY <2>4 DEF DeliverToDn, DeliverToCn, Lose, cnVars, dnVars
    <2> QED  BY <1>5, <2>1, <2>2, <2>3, <2>4 DEF Next
  <1>6. CASE UNCHANGED vars
    BY <1>2, <1>6 DEF vars, cnVars, dnVars
  <1> QED  BY <1>2, <1>3, <1>4, <1>5, <1>6

(* The regions of the Control Node are mirrored by the Device Nodes.       *)
THEOREM CommandsMirrored == Spec => CommandsAreMirrored
  <1>1. Init => Down!Init
    BY DEF Init, Down!Init, EachNode
  <1> QED
    BY <1>1, CommandsStep, Invariance, PTL DEF Spec, CommandsAreMirrored, Down!Spec

(* What the Control Node holds rises to what the devices have acted upon.  *)
LEMMA ReportsStep ==
  ASSUME IInv, IInv', [Next]_vars
  PROVE  [Up!Change \/ Up!Copy]_(Up!vars)
  <1>1. /\ applied \in [DeviceNodes -> Nat] /\ applied' \in [DeviceNodes -> Nat]
        /\ view \in [DeviceNodes -> Nat] /\ view' \in [DeviceNodes -> Nat]
        /\ bufs \in [DeviceNodes -> Nat]
    BY DEF IInv, TypeOK, Version
  <1>2. CASE UNCHANGED <<applied, view>>
    BY <1>2 DEF Up!vars
  <1>3. CASE EndExchange
    <2>1. applied' = applied /\ \A i \in DeviceNodes : view'[i] \in {view[i], bufs[i]}
      BY <1>3 DEF EndExchange, dnVars
    <2>2. \A i \in DeviceNodes : view[i] <= bufs[i] /\ bufs[i] <= applied[i]
      BY DEF IInv, RoundTrip, Pipe
    <2> QED  BY <1>1, <2>1, <2>2 DEF Up!Copy
  <1>4. ASSUME NEW i \in DeviceNodes, Drain(i)
        PROVE  Up!Change
    <2>1. view' = view
      BY <1>4 DEF Drain, cnVars
    <2>2. [Down!Change \/ Down!Copy]_(Down!vars)
      BY CommandsStep
    <2>3. \A j \in DeviceNodes : applied[j] <= applied'[j]
      BY <1>1, <2>2 DEF Down!Change, Down!Copy, Down!vars
    <2> QED  BY <1>1, <2>1, <2>3 DEF Up!Change
  <1>5. ASSUME Next, ~EndExchange, ~\E i \in DeviceNodes : Drain(i)
        PROVE  UNCHANGED <<applied, view>>
    <2>1. CASE CnStep
      BY <1>5, <2>1 DEF CnStep, SendToNodes, Select, CnRun, ReadReady, dnVars
    <2>2. CASE SendFails \/ RecvFails
      BY <2>2 DEF SendFails, RecvFails, dnVars
    <2>3. ASSUME NEW i \in DeviceNodes, DnStep(i) \/ DnFails(i)
          PROVE  UNCHANGED <<applied, view>>
      BY <1>5, <2>3 DEF DnStep, RecvAndReply, DnFails, cnVars
    <2>4. ASSUME NEW i \in DeviceNodes,
                 DeliverToDn(i) \/ DeliverToCn(i) \/ Lose(i)
          PROVE  UNCHANGED <<applied, view>>
      BY <2>4 DEF DeliverToDn, DeliverToCn, Lose, cnVars, dnVars
    <2> QED  BY <1>5, <2>1, <2>2, <2>3, <2>4 DEF Next
  <1>6. CASE UNCHANGED vars
    BY <1>2, <1>6 DEF vars, cnVars, dnVars
  <1> QED  BY <1>2, <1>3, <1>4, <1>5, <1>6

(* The regions of the Device Nodes are mirrored by the Control Node.       *)
THEOREM ReportsMirrored == Spec => ReportsAreMirrored
  <1>1. Init => Up!Init
    BY DEF Init, Up!Init, EachNode
  <1> QED
    BY <1>1, ReportsStep, Invariance, PTL DEF Spec, ReportsAreMirrored, Up!Spec

-----------------------------------------------------------------------------
(* The newest message that arrived is the last in the socket, or the one   *)
(* that was read last.                                                     *)
Newest(buf, socket) == IF socket = <<>> THEN buf ELSE socket[Len(socket)]

NewestIsKept == \A i \in DeviceNodes : Newest(bufs[i], cnSocket[i]) = arrivedCn[i]

LEMMA TakeKeepsNewest ==
  ASSUME NEW s \in Seq(Version), s # <<>>, NEW buf
  PROVE  Newest(Head(s), Tail(s)) = Newest(buf, s)
  <1>1. /\ Head(s) = s[1] /\ Len(s) \in Nat /\ Len(s) >= 1
        /\ Tail(s) \in Seq(Version) /\ Len(Tail(s)) = Len(s) - 1
        /\ \A k \in 1 .. Len(Tail(s)) : Tail(s)[k] = s[k + 1]
    BY HeadTailProperties
  <1> DEFINE t == Tail(s)
  <1> HIDE DEF t
  <1>0. (t = <<>> <=> Len(t) = 0) /\ Len(t) = Len(s) - 1
    <2>1. t \in Seq(Version) /\ Len(t) = Len(s) - 1
      BY <1>1 DEF t
    <2>2. t # <<>> => Len(t) # 0
      BY <2>1, EmptySeq
    <2> QED  BY <2>1, <2>2, EmptySeq
  <1>2. CASE Len(s) = 1
    <2>1. Tail(s) = <<>>
      BY <1>0, <1>2 DEF t
    <2> QED  BY <1>1, <1>2, <2>1 DEF Newest
  <1>3. CASE Len(s) # 1
    <2>1. Tail(s) # <<>> /\ Len(s) - 1 \in 1 .. Len(Tail(s))
      BY <1>0, <1>1, <1>3 DEF t
    <2>2. Tail(s)[Len(s) - 1] = s[Len(s)]
      BY <1>1, <2>1
    <2> QED  BY <1>1, <2>1, <2>2 DEF Newest
  <1> QED  BY <1>2, <1>3

LEMMA NextKeepsNewest ==
  ASSUME IInv, NewestIsKept, [Next]_vars
  PROVE  NewestIsKept'
  <1>1. CASE UNCHANGED <<bufs, cnSocket, arrivedCn>>
    BY <1>1 DEF NewestIsKept
  <1>2. ASSUME NEW i \in DeviceNodes, NextReady(i),
               cnPc = "recv",
               cnSocket' = [cnSocket EXCEPT ![i] = Tail(@)],
               bufs' = [bufs EXCEPT ![i] = Head(cnSocket[i])],
               arrivedCn' = arrivedCn
        PROVE  NewestIsKept'
    <2>1. cnSocket[i] # <<>> /\ cnSocket[i] \in Seq(Version)
      BY <1>2 DEF NextReady, IInv, TypeOK, Waiting
    <2>2. bufs'[i] = Head(cnSocket[i]) /\ cnSocket'[i] = Tail(cnSocket[i])
      BY <1>2 DEF IInv, TypeOK
    <2>3. Newest(bufs'[i], cnSocket'[i]) = arrivedCn'[i]
      BY <1>2, <2>1, <2>2, TakeKeepsNewest DEF NewestIsKept
    <2>4. \A j \in DeviceNodes \ {i} : /\ bufs'[j] = bufs[j]
                                       /\ cnSocket'[j] = cnSocket[j]
      BY <1>2 DEF IInv, TypeOK
    <2> QED  BY <1>2, <2>3, <2>4 DEF NewestIsKept
  <1>3. ASSUME NEW i \in DeviceNodes, DeliverToCn(i) PROVE NewestIsKept'
    <2>1. toCn[i] # <<>> /\ toCn[i] \in Seq(Version)
          /\ cnSocket[i] \in Seq(Version)
      BY <1>3 DEF DeliverToCn, IInv, TypeOK
    <2>2. /\ cnSocket'[i] = Append(cnSocket[i], Head(toCn[i]))
          /\ arrivedCn'[i] = Head(toCn[i]) /\ bufs' = bufs
      BY <1>3 DEF DeliverToCn, IInv, TypeOK, cnVars
    <2>3. /\ cnSocket'[i] # <<>>
          /\ cnSocket'[i][Len(cnSocket'[i])] = Head(toCn[i])
      BY <2>1, <2>2, AppendProperties
    <2>4. Newest(bufs'[i], cnSocket'[i]) = arrivedCn'[i]
      BY <2>2, <2>3 DEF Newest
    <2>5. \A j \in DeviceNodes \ {i} : /\ arrivedCn'[j] = arrivedCn[j]
                                       /\ cnSocket'[j] = cnSocket[j]
      BY <1>3 DEF DeliverToCn, IInv, TypeOK
    <2> QED  BY <2>2, <2>4, <2>5 DEF NewestIsKept
  <1>4. CASE CnStep \/ RecvFails
    BY <1>1, <1>2, <1>4
       DEF CnStep, SendToNodes, Select, EndExchange, CnRun, ReadReady, RecvFails
  <1>5. CASE SendFails \/ UNCHANGED vars
    BY <1>1, <1>5 DEF SendFails, vars, cnVars
  <1>6. ASSUME NEW i \in DeviceNodes,
               DnStep(i) \/ DnFails(i) \/ DeliverToDn(i) \/ Lose(i)
        PROVE  NewestIsKept'
    BY <1>1, <1>6 DEF DnStep, RecvAndReply, Drain, DnFails, DeliverToDn, Lose, cnVars
  <1> QED  BY <1>3, <1>4, <1>5, <1>6 DEF Next

LEMMA NewestInvariance == Spec => []NewestIsKept
  <1>1. Init => NewestIsKept
    BY DEF Init, NewestIsKept, Newest, EachNode
  <1> QED  BY <1>1, NextKeepsNewest, Invariance, PTL DEF Spec

(* recvMult has no backlog: with the time to wait it empties every socket, *)
(* so that a copy that changes becomes the newest that arrived.            *)
THEOREM CopiesNewest == Spec => CopiesAreNewest
  <1>1. ASSUME IInv, NewestIsKept, Next,
               NEW i \in DeviceNodes, view'[i] # view[i], timeLeft
        PROVE  view'[i] = arrivedCn[i]
    <2>1. EndExchange
      <3>1. CASE CnStep \/ SendFails \/ RecvFails
        BY <1>1, <3>1 DEF CnStep, SendToNodes, Select, CnRun, ReadReady,
                          SendFails, RecvFails
      <3>2. ASSUME NEW j \in DeviceNodes,
                   \/ DnStep(j) \/ DnFails(j)
                   \/ DeliverToDn(j) \/ DeliverToCn(j) \/ Lose(j)
            PROVE  view' = view
        BY <3>2 DEF DnStep, RecvAndReply, Drain, DnFails, DeliverToDn,
                    DeliverToCn, Lose, cnVars
      <3> QED  BY <1>1, <3>1, <3>2 DEF Next
    <2>2. view'[i] = bufs[i] /\ cnSocket[i] = <<>>
      BY <1>1, <2>1 DEF EndExchange, Waiting
    <2> QED  BY <1>1, <2>2 DEF NewestIsKept, Newest
  <1>2. IInv /\ NewestIsKept /\ [Next]_vars
          => [\A i \in DeviceNodes :
                (view'[i] # view[i] /\ timeLeft) => view'[i] = arrivedCn[i]]_vars
    BY <1>1
  <1> QED  BY <1>2, Invariance, NewestInvariance, PTL DEF Spec, CopiesAreNewest

(* The second recv of a Device Node: the devices act on the newest message *)
(* that arrived, unless more than one had piled up behind the first.       *)
THEOREM DrainNewest == Spec => DrainAppliesNewest
  <1>1. ASSUME IInv, Next, NEW i \in DeviceNodes,
               dnPc[i] = "drain", dnPc'[i] = "block", failures' = failures
        PROVE  Drain(i)
    <2>1. ~Fail
      BY <1>1 DEF Fail, IInv, TypeOK
    <2>2. CASE CnStep \/ SendFails \/ RecvFails
      BY <1>1, <2>1, <2>2 DEF CnStep, SendToNodes, Select, EndExchange, CnRun,
                              ReadReady, SendFails, RecvFails, dnVars
    <2>3. ASSUME NEW j \in DeviceNodes, DnStep(j) \/ DnFails(j)
          PROVE  Drain(i)
      BY <1>1, <2>1, <2>3 DEF DnStep, RecvAndReply, Drain, DnFails, IInv, TypeOK
    <2>4. ASSUME NEW j \in DeviceNodes,
                 DeliverToDn(j) \/ DeliverToCn(j) \/ Lose(j)
          PROVE  dnPc' = dnPc
      BY <2>4 DEF DeliverToDn, DeliverToCn, Lose, dnVars
    <2> QED  BY <1>1, <2>2, <2>3, <2>4 DEF Next
  <1> DEFINE q(i) == <<recvBuf[i]>> \o dnSocket[i]
  <1>2. ASSUME IInv, NEW i \in DeviceNodes, Drain(i), Len(q(i)) <= 2
        PROVE  applied'[i] = q(i)[Len(q(i))]
    <2>1. dnSocket[i] \in Seq(Version) /\ recvBuf[i] \in Version
      BY <1>2 DEF IInv, TypeOK
    <2>2. applied'[i] = recvBuf'[i]
      BY <1>2 DEF Drain, IInv, TypeOK
    <2>3. CASE dnSocket[i] = <<>>
      <3>1. recvBuf' = recvBuf /\ q(i) = <<recvBuf[i]>>
        BY <1>2, <2>3 DEF Drain
      <3> QED  BY <2>2, <3>1
    <2>4. CASE dnSocket[i] # <<>>
      <3>1. recvBuf'[i] = Head(dnSocket[i])
        BY <1>2, <2>4 DEF Drain, IInv, TypeOK
      <3>2. Len(q(i)) = 2 /\ q(i)[2] = Head(dnSocket[i])
        BY <1>2, <2>1, <2>4
      <3> QED  BY <2>2, <3>1, <3>2
    <2> QED  BY <2>3, <2>4
  <1>3. IInv /\ [Next]_vars
          => [\A i \in DeviceNodes :
                LET r == <<recvBuf[i]>> \o dnSocket[i]
                IN  (dnPc[i] = "drain" /\ Len(r) <= 2 /\ failures' = failures
                       /\ dnPc'[i] = "block") => applied'[i] = r[Len(r)]]_vars
    BY <1>1, <1>2
  <1> QED  BY <1>3, Invariance, PTL DEF Spec, DrainAppliesNewest
=============================================================================
