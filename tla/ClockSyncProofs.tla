--------------------------- MODULE ClockSyncProofs --------------------------
(***************************************************************************)
(* Proofs about ClockSync, for every number of clients, starts and faults, *)
(* and about Startup, for all configurations.                              *)
(*                                                                         *)
(* The types are an invariant as they stand.  FlyTogether and              *)
(* WaitsInVainOnlyForMissed speak of the time before the first fault;      *)
(* Undisturbed is inductive during it, and no step makes the number of     *)
(* faults smaller.  FirstInv follows the first start of each client, and   *)
(* of the server, in which a reply stands for one synchronization.  What   *)
(* Startup promises of configurations follows from what a process that is  *)
(* up has checked; for the layout of a Data Vector, that is shown last.    *)
(***************************************************************************)
EXTENDS Startup, SequenceTheorems, FiniteSetTheorems, WellFoundedInduction, TLAPS

(* Steps without a fault, and steps that are one. *)
Regular ==
  \/ StartServer \/ ServerStep
  \/ \E c \in Clients : ServerLoop(c) \/ StartClient(c) \/ ClientStep(c)

(* A verified synchronization is in flight, or counted, only for a client  *)
(* that is in its loop. *)
InLoop(c) == cliPc[c] = "loop" /\ synced[c]

NoSuccess(q) == \A k \in 1 .. Len(q) : q[k] # "CLIENT_SYNC_SUCCESS"

SuccessIsTrue ==
  \A c \in Clients :
    /\ cliPc[c] = "success" => synced[c]
    /\ NoSuccess(toSrv[c]) \/ InLoop(c)
    /\ (srvPc = "recv" /\ c \in served /\ rxMsgs[c] = "CLIENT_SYNC_SUCCESS")
         => InLoop(c)
    /\ srvPc = "loop" => InLoop(c)

(* A client that waits is sent nothing but SERVER_READY. *)
OnlyReady(q) == \A k \in 1 .. Len(q) : q[k] = "SERVER_READY"

WaitersAreTold == \A c \in Clients : cliPc[c] = "wait" => OnlyReady(toCli[c])

(* A client that was told in time is going to reply. *)
RepliesAreDue ==
  \A c \in Clients :
    \/ srvPc \in {"start", "send"} /\ c \in served
    \/ srvPc = "recv" /\ c \notin served
    => ReplyIsDue(c) \/ c \in missed

DaemonInv == ntpd => srvPc \in {"send", "recv"}

Undisturbed == DaemonInv /\ SuccessIsTrue /\ WaitersAreTold /\ RepliesAreDue

IInv == TypeOK /\ (faults = 0 => Undisturbed)

-----------------------------------------------------------------------------
LEMMA TypeInit == Init => TypeOK
  <1> SUFFICES ASSUME Init PROVE TypeOK
    OBVIOUS
  <1>1. EachClient(<<>>) \in [Clients -> Seq(Message)]
    BY DEF EachClient
  <1>2. /\ toCli \in [Clients -> Seq(Message)]
        /\ toSrv \in [Clients -> Seq(Message)]
    BY <1>1 DEF Init
  <1>3. /\ srvStarts \in 0 .. MaxStarts
        /\ cliStarts \in [Clients -> 0 .. MaxStarts]
        /\ faults \in 0 .. MaxFaults
    BY ClockSyncBoundAssumption DEF Init, EachClient
  <1> QED
    BY <1>2, <1>3 DEF Init, TypeOK, EachClient, Down, Msg_t

LEMMA ToldType ==
  ASSUME TypeOK, NEW c \in Clients, NEW m \in Message
  PROVE  Told(c, m) \in [Clients -> Seq(Message)]
  BY DEF Told, TypeOK

LEMMA RepliedType ==
  ASSUME TypeOK, NEW c \in Clients, NEW m \in Message
  PROVE  Replied(c, m) \in [Clients -> Seq(Message)]
  BY DEF Replied, TypeOK

LEMMA TailType ==
  ASSUME NEW q \in [Clients -> Seq(Message)], NEW c \in Clients,
         q[c] # <<>>
  PROVE  /\ [q EXCEPT ![c] = Tail(@)] \in [Clients -> Seq(Message)]
         /\ Head(q[c]) \in Message
  <1>1. Tail(q[c]) \in Seq(Message) /\ Head(q[c]) \in Message
    <2>1. q[c] \in Seq(Message)
      OBVIOUS
    <2> QED
      BY <2>1, HeadTailProperties
  <1> QED
    BY <1>1

LEMMA FaultType == ASSUME TypeOK, Fault PROVE faults' \in 0 .. MaxFaults /\ faults' > 0
  BY ClockSyncBoundAssumption DEF Fault, TypeOK

LEMMA TypeServer == TypeOK /\ ServerStep => TypeOK'
  <1> SUFFICES ASSUME TypeOK, ServerStep PROVE TypeOK'
    OBVIOUS
  <1> USE DEF TypeOK
  <1>1. CASE StartNtpd
    BY <1>1 DEF StartNtpd, cliVars, Down
  <1>2. CASE AllTold
    BY <1>2 DEF AllTold, cliVars, Down
  <1>3. StopNtpd => ntpd' \in BOOLEAN /\ faults' \in 0 .. MaxFaults
    BY FaultType DEF StopNtpd
  <1>4. CASE ClientFailed
    BY <1>3, <1>4 DEF ClientFailed, cliVars, Down
  <1>5. CASE EnterLoop
    BY <1>3, <1>5 DEF EnterLoop, cliVars, Down
  <1>6. ASSUME NEW c \in Clients, SendReady(c) PROVE TypeOK'
    <2>1. toCli' \in [Clients -> Seq(Message)]
      BY <1>6, ToldType DEF SendReady, Message, Msg_t
    <2> QED
      BY <1>6, <2>1 DEF SendReady, Serve, cliVars, Down
  <1>7. ASSUME NEW c \in Clients, RecvReply(c) PROVE TypeOK'
    <2>1. /\ toSrv' \in [Clients -> Seq(Message)]
          /\ Head(toSrv[c]) \in Msg_t
      BY <1>7, TailType DEF RecvReply, Message
    <2>2. rxMsgs' \in [Clients -> Msg_t]
      BY <1>7, <2>1 DEF RecvReply
    <2> QED
      BY <1>7, <2>1, <2>2 DEF RecvReply, Serve, cliVars, Down
  <1>8. ASSUME NEW c \in Clients, RecvReplyError(c) PROVE TypeOK'
    <2>1. toSrv' \in [Clients -> Seq(Message)]
      <3>1. CASE UNCHANGED toSrv
        BY <3>1
      <3>2. CASE toSrv[c] # <<>> /\ toSrv' = [toSrv EXCEPT ![c] = Tail(@)]
        BY <3>2, TailType
      <3> QED
        BY <1>8, <3>1, <3>2 DEF RecvReplyError
    <2>2. ntpd' \in BOOLEAN /\ faults' \in 0 .. MaxFaults
      BY <1>3, <1>8, FaultType DEF RecvReplyError
    <2> QED
      BY <1>8, <2>1, <2>2 DEF RecvReplyError, cliVars, Down
  <1> QED
    BY <1>1, <1>2, <1>4, <1>5, <1>6, <1>7, <1>8 DEF ServerStep

LEMMA TypeClient ==
  ASSUME TypeOK, NEW c \in Clients, ClientStep(c) PROVE TypeOK'
  <1> USE DEF TypeOK
  <1> DEFINE Pcs == Down \cup {"wait", "sync", "success", "failed", "loop"}
  <1>1. ASSUME NEW pc \in Pcs, CliGoto(c, pc)
        PROVE  cliPc' \in [Clients -> Pcs]
    BY <1>1 DEF CliGoto
  <1>2. CASE RecvReady(c)
    <2>1. toCli' \in [Clients -> Seq(Message)]
      BY <1>2, TailType DEF RecvReady
    <2>2. cliPc' \in [Clients -> Pcs]
      BY <1>1, <1>2 DEF RecvReady, Down
    <2> QED
      BY <1>2, <2>1, <2>2 DEF RecvReady, srvVars
  <1>3. CASE Synchronize(c)
    <2>1. cliPc' \in [Clients -> Pcs]
      BY <1>1, <1>3 DEF Synchronize
    <2> QED
      BY <1>3, <2>1 DEF Synchronize, srvVars
  <1>4. CASE SendReply(c)
    <2>1. toSrv' \in [Clients -> Seq(Message)]
      BY <1>4, RepliedType DEF SendReply, Reply, Message, Msg_t
    <2>2. cliPc' \in [Clients -> Pcs]
      BY <1>1, <1>4 DEF SendReply, Down
    <2> QED
      BY <1>4, <2>1, <2>2 DEF SendReply, srvVars
  <1>5. CASE ClientLoop(c)
    <2>1. toCli' \in [Clients -> Seq(Message)]
      BY <1>5, TailType DEF ClientLoop
    <2>2. toSrv' \in [Clients -> Seq(Message)]
      BY <1>5, RepliedType DEF ClientLoop, Message
    <2> QED
      BY <1>5, <2>1, <2>2 DEF ClientLoop, srvVars, cliVars
  <1> QED
    BY <1>2, <1>3, <1>4, <1>5 DEF ClientStep

LEMMA TypeStep == TypeOK /\ [Next]_vars => TypeOK'
  <1> SUFFICES ASSUME TypeOK, [Next]_vars PROVE TypeOK'
    OBVIOUS
  <1> USE DEF TypeOK
  <1>1. CASE StartServer
    <2>1. toSrv' \in [Clients -> Seq(Message)]
      BY <1>1 DEF StartServer, EachClient
    <2>2. srvStarts' \in 0 .. MaxStarts
      BY <1>1, ClockSyncBoundAssumption DEF StartServer
    <2> QED
      BY <1>1, <2>1, <2>2 DEF StartServer, cliVars, EachClient, Msg_t, Down
  <1>2. CASE ServerStep
    BY <1>2, TypeServer
  <1>3. CASE StartNtpdFails
    BY <1>3, FaultType DEF StartNtpdFails, cliVars, Down
  <1>4. CASE ServerCrash
    <2>1. toSrv' \in [Clients -> Seq(Message)]
      BY <1>4 DEF ServerCrash, EachClient
    <2> QED
      BY <1>4, <2>1, FaultType DEF ServerCrash, cliVars, Down
  <1>5. ASSUME NEW c \in Clients, SendReadyFails(c) PROVE TypeOK'
    <2>1. toCli' \in [Clients -> Seq(Message)]
      BY <1>5, ToldType DEF SendReadyFails, Message, Msg_t
    <2> QED
      BY <1>5, <2>1, FaultType DEF SendReadyFails, cliVars, Down
  <1>6. ASSUME NEW c \in Clients, ServerLoop(c) PROVE TypeOK'
    <2>1. \A m \in Region(c) : m \in Message
      BY DEF Region, Message, Msg_t
    <2>2. toCli' \in [Clients -> Seq(Message)]
      BY <1>6, <2>1, ToldType DEF ServerLoop
    <2>3. toSrv' \in [Clients -> Seq(Message)]
      BY <1>6, TailType DEF ServerLoop
    <2> QED
      BY <1>6, <2>2, <2>3 DEF ServerLoop, srvVars, cliVars
  <1>7. ASSUME NEW c \in Clients, StartClient(c) PROVE TypeOK'
    <2>1. toCli' \in [Clients -> Seq(Message)]
      BY <1>7 DEF StartClient
    <2>2. cliStarts' \in [Clients -> 0 .. MaxStarts]
      BY <1>7, ClockSyncBoundAssumption DEF StartClient
    <2> QED
      BY <1>7, <2>1, <2>2 DEF StartClient, CliGoto, srvVars
  <1>8. ASSUME NEW c \in Clients, ClientStep(c) PROVE TypeOK'
    BY <1>8, TypeClient
  <1>9. ASSUME NEW c \in Clients, SendReplyFails(c) PROVE TypeOK'
    <2>1. toSrv' \in [Clients -> Seq(Message)]
      BY <1>9, RepliedType DEF SendReplyFails, Reply, Message, Msg_t
    <2> QED
      BY <1>9, <2>1, FaultType DEF SendReplyFails, CliGoto, Down, srvVars
  <1>10. ASSUME NEW c \in Clients, ClientCrash(c) PROVE TypeOK'
    <2>1. toCli' \in [Clients -> Seq(Message)]
      BY <1>10 DEF ClientCrash
    <2> QED
      BY <1>10, <2>1, FaultType DEF ClientCrash, CliGoto, Down, srvVars
  <1>11. ASSUME NEW c \in Clients, Lose(c) PROVE TypeOK'
    <2>1. CASE toCli[c] # <<>> /\ toCli' = [toCli EXCEPT ![c] = Tail(@)]
               /\ UNCHANGED toSrv
      BY <1>11, <2>1, TailType, FaultType DEF Lose, srvVars, cliVars
    <2>2. CASE toSrv[c] # <<>> /\ toSrv' = [toSrv EXCEPT ![c] = Tail(@)]
               /\ UNCHANGED toCli
      BY <1>11, <2>2, TailType, FaultType DEF Lose, srvVars, cliVars
    <2> QED
      BY <1>11, <2>1, <2>2 DEF Lose
  <1>12. CASE UNCHANGED vars
    BY <1>12 DEF vars, srvVars, cliVars
  <1> QED
    BY <1>1, <1>2, <1>3, <1>4, <1>5, <1>6, <1>7, <1>8, <1>9, <1>10, <1>11,
       <1>12 DEF Next

(* Every variable has its type (the start of the nodes). *)
THEOREM TypeCorrect == Spec => []TypeOK
  <1> QED
    BY TypeInit, TypeStep, PTL DEF Spec

-----------------------------------------------------------------------------
(* Before the first fault only regular steps were taken. *)
LEMMA RegularStep ==
  ASSUME TypeOK, Next, faults' = 0
  PROVE  faults = 0 /\ (Regular \/ UNCHANGED vars)
  <1>1. ~Fault
    BY FaultType
  <1>2. Regular
    BY <1>1 DEF Next, Regular, StartNtpdFails, ServerCrash, SendReadyFails,
                SendReplyFails, ClientCrash, Lose
  <1>3. Regular => UNCHANGED faults
    BY <1>1 DEF Regular, StartServer, ServerStep, StartNtpd, AllTold,
         ClientFailed, EnterLoop, StopNtpd, SendReady, RecvReply,
         RecvReplyError, ServerLoop, StartClient, ClientStep, RecvReady,
         Synchronize, SendReply, ClientLoop
  <1> QED
    BY <1>2, <1>3

LEMMA ShorterQueue ==
  ASSUME NEW q \in Seq(Message), q # <<>>
  PROVE  /\ NoSuccess(q) => NoSuccess(Tail(q)) /\ Head(q) # "CLIENT_SYNC_SUCCESS"
         /\ OnlyReady(q) => OnlyReady(Tail(q)) /\ Head(q) = "SERVER_READY"
  <1>1. \A k \in 1 .. Len(Tail(q)) :
          k + 1 \in 1 .. Len(q) /\ Tail(q)[k] = q[k + 1]
    OBVIOUS
  <1>2. 1 \in 1 .. Len(q) /\ Head(q) = q[1]
    OBVIOUS
  <1> QED
    BY <1>1, <1>2 DEF NoSuccess, OnlyReady

LEMMA LongerQueue ==
  ASSUME NEW q \in Seq(Message), NEW m \in Message
  PROVE  /\ m # "CLIENT_SYNC_SUCCESS" /\ NoSuccess(q) => NoSuccess(Append(q, m))
         /\ m = "SERVER_READY" /\ OnlyReady(q) => OnlyReady(Append(q, m))
         /\ Append(q, m) # <<>>
  <1>1. \A k \in 1 .. Len(Append(q, m)) :
          \/ k \in 1 .. Len(q) /\ Append(q, m)[k] = q[k]
          \/ Append(q, m)[k] = m
    OBVIOUS
  <1>2. Len(Append(q, m)) # 0 /\ Len(<<>>) = 0
    OBVIOUS
  <1>3. Append(q, m) # <<>>
    BY <1>2, Zenon
  <1> QED
    BY <1>1, <1>3 DEF NoSuccess, OnlyReady

LEMMA EmptyQueue == NoSuccess(<<>>) /\ OnlyReady(<<>>)
  BY DEF NoSuccess, OnlyReady

LEMMA UndisturbedInit == Init => Undisturbed
  BY EmptyQueue DEF Init, Undisturbed, DaemonInv, SuccessIsTrue, WaitersAreTold,
                    RepliesAreDue, EachClient

LEMMA DaemonStep ==
  ASSUME TypeOK, Regular, faults' = 0, DaemonInv PROVE DaemonInv'
  <1>1. ~Fault
    BY FaultType
  <1> QED
    BY <1>1 DEF DaemonInv, Down, Regular, StartServer, ServerStep, StartNtpd, AllTold,
         ClientFailed, EnterLoop, StopNtpd, SendReady, RecvReply,
         RecvReplyError, ServerLoop, StartClient, ClientStep, RecvReady,
         Synchronize, SendReply, ClientLoop, srvVars

LEMMA LoopStep ==
  ASSUME TypeOK, Regular, faults' = 0, NEW d \in Clients, InLoop(d)
  PROVE  InLoop(d)'
  <1>1. ~Fault
    BY FaultType
  <1>2. \A c \in Clients : \A p : CliGoto(c, p) /\ c # d => cliPc'[d] = cliPc[d]
    BY DEF CliGoto, TypeOK
  <1> QED
    BY <1>1, <1>2 DEF TypeOK, InLoop, Down, Regular, StartServer, ServerStep,
         StartNtpd, AllTold, ClientFailed, EnterLoop, SendReady,
         RecvReply, RecvReplyError, ServerLoop, StartClient, ClientStep,
         RecvReady, Synchronize, SendReply, ClientLoop, srvVars, cliVars

LEMMA SuccessStep ==
  ASSUME TypeOK, Regular, faults' = 0, SuccessIsTrue PROVE SuccessIsTrue'
  <1>1. ~Fault
    BY FaultType
  <1> SUFFICES ASSUME NEW d \in Clients
               PROVE  /\ cliPc'[d] = "success" => synced'[d]
                      /\ NoSuccess(toSrv'[d]) \/ InLoop(d)'
                      /\ (srvPc' = "recv" /\ d \in served'
                            /\ rxMsgs'[d] = "CLIENT_SYNC_SUCCESS") => InLoop(d)'
                      /\ srvPc' = "loop" => InLoop(d)'
    BY DEF SuccessIsTrue, InLoop
  <1>2. CASE InLoop(d)
    BY <1>2, LoopStep DEF InLoop
  <1>3. CASE ~InLoop(d)
    <2>1. /\ cliPc[d] = "success" => synced[d]
          /\ NoSuccess(toSrv[d])
          /\ ~(srvPc = "recv" /\ d \in served
                 /\ rxMsgs[d] = "CLIENT_SYNC_SUCCESS")
          /\ srvPc # "loop"
          /\ toSrv[d] \in Seq(Message)
      BY <1>3 DEF SuccessIsTrue, TypeOK
    <2>2. CASE StartServer
      BY <2>1, <2>2, EmptyQueue DEF StartServer, EachClient, cliVars
    <2>3. CASE ServerStep
      <3>1. CASE StartNtpd \/ AllTold \/ ClientFailed \/ EnterLoop
        BY <2>1, <3>1 DEF StartNtpd, AllTold, ClientFailed, EnterLoop,
                          AllSucceeded, cliVars
      <3>2. ASSUME NEW c \in Clients, SendReady(c) PROVE NoSuccess(toSrv'[d])
                    /\ cliVars' = cliVars /\ srvPc' = "send"
        BY <2>1, <3>2 DEF SendReady
      <3>3. ASSUME NEW c \in Clients, RecvReply(c)
            PROVE  /\ NoSuccess(toSrv'[d]) /\ cliVars' = cliVars
                   /\ srvPc' = "recv"
                   /\ ~(d \in served' /\ rxMsgs'[d] = "CLIENT_SYNC_SUCCESS")
        <4>1. CASE c = d
          BY <2>1, <3>3, <4>1, ShorterQueue DEF RecvReply, TypeOK
        <4>2. CASE c # d
          BY <2>1, <3>3, <4>2 DEF RecvReply, TypeOK, Serve
        <4> QED
          BY <4>1, <4>2
      <3>4. ASSUME NEW c \in Clients, RecvReplyError(c)
            PROVE  /\ NoSuccess(toSrv'[d]) /\ cliVars' = cliVars
                   /\ srvPc' = "exit"
        <4>1. toSrv[c] # <<>> /\ toSrv' = [toSrv EXCEPT ![c] = Tail(@)]
          BY <1>1, <3>4 DEF RecvReplyError
        <4>2. \/ toSrv'[d] = toSrv[d]
              \/ toSrv[d] # <<>> /\ toSrv'[d] = Tail(toSrv[d])
          BY <4>1 DEF TypeOK
        <4>3. NoSuccess(toSrv'[d])
          BY <2>1, <4>2, ShorterQueue
        <4> QED
          BY <3>4, <4>3 DEF RecvReplyError
      <3> QED
        <4>1. ASSUME NEW c \in Clients, SendReady(c) \/ RecvReply(c)
                                              \/ RecvReplyError(c)
              PROVE  /\ NoSuccess(toSrv'[d]) /\ cliVars' = cliVars
                     /\ srvPc' # "loop"
                     /\ ~(srvPc' = "recv" /\ d \in served'
                            /\ rxMsgs'[d] = "CLIENT_SYNC_SUCCESS")
          BY <3>2, <3>3, <3>4, <4>1
        <4> QED
          BY <2>1, <2>3, <3>1, <4>1 DEF ServerStep, cliVars
    <2>4. ASSUME NEW c \in Clients, ServerLoop(c) PROVE FALSE
      BY <2>1, <2>4 DEF ServerLoop
    <2>5. ASSUME NEW c \in Clients, StartClient(c) \/ RecvReady(c)
          PROVE  /\ UNCHANGED <<srvVars, toSrv>>
                 /\ cliPc'[d] = "success" => synced'[d]
      BY <2>1, <2>5 DEF StartClient, RecvReady, CliGoto, TypeOK
    <2>6. ASSUME NEW c \in Clients, Synchronize(c)
          PROVE  /\ UNCHANGED <<srvVars, toSrv>>
                 /\ cliPc'[d] = "success" => synced'[d]
      BY <2>1, <2>6 DEF Synchronize, CliGoto, TypeOK
    <2>7. ASSUME NEW c \in Clients, SendReply(c)
          PROVE  /\ UNCHANGED <<srvVars, synced>>
                 /\ cliPc'[d] = "success" => synced'[d]
                 /\ NoSuccess(toSrv'[d]) \/ InLoop(d)'
      <3>1. CASE c # d
        BY <2>1, <2>7, <3>1 DEF SendReply, CliGoto, Replied, TypeOK
      <3>2. CASE c = d /\ cliPc[d] = "success"
        BY <2>1, <2>7, <3>2 DEF SendReply, CliGoto, TypeOK, InLoop
      <3>3. CASE c = d /\ cliPc[d] = "failed"
        <4>1. /\ cliPc'[d] = "exit" /\ Reply(c) = "CLIENT_SYNC_FAIL"
              /\ UNCHANGED <<srvVars, synced>>
          BY <2>7, <3>3 DEF SendReply, CliGoto, TypeOK, Reply
        <4>2. toSrv'[d] = toSrv[d]
              \/ toSrv'[d] = Append(toSrv[d], "CLIENT_SYNC_FAIL")
          BY <2>7, <3>3, <4>1 DEF SendReply, Replied, TypeOK
        <4> QED
          BY <2>1, <4>1, <4>2, LongerQueue DEF Message, Msg_t
      <3> QED
        BY <2>7, <3>1, <3>2, <3>3 DEF SendReply
    <2>8. ASSUME NEW c \in Clients, ClientLoop(c)
          PROVE  UNCHANGED <<srvVars, cliVars>> /\ NoSuccess(toSrv'[d])
      <3>1. toSrv'[d] = toSrv[d] \/ toSrv'[d] = Append(toSrv[d], "DATA")
        BY <2>8 DEF ClientLoop, Replied, TypeOK
      <3> QED
        BY <2>1, <2>8, <3>1, LongerQueue DEF ClientLoop, Message, Msg_t
    <2> QED
      BY <2>1, <2>2, <2>3, <2>4, <2>5, <2>6, <2>7, <2>8
      DEF Regular, ClientStep, srvVars, cliVars
  <1> QED
    BY <1>2, <1>3

LEMMA WaitersStep ==
  ASSUME TypeOK, Regular, faults' = 0, SuccessIsTrue, WaitersAreTold
  PROVE  WaitersAreTold'
  <1>1. ~Fault
    BY FaultType
  <1> SUFFICES ASSUME NEW d \in Clients, cliPc'[d] = "wait"
               PROVE  OnlyReady(toCli'[d])
    BY DEF WaitersAreTold
  <1>2. cliPc[d] = "wait" => OnlyReady(toCli[d])
    BY DEF WaitersAreTold
  <1>3. toCli[d] \in Seq(Message)
    BY DEF TypeOK
  <1>4. CASE StartServer
    BY <1>2, <1>4 DEF StartServer, cliVars
  <1>5. CASE ServerStep
    <2>1. CASE UNCHANGED <<cliPc, toCli>>
      BY <1>2, <2>1
    <2>2. ASSUME NEW c \in Clients, SendReady(c) PROVE OnlyReady(toCli'[d])
      <3>1. cliPc' = cliPc /\ toCli' = Told(c, "SERVER_READY")
        BY <2>2 DEF SendReady, cliVars
      <3>2. \/ toCli'[d] = toCli[d]
            \/ toCli'[d] = Append(toCli[d], "SERVER_READY")
        BY <3>1 DEF Told, TypeOK
      <3> QED
        BY <1>2, <1>3, <3>1, <3>2, LongerQueue DEF Message, Msg_t
    <2> QED
      BY <1>1, <1>5, <2>1, <2>2 DEF ServerStep, StartNtpd, AllTold, ClientFailed,
           EnterLoop, RecvReply, RecvReplyError, cliVars
  <1>6. ASSUME NEW c \in Clients, ServerLoop(c) PROVE FALSE
    <2>1. cliPc'[d] = "loop"
      BY <1>6 DEF ServerLoop, SuccessIsTrue, InLoop, cliVars
    <2> QED
      BY <2>1
  <1>7. ASSUME NEW c \in Clients, StartClient(c) PROVE OnlyReady(toCli'[d])
    BY <1>2, <1>7, EmptyQueue DEF StartClient, CliGoto, TypeOK
  <1>8. ASSUME NEW c \in Clients, ClientStep(c) PROVE OnlyReady(toCli'[d])
    <2>1. cliPc[d] = "wait" /\ c # d
      BY <1>8 DEF ClientStep, RecvReady, Synchronize, SendReply, ClientLoop,
                  CliGoto, TypeOK, cliVars
    <2>2. toCli'[d] = toCli[d]
      BY <1>8, <2>1 DEF ClientStep, RecvReady, Synchronize, SendReply,
                        ClientLoop, TypeOK
    <2> QED
      BY <1>2, <2>1, <2>2
  <1> QED
    BY <1>4, <1>5, <1>6, <1>7, <1>8 DEF Regular

LEMMA RepliesStep ==
  ASSUME TypeOK, Regular, faults' = 0, WaitersAreTold, RepliesAreDue
  PROVE  RepliesAreDue'
  <1>1. ~Fault
    BY FaultType
  <1> DEFINE Asked(d) == \/ srvPc \in {"start", "send"} /\ d \in served
                         \/ srvPc = "recv" /\ d \notin served
             Due(d) == ReplyIsDue(d) \/ d \in missed
  <1> SUFFICES ASSUME NEW d \in Clients, Asked(d)' PROVE Due(d)'
    BY DEF RepliesAreDue
  <1>2. Asked(d) => Due(d)
    BY DEF RepliesAreDue
  <1>3. toCli[d] \in Seq(Message) /\ toSrv[d] \in Seq(Message)
    BY DEF TypeOK
  <1>4. CASE StartServer
    BY <1>4 DEF StartServer
  <1>5. CASE ServerStep
    <2>1. CASE StartNtpd
      BY <1>2, <2>1 DEF StartNtpd, ReplyIsDue, cliVars
    <2>2. CASE AllTold
      BY <1>2, <2>2 DEF AllTold, ReplyIsDue, cliVars
    <2>3. CASE ClientFailed \/ EnterLoop
      BY <1>1, <2>3 DEF ClientFailed, EnterLoop
    <2>4. ASSUME NEW c \in Clients, SendReady(c) PROVE Due(d)'
      <3>1. CASE c # d
        <4>1. Asked(d)
          BY <2>4, <3>1 DEF SendReady, Serve
        <4>2. toCli'[d] = toCli[d]
          BY <2>4, <3>1 DEF SendReady, Told, TypeOK
        <4> QED
          BY <1>2, <2>4, <4>1, <4>2 DEF SendReady, ReplyIsDue, cliVars
      <3>2. CASE c = d /\ cliPc[d] = "wait"
        <4>1. toCli'[d] = Append(toCli[d], "SERVER_READY")
          BY <2>4, <3>2 DEF SendReady, Told, Down, TypeOK
        <4>2. toCli'[d] # <<>>
          BY <1>3, <4>1, LongerQueue DEF Message, Msg_t
        <4> QED
          BY <2>4, <3>2, <4>2 DEF SendReady, ReplyIsDue, cliVars
      <3>3. CASE c = d /\ cliPc[d] # "wait"
        BY <2>4, <3>3 DEF SendReady
      <3> QED
        BY <3>1, <3>2, <3>3
    <2>5. ASSUME NEW c \in Clients, RecvReply(c) PROVE Due(d)'
      BY <1>2, <2>5 DEF RecvReply, Serve, ReplyIsDue, cliVars, TypeOK
    <2>6. ASSUME NEW c \in Clients, RecvReplyError(c) PROVE Due(d)'
      BY <2>6 DEF RecvReplyError
    <2> QED
      BY <1>5, <2>1, <2>2, <2>3, <2>4, <2>5, <2>6 DEF ServerStep
  <1>6. ASSUME NEW c \in Clients, ServerLoop(c) PROVE Due(d)'
    BY <1>6 DEF ServerLoop, srvVars
  <1>7. ASSUME NEW c \in Clients, StartClient(c) PROVE Due(d)'
    <2>1. Due(d) /\ UNCHANGED <<toSrv, missed>>
      BY <1>2, <1>7 DEF StartClient, srvVars
    <2> QED
      BY <1>7, <2>1 DEF StartClient, ReplyIsDue, CliGoto, Down, TypeOK
  <1>8. ASSUME NEW c \in Clients, ClientStep(c) PROVE Due(d)'
    <2>1. Due(d) /\ UNCHANGED missed /\ srvPc \in {"start", "send", "recv"}
      BY <1>2, <1>8 DEF ClientStep, RecvReady, Synchronize, SendReply,
                        ClientLoop, srvVars
    <2>2. toSrv[d] # <<>> => toSrv'[d] # <<>>
      <3>1. toSrv'[d] = toSrv[d] \/ \E m \in Message :
                                      toSrv'[d] = Append(toSrv[d], m)
        BY <1>8 DEF ClientStep, RecvReady, Synchronize, SendReply, ClientLoop,
                    Replied, Reply, Message, Msg_t, TypeOK
      <3> QED
        BY <1>3, <3>1, LongerQueue
    <2>3. CASE c # d
      <3>1. cliPc'[d] = cliPc[d] /\ toCli'[d] = toCli[d]
        BY <1>8, <2>3 DEF ClientStep, RecvReady, Synchronize, SendReply,
                          ClientLoop, CliGoto, cliVars, TypeOK
      <3> QED
        BY <2>1, <2>2, <3>1 DEF ReplyIsDue
    <2>4. CASE c = d
      <3>1. CASE RecvReady(c)
        <4>1. Head(toCli[d]) = "SERVER_READY"
          BY <1>3, <2>4, <3>1, ShorterQueue DEF RecvReady, WaitersAreTold
        <4> QED
          BY <2>4, <3>1, <4>1 DEF RecvReady, CliGoto, ReplyIsDue, TypeOK
      <3>2. CASE Synchronize(c)
        BY <2>4, <3>2 DEF Synchronize, CliGoto, ReplyIsDue, TypeOK
      <3>3. CASE SendReply(c)
        <4>1. toSrv'[d] = Append(toSrv[d], Reply(c)) /\ Reply(c) \in Message
          BY <2>1, <2>4, <3>3 DEF SendReply, Replied, Reply, Message, Msg_t,
                                  Down, TypeOK
        <4> QED
          BY <1>3, <4>1, LongerQueue DEF ReplyIsDue
      <3>4. CASE ClientLoop(c)
        BY <2>1, <2>2, <2>4, <3>4 DEF ClientLoop, ReplyIsDue, cliVars
      <3> QED
        BY <1>8, <3>1, <3>2, <3>3, <3>4 DEF ClientStep
    <2> QED
      BY <2>3, <2>4
  <1> QED
    BY <1>4, <1>5, <1>6, <1>7, <1>8 DEF Regular

LEMMA Inductive == Spec => []IInv
  <1>1. Init => IInv
    BY TypeInit, UndisturbedInit DEF IInv
  <1>2. IInv /\ [Next]_vars => IInv'
    <2> SUFFICES ASSUME IInv, [Next]_vars, faults' = 0 PROVE Undisturbed'
      BY TypeStep DEF IInv
    <2>1. CASE UNCHANGED vars
      BY <2>1 DEF IInv, Undisturbed, DaemonInv, SuccessIsTrue, WaitersAreTold,
           RepliesAreDue, ReplyIsDue, InLoop, vars, srvVars, cliVars
    <2>2. CASE Next /\ ~UNCHANGED vars
      <3>1. Regular /\ TypeOK /\ Undisturbed
        BY <2>2, RegularStep DEF IInv
      <3> QED
        BY <3>1, DaemonStep, SuccessStep, WaitersStep, RepliesStep
        DEF Undisturbed
    <2> QED
      BY <2>1, <2>2
  <1> QED
    BY <1>1, <1>2, PTL DEF Spec

(* Unless a call failed or a process crashed, every way out of syncServer  *)
(* stops the daemon.                                                       *)
THEOREM DaemonStopped == Spec => []DaemonIsStopped
  <1>1. IInv => DaemonIsStopped
    BY DEF IInv, Undisturbed, DaemonInv, DaemonIsStopped
  <1> QED
    BY <1>1, Inductive, PTL

(* Before the first fault the Control Node is in its loop only with every  *)
(* Device Node synchronized and in its loop.                               *)
THEOREM FliesTogether == Spec => []FlyTogether
  <1>1. IInv => FlyTogether
    BY DEF IInv, Undisturbed, SuccessIsTrue, InLoop, FlyTogether
  <1> QED
    BY <1>1, Inductive, PTL

(* Before the first fault the server waits in vain only for a client that  *)
(* was not waiting when it was told (NOTE #1 of ClockSync.hpp).            *)
THEOREM BlocksOnlyForMissed == Spec => []WaitsInVainOnlyForMissed
  <1>1. IInv => WaitsInVainOnlyForMissed
    BY DEF IInv, Undisturbed, RepliesAreDue, WaitsInVainOnlyForMissed
  <1> QED
    BY <1>1, Inductive, PTL
-----------------------------------------------------------------------------
(* The start with faults.  What a fault can make untrue is the memory of   *)
(* an earlier start: a reply to the server before, or of the client before.*)
(* A process in its first start has no such memory.                        *)

(* The server has, or will read, that c is synchronized. *)
HasReplied(c) == ~NoSuccess(toSrv[c]) \/ rxMsgs[c] = "CLIENT_SYNC_SUCCESS"

(* A client that was started once has replied only after it synchronized,  *)
(* and has not been waiting since. *)
FirstStart(c) ==
  /\ cliPc[c] = "success" => synced[c]
  /\ cliStarts[c] = 0 => cliPc[c] = "off" /\ ~HasReplied(c)
  /\ (cliStarts[c] = 1 /\ HasReplied(c)) =>
       synced[c] /\ cliPc[c] \in Down \cup {"loop"}

(* The first server tells each client once, so that each synchronizes once *)
(* at most, whatever its starts. *)
FirstServer ==
  \/ srvStarts = 0
  \/ srvStarts = 1 /\ srvPc \in {"start", "send", "recv"}

IsTold(c) == srvPc = "recv" \/ (srvPc = "send" /\ c \in served)

Untold(c) ==
  toCli[c] = <<>> /\ ~HasReplied(c) /\ cliPc[c] \in Down \cup {"wait"}

Notified(c) ==
  toCli[c] = <<"SERVER_READY">> /\ ~HasReplied(c) /\ cliPc[c] = "wait"

FirstSync(c) ==
  /\ IsTold(c) \/ Untold(c)
  /\ toCli[c] = <<>> \/ Notified(c)
  /\ HasReplied(c) => synced[c] /\ cliPc[c] \in Down \cup {"wait", "loop"}

NoReady(q) == \A k \in 1 .. Len(q) : q[k] # "SERVER_READY"

FirstLoop ==
  srvPc = "loop" =>
    /\ AllSucceeded
    /\ srvStarts <= 1 => \A c \in Clients \ OneByte : NoReady(toCli[c])

FirstInv ==
  /\ srvStarts = 0 => srvPc = "off"
  /\ \A c \in Clients : FirstStart(c)
  /\ FirstServer => \A c \in Clients : FirstSync(c)
  /\ FirstLoop

(* What a step does to the messages from client d: it takes the first, adds*)
(* one, drops all or leaves them.                                          *)
LEMMA RepliesChange ==
  ASSUME TypeOK, [Next]_vars, NEW d \in Clients
  PROVE  \/ toSrv'[d] \in {toSrv[d], <<>>}
         \/ toSrv[d] # <<>> /\ toSrv'[d] = Tail(toSrv[d])
         \/ toSrv'[d] = Append(toSrv[d], "DATA")
         \/ toSrv'[d] = Append(toSrv[d], "CLIENT_SYNC_FAIL")
         \/ /\ toSrv'[d] = Append(toSrv[d], "CLIENT_SYNC_SUCCESS")
            /\ cliPc[d] = "success" /\ cliPc'[d] \in {"loop", "exit"}
            /\ srvPc \notin Down
            /\ UNCHANGED <<srvVars, toCli, synced, cliStarts>>
  <1> USE DEF TypeOK
  <1>1. CASE StartServer \/ ServerCrash
    BY <1>1 DEF StartServer, ServerCrash, EachClient
  <1>2. CASE ServerStep
    BY <1>2 DEF ServerStep, StartNtpd, AllTold, ClientFailed, EnterLoop,
                SendReady, RecvReply, RecvReplyError
  <1>3. CASE StartNtpdFails \/ UNCHANGED vars
    BY <1>3 DEF StartNtpdFails, vars
  <1>4. ASSUME NEW c \in Clients,
               \/ SendReadyFails(c) \/ ServerLoop(c) \/ StartClient(c)
               \/ ClientCrash(c) \/ Lose(c)
        PROVE  \/ toSrv'[d] = toSrv[d]
               \/ toSrv[d] # <<>> /\ toSrv'[d] = Tail(toSrv[d])
    BY <1>4 DEF SendReadyFails, ServerLoop, StartClient, ClientCrash, Lose
  <1>5. ASSUME NEW c \in Clients, RecvReady(c) \/ Synchronize(c)
        PROVE  toSrv'[d] = toSrv[d]
    BY <1>5 DEF RecvReady, Synchronize
  <1>6. ASSUME NEW c \in Clients, ClientLoop(c)
        PROVE  toSrv'[d] = toSrv[d] \/ toSrv'[d] = Append(toSrv[d], "DATA")
    BY <1>6 DEF ClientLoop, Replied
  <1>7. ASSUME NEW c \in Clients, SendReply(c) \/ SendReplyFails(c)
        PROVE  \/ toSrv'[d] = toSrv[d]
               \/ toSrv'[d] = Append(toSrv[d], "CLIENT_SYNC_FAIL")
               \/ /\ toSrv'[d] = Append(toSrv[d], "CLIENT_SYNC_SUCCESS")
                  /\ cliPc[d] = "success" /\ cliPc'[d] \in {"loop", "exit"}
                  /\ srvPc \notin Down
                  /\ UNCHANGED <<srvVars, toCli, synced, cliStarts>>
    <2>1. CASE c = d /\ cliPc[d] = "success"
      BY <1>7, <2>1 DEF SendReply, SendReplyFails, Replied, Reply, CliGoto
    <2>2. CASE c = d /\ cliPc[d] # "success"
      BY <1>7, <2>2 DEF SendReply, SendReplyFails, Replied, Reply
    <2>3. CASE c # d
      BY <1>7, <2>3 DEF SendReply, SendReplyFails, Replied
    <2> QED
      BY <2>1, <2>2, <2>3
  <1> QED
    BY <1>1, <1>2, <1>3, <1>4, <1>5, <1>6, <1>7 DEF Next, ClientStep

(* Only a client that just synchronized makes the server have its reply.   *)
LEMMA RepliesOnce ==
  ASSUME TypeOK, [Next]_vars, NEW d \in Clients, HasReplied(d)'
  PROVE  \/ HasReplied(d)
         \/ /\ cliPc[d] = "success" /\ cliPc'[d] \in {"loop", "exit"}
            /\ srvPc \notin Down
            /\ UNCHANGED <<srvVars, toCli, synced, cliStarts>>
  <1>1. toSrv[d] \in Seq(Message) /\ NoSuccess(<<>>)
    BY EmptyQueue DEF TypeOK
  <1>2. CASE ~NoSuccess(toSrv'[d])
    <2>1. "DATA" \in Message /\ "CLIENT_SYNC_FAIL" \in Message
      BY DEF Message, Msg_t
    <2> QED
      BY <1>1, <1>2, <2>1, RepliesChange, ShorterQueue, LongerQueue
      DEF HasReplied
  <1>3. CASE rxMsgs'[d] = "CLIENT_SYNC_SUCCESS" /\ rxMsgs[d] # rxMsgs'[d]
    <2>1. ~StartServer
      BY <1>3 DEF StartServer, EachClient
    <2>2. RecvReply(d)
      BY <1>3, <2>1 DEF Next, ServerStep, StartNtpd, AllTold, ClientFailed,
           EnterLoop, SendReady, RecvReply, RecvReplyError, StartNtpdFails,
           ServerCrash, SendReadyFails, ServerLoop, StartClient, ClientStep,
           RecvReady, Synchronize, SendReply, ClientLoop, SendReplyFails,
           ClientCrash, Lose, srvVars, vars, TypeOK
    <2>3. toSrv[d] # <<>> /\ Head(toSrv[d]) = "CLIENT_SYNC_SUCCESS"
      BY <1>3, <2>2 DEF RecvReply, TypeOK
    <2> QED
      BY <1>1, <2>3, ShorterQueue DEF HasReplied
  <1> QED
    BY <1>2, <1>3 DEF HasReplied

(* Who moves client d. *)
LEMMA ClientMoves ==
  ASSUME TypeOK, [Next]_vars, NEW d \in Clients
  PROVE  \/ /\ cliPc'[d] = cliPc[d] /\ synced'[d] = synced[d]
            /\ cliStarts'[d] = cliStarts[d]
         \/ StartClient(d) \/ ClientStep(d)
         \/ SendReplyFails(d) \/ ClientCrash(d)
  <1> DEFINE Stays == /\ cliPc'[d] = cliPc[d] /\ synced'[d] = synced[d]
                      /\ cliStarts'[d] = cliStarts[d]
  <1>1. CASE StartServer \/ ServerStep \/ StartNtpdFails \/ ServerCrash
             \/ UNCHANGED vars
    BY <1>1 DEF StartServer, ServerStep, StartNtpd, AllTold, ClientFailed,
         EnterLoop, SendReady, RecvReply, RecvReplyError, StartNtpdFails,
         ServerCrash, cliVars, vars
  <1>2. ASSUME NEW c \in Clients, SendReadyFails(c) \/ ServerLoop(c) \/ Lose(c)
        PROVE  Stays
    BY <1>2 DEF SendReadyFails, ServerLoop, Lose, cliVars
  <1>3. ASSUME NEW c \in Clients, c # d,
               \/ StartClient(c) \/ ClientStep(c)
               \/ SendReplyFails(c) \/ ClientCrash(c)
        PROVE  Stays
    BY <1>3 DEF TypeOK, StartClient, ClientStep, RecvReady, Synchronize,
         SendReply, ClientLoop, SendReplyFails, ClientCrash, CliGoto, cliVars
  <1> QED
    BY <1>1, <1>2, <1>3 DEF Next

(* Who moves the messages for client d. *)
LEMMA MessagesMove ==
  ASSUME TypeOK, [Next]_vars, NEW d \in Clients
  PROVE  \/ toCli'[d] = toCli[d]
         \/ toCli'[d] = <<>> /\ (StartClient(d) \/ ClientCrash(d))
         \/ toCli[d] # <<>> /\ toCli'[d] = Tail(toCli[d])
         \/ /\ SendReady(d) \/ SendReadyFails(d)
            /\ cliPc[d] \notin Down
            /\ toCli'[d] = Append(toCli[d], "SERVER_READY")
         \/ /\ ServerLoop(d)
            /\ \E m \in Region(d) : toCli'[d] = Append(toCli[d], m)
  <1> USE DEF TypeOK
  <1>1. CASE StartServer \/ StartNtpdFails \/ ServerCrash \/ UNCHANGED vars
    BY <1>1 DEF StartServer, StartNtpdFails, ServerCrash, vars
  <1>2. CASE ServerStep
    <2>1. ASSUME NEW c \in Clients, SendReady(c), toCli'[d] # toCli[d]
          PROVE  /\ SendReady(d) /\ cliPc[d] \notin Down
                 /\ toCli'[d] = Append(toCli[d], "SERVER_READY")
      BY <2>1 DEF SendReady, Told
    <2> QED
      BY <1>2, <2>1 DEF ServerStep, StartNtpd, AllTold, ClientFailed, EnterLoop,
                        RecvReply, RecvReplyError
  <1>3. ASSUME NEW c \in Clients, SendReadyFails(c), toCli'[d] # toCli[d]
        PROVE  /\ SendReadyFails(d) /\ cliPc[d] \notin Down
               /\ toCli'[d] = Append(toCli[d], "SERVER_READY")
    BY <1>3 DEF SendReadyFails, Told
  <1>4. ASSUME NEW c \in Clients, ServerLoop(c), toCli'[d] # toCli[d]
        PROVE  /\ ServerLoop(d)
               /\ \E m \in Region(d) : toCli'[d] = Append(toCli[d], m)
    BY <1>4 DEF ServerLoop, Told
  <1>5. ASSUME NEW c \in Clients, Lose(c) \/ RecvReady(c) \/ ClientLoop(c)
        PROVE  \/ toCli'[d] = toCli[d]
               \/ toCli[d] # <<>> /\ toCli'[d] = Tail(toCli[d])
    BY <1>5 DEF Lose, RecvReady, ClientLoop
  <1>6. ASSUME NEW c \in Clients,
               Synchronize(c) \/ SendReply(c) \/ SendReplyFails(c)
        PROVE  toCli'[d] = toCli[d]
    BY <1>6 DEF Synchronize, SendReply, SendReplyFails
  <1>7. ASSUME NEW c \in Clients, StartClient(c) \/ ClientCrash(c),
               toCli'[d] # toCli[d]
        PROVE  toCli'[d] = <<>> /\ (StartClient(d) \/ ClientCrash(d))
    BY <1>7 DEF StartClient, ClientCrash
  <1> QED
    BY <1>1, <1>2, <1>3, <1>4, <1>5, <1>6, <1>7 DEF Next, ClientStep

LEMMA FirstStartStep ==
  ASSUME TypeOK, [Next]_vars, NEW d \in Clients, FirstStart(d)
  PROVE  FirstStart(d)'
  <1>1. HasReplied(d)' => HasReplied(d) \/ cliPc[d] = "success"
    BY RepliesOnce
  <1>2. HasReplied(d)' /\ ~HasReplied(d) => cliPc'[d] \in {"loop", "exit"}
    BY RepliesOnce
  <1>3. cliPc[d] = "success" => synced[d]
    BY DEF FirstStart
  <1> USE DEF TypeOK, FirstStart, Down
  <1>4. CASE /\ cliPc'[d] = cliPc[d] /\ synced'[d] = synced[d]
             /\ cliStarts'[d] = cliStarts[d]
    BY <1>1, <1>2, <1>4
  <1>5. CASE StartClient(d)
    BY <1>1, <1>5 DEF StartClient, CliGoto
  <1>6. CASE RecvReady(d) \/ Synchronize(d)
    BY <1>1, <1>6 DEF RecvReady, Synchronize, CliGoto
  <1>7. CASE SendReply(d) \/ SendReplyFails(d)
    <2>1. /\ cliPc'[d] \in {"loop", "exit"} /\ cliPc[d] \in {"success", "failed"}
          /\ cliStarts' = cliStarts /\ synced' = synced
      BY <1>7 DEF SendReply, SendReplyFails, CliGoto
    <2> QED
      BY <1>1, <1>3, <2>1
  <1>8. CASE ClientLoop(d)
    BY <1>1, <1>8 DEF ClientLoop, cliVars
  <1>9. CASE ClientCrash(d)
    BY <1>1, <1>3, <1>9 DEF ClientCrash, CliGoto
  <1> QED
    BY <1>4, <1>5, <1>6, <1>7, <1>8, <1>9, ClientMoves DEF ClientStep

(* While the first server synchronizes the clients, nobody is told twice.  *)
LEMMA FirstServerMoves ==
  ASSUME TypeOK, [Next]_vars, FirstServer', srvStarts = 0 => srvPc = "off"
  PROVE  /\ FirstServer
         /\ srvPc # "loop"
         /\ \A d \in Clients :
              /\ ~SendReadyFails(d)
              /\ IsTold(d) => IsTold(d)'
              /\ SendReady(d) => ~IsTold(d) /\ IsTold(d)'
  <1> USE DEF TypeOK, FirstServer, Down
  <1>1. CASE StartServer
    BY <1>1 DEF StartServer, IsTold, SendReadyFails, SendReady, NextClient, Serve
  <1>2. CASE ServerStep
    BY <1>2 DEF ServerStep, StartNtpd, AllTold, ClientFailed, EnterLoop,
         SendReady, RecvReply, RecvReplyError, NextClient, Serve, IsTold,
         SendReadyFails
  <1>3. CASE StartNtpdFails \/ ServerCrash
    BY <1>3 DEF StartNtpdFails, ServerCrash
  <1>4. CASE UNCHANGED srvVars
    BY <1>4 DEF srvVars, IsTold, SendReadyFails, SendReady, NextClient, Serve
  <1>5. ASSUME NEW c \in Clients PROVE ~SendReadyFails(c)
    BY DEF SendReadyFails
  <1> QED
    BY <1>1, <1>2, <1>3, <1>4, <1>5 DEF Next, ServerLoop, StartClient, ClientStep,
         RecvReady, Synchronize, SendReply, ClientLoop, SendReplyFails,
         ClientCrash, Lose, vars

LEMMA FirstSyncStep ==
  ASSUME TypeOK, [Next]_vars, FirstServer', srvStarts = 0 => srvPc = "off",
         NEW d \in Clients, FirstStart(d), FirstServer => FirstSync(d)
  PROVE  FirstSync(d)'
  <1>1. FirstSync(d) /\ srvPc # "loop" /\ ~SendReadyFails(d)
    BY FirstServerMoves
  <1>2. HasReplied(d)' => HasReplied(d) \/ cliPc[d] = "success"
    BY RepliesOnce
  <1>3. HasReplied(d)' /\ ~HasReplied(d) => cliPc'[d] \in {"loop", "exit"}
    BY RepliesOnce
  <1>4. \/ toCli'[d] \in {toCli[d], <<>>}
        \/ toCli[d] # <<>> /\ toCli'[d] = Tail(toCli[d])
        \/ /\ SendReady(d) /\ cliPc[d] \notin Down
           /\ toCli'[d] = Append(toCli[d], "SERVER_READY")
    BY <1>1, MessagesMove DEF ServerLoop
  <1>5. Untold(d) /\ ~SendReady(d) => Untold(d)'
    <2> SUFFICES ASSUME Untold(d), ~SendReady(d) PROVE Untold(d)'
      OBVIOUS
    <2>1. toCli'[d] = <<>> /\ ~HasReplied(d)'
      BY <1>2, <1>4 DEF Untold, Down
    <2>2. cliPc'[d] \in Down \cup {"wait"}
      BY ClientMoves DEF Untold, StartClient, ClientStep, RecvReady, Synchronize,
           SendReply, ClientLoop, SendReplyFails, ClientCrash, CliGoto, Down,
           TypeOK
    <2> QED
      BY <2>1, <2>2 DEF Untold
  <1>6. IsTold(d)' \/ Untold(d)'
    BY <1>1, <1>5, FirstServerMoves DEF FirstSync
  <1>7. toCli'[d] = <<>> \/ Notified(d)'
    <2>1. CASE SendReady(d)
      <3>1. toCli[d] = <<>> /\ ~HasReplied(d) /\ cliPc[d] \in Down \cup {"wait"}
        BY <1>1, <2>1, FirstServerMoves DEF FirstSync, Untold
      <3>2. cliPc' = cliPc /\ Append(<<>>, "SERVER_READY") = <<"SERVER_READY">>
        BY <2>1 DEF SendReady, cliVars
      <3> QED
        BY <1>2, <1>4, <3>1, <3>2 DEF Notified, Down
    <2>2. CASE ~SendReady(d) /\ toCli[d] = <<>>
      BY <1>4, <2>2
    <2>3. CASE ~SendReady(d) /\ toCli[d] # <<>> /\ toCli'[d] # toCli[d]
      <3>1. Tail(<<"SERVER_READY">>) = <<>>
        OBVIOUS
      <3> QED
        BY <1>1, <1>4, <2>3, <3>1 DEF FirstSync, Notified
    <2>4. CASE toCli[d] # <<>> /\ toCli'[d] = toCli[d]
      <3>1. Notified(d) /\ toCli[d] \in Seq(Message)
        BY <1>1, <2>4 DEF FirstSync, TypeOK
      <3>2. toCli[d] # Tail(toCli[d])
        <4>1. Tail(<<"SERVER_READY">>) = <<>>
          OBVIOUS
        <4> QED
          BY <2>4, <3>1, <4>1 DEF Notified
      <3>3. cliPc'[d] = "wait"
        BY <2>4, <3>1, <3>2, ClientMoves
        DEF Notified, StartClient, ClientStep, RecvReady, Synchronize, SendReply,
            ClientLoop, SendReplyFails, ClientCrash, Down, TypeOK
      <3> QED
        BY <1>2, <2>4, <3>1, <3>3 DEF Notified
    <2> QED
      BY <2>1, <2>2, <2>3, <2>4
  <1>8. ASSUME HasReplied(d)'
        PROVE  synced'[d] /\ cliPc'[d] \in Down \cup {"wait", "loop"}
    <2>1. CASE ~HasReplied(d)
      BY <1>8, <2>1, RepliesOnce DEF FirstStart, Down
    <2>2. CASE HasReplied(d)
      <3>1. /\ synced[d] /\ cliPc[d] \in Down \cup {"wait", "loop"}
            /\ toCli[d] = <<>>
        BY <1>1, <2>2 DEF FirstSync, Notified
      <3> QED
        BY <3>1, ClientMoves
        DEF StartClient, ClientStep, RecvReady, Synchronize, SendReply,
            ClientLoop, SendReplyFails, ClientCrash, CliGoto, Down, TypeOK
    <2> QED
      BY <2>1, <2>2
  <1> QED
    BY <1>6, <1>7, <1>8 DEF FirstSync

LEMMA FirstLoopStep ==
  ASSUME TypeOK, [Next]_vars, FirstInv PROVE FirstLoop'
  <1> SUFFICES ASSUME srvPc' = "loop"
               PROVE  /\ AllSucceeded'
                      /\ srvStarts' <= 1 =>
                           \A c \in Clients \ OneByte : NoReady(toCli'[c])
    BY DEF FirstLoop
  <1>1. CASE srvPc = "loop"
    <2>1. UNCHANGED srvVars
      BY <1>1 DEF Next, ServerStep, StartServer, StartNtpd, AllTold, ClientFailed,
           EnterLoop, SendReady, RecvReply, RecvReplyError, StartNtpdFails,
           ServerCrash, SendReadyFails, ServerLoop, StartClient, ClientStep,
           RecvReady, Synchronize, SendReply, ClientLoop, SendReplyFails,
           ClientCrash, Lose, Down, vars
    <2>2. ASSUME NEW d \in Clients \ OneByte, NoReady(toCli[d])
          PROVE  NoReady(toCli'[d])
      <3>1. toCli[d] \in Seq(Message) /\ Region(d) = {"DATA"}
        BY DEF TypeOK, Region
      <3>2. \/ toCli'[d] \in {toCli[d], <<>>}
            \/ toCli[d] # <<>> /\ toCli'[d] = Tail(toCli[d])
            \/ toCli'[d] = Append(toCli[d], "DATA")
        BY <1>1, <3>1, MessagesMove DEF SendReady, SendReadyFails
      <3>3. /\ toCli[d] # <<>> => NoReady(Tail(toCli[d]))
            /\ NoReady(<<>>)
        BY <2>2, <3>1 DEF NoReady
      <3>4. NoReady(Append(toCli[d], "DATA"))
        <4>1. \A k \in 1 .. Len(Append(toCli[d], "DATA")) :
                \/ k \in 1 .. Len(toCli[d]) /\ Append(toCli[d], "DATA")[k] = toCli[d][k]
                \/ Append(toCli[d], "DATA")[k] = "DATA"
          BY <3>1
        <4> QED
          BY <2>2, <4>1 DEF NoReady
      <3> QED
        BY <2>2, <3>2, <3>3, <3>4
    <2> QED
      BY <1>1, <2>1, <2>2 DEF FirstInv, FirstLoop, AllSucceeded, srvVars
  <1>2. CASE srvPc # "loop"
    <2>1. EnterLoop
      BY <1>2 DEF Next, ServerStep, StartServer, StartNtpd, AllTold, ClientFailed,
           SendReady, RecvReply, RecvReplyError, StartNtpdFails, ServerCrash,
           SendReadyFails, ServerLoop, StartClient, ClientStep, RecvReady,
           Synchronize, SendReply, ClientLoop, SendReplyFails, ClientCrash, Lose,
           vars, srvVars
    <2>2. ASSUME srvStarts' <= 1 PROVE \A c \in Clients : NoReady(toCli'[c])
      <3>1. FirstServer
        BY <2>1, <2>2 DEF EnterLoop, FirstInv, FirstServer, TypeOK
      <3>2. \A c \in Clients : HasReplied(c)
        BY <2>1 DEF EnterLoop, AllSucceeded, HasReplied
      <3>3. \A c \in Clients : toCli[c] = <<>>
        BY <3>1, <3>2 DEF FirstInv, FirstSync, Notified
      <3> QED
        BY <2>1, <3>3 DEF EnterLoop, NoReady
    <2> QED
      BY <2>1, <2>2 DEF EnterLoop, AllSucceeded
  <1> QED
    BY <1>1, <1>2

LEMMA FirstInductive == Spec => [](TypeOK /\ FirstInv)
  <1>1. Init => TypeOK /\ FirstInv
    <2> SUFFICES ASSUME Init PROVE TypeOK /\ FirstInv
      OBVIOUS
    <2>1. \A c \in Clients : ~HasReplied(c) /\ cliPc[c] = "off" /\ toCli[c] = <<>>
      BY EmptyQueue DEF Init, HasReplied, EachClient
    <2>2. \A c \in Clients : Untold(c) /\ FirstStart(c)
      BY <2>1 DEF Untold, FirstStart, Down, Init, EachClient
    <2> QED
      BY <2>1, <2>2, TypeInit DEF FirstInv, FirstSync, FirstLoop, Init
  <1>2. TypeOK /\ FirstInv /\ [Next]_vars => (TypeOK /\ FirstInv)'
    <2> SUFFICES ASSUME TypeOK, FirstInv, [Next]_vars PROVE FirstInv'
      BY TypeStep
    <2>1. ASSUME srvStarts' = 0 PROVE srvPc' = "off"
      <3>1. ~StartServer
        BY <2>1 DEF StartServer, TypeOK
      <3>2. srvStarts = 0
        BY <2>1, <3>1 DEF Next, ServerStep, StartNtpd, AllTold, ClientFailed,
             EnterLoop, SendReady, RecvReply, RecvReplyError, StartNtpdFails,
             ServerCrash, SendReadyFails, ServerLoop, StartClient, ClientStep,
             RecvReady, Synchronize, SendReply, ClientLoop, SendReplyFails,
             ClientCrash, Lose, vars, srvVars
      <3>3. srvPc = "off"
        BY <3>2 DEF FirstInv
      <3>4. srvPc' = srvPc
        BY <3>1, <3>3 DEF Next, ServerStep, StartNtpd, AllTold, ClientFailed,
             EnterLoop, SendReady, RecvReply, RecvReplyError, StartNtpdFails,
             ServerCrash, SendReadyFails, ServerLoop, StartClient, ClientStep,
             RecvReady, Synchronize, SendReply, ClientLoop, SendReplyFails,
             ClientCrash, Lose, Down, vars, srvVars
      <3> QED
        BY <3>3, <3>4
    <2> QED
      BY <2>1, FirstStartStep, FirstSyncStep, FirstLoopStep DEF FirstInv
  <1> QED
    BY <1>1, <1>2, PTL DEF Spec

(* Whatever is lost, fails or crashes, the Control Node enters its loop    *)
(* with every Device Node synchronized, unless both were started before.   *)
THEOREM LoopIsSynchronized == Spec => EntersLoopSynchronized
  <1> DEFINE Enters ==
        (srvPc # "loop" /\ srvPc' = "loop") =>
          \A c \in Clients : synced[c] \/ (srvStarts > 1 /\ cliStarts[c] > 1)
  <1>1. TypeOK /\ FirstInv /\ [Next]_vars => Enters
    <2> SUFFICES ASSUME TypeOK, FirstInv, [Next]_vars, srvPc # "loop",
                        srvPc' = "loop", NEW c \in Clients
                 PROVE  synced[c] \/ (srvStarts > 1 /\ cliStarts[c] > 1)
      OBVIOUS
    <2>1. EnterLoop
      BY DEF Next, ServerStep, StartServer, StartNtpd, AllTold, ClientFailed,
           SendReady, RecvReply, RecvReplyError, StartNtpdFails, ServerCrash,
           SendReadyFails, ServerLoop, StartClient, ClientStep, RecvReady,
           Synchronize, SendReply, ClientLoop, SendReplyFails, ClientCrash, Lose,
           vars, srvVars
    <2>2. HasReplied(c) /\ FirstStart(c)
      BY <2>1 DEF EnterLoop, AllSucceeded, HasReplied, FirstInv
    <2>3. cliStarts[c] > 1 \/ synced[c]
      BY <2>2 DEF FirstStart, TypeOK
    <2>4. srvStarts > 1 \/ FirstServer
      BY <2>1 DEF EnterLoop, FirstServer, TypeOK
    <2> QED
      BY <2>2, <2>3, <2>4 DEF FirstInv, FirstSync
  <1> QED
    BY <1>1, FirstInductive, PTL DEF Spec, EntersLoopSynchronized

(* A Device Node whose region is not one byte long does not synchronize    *)
(* with a Control Node that is in its loop, unless both were started       *)
(* before: the message that it waited for told it that the server was      *)
(* ready.                                                                  *)
THEOREM NoLateSync == Spec => SyncsOnlyWhenServerIsReady
  <1> DEFINE Ready ==
        \A c \in Clients \ OneByte :
          (cliPc[c] = "wait" /\ cliPc'[c] = "sync")
            => srvPc # "loop" \/ (srvStarts > 1 /\ cliStarts[c] > 1)
  <1>1. TypeOK /\ FirstInv /\ [Next]_vars => Ready
    <2> SUFFICES ASSUME TypeOK, FirstInv, [Next]_vars,
                        NEW c \in Clients \ OneByte,
                        cliPc[c] = "wait", cliPc'[c] = "sync", srvPc = "loop"
                 PROVE  srvStarts > 1 /\ cliStarts[c] > 1
      OBVIOUS
    <2>1. RecvReady(c) /\ Head(toCli[c]) = "SERVER_READY"
      <3>1. RecvReady(c)
        BY ClientMoves DEF StartClient, ClientStep, Synchronize, SendReply,
             ClientLoop, SendReplyFails, ClientCrash, CliGoto, Down, TypeOK
      <3> QED
        BY <3>1 DEF RecvReady, CliGoto, TypeOK
    <2>2. ~NoReady(toCli[c])
      <3>1. toCli[c] \in Seq(Message) /\ toCli[c] # <<>>
        BY <2>1 DEF RecvReady, TypeOK
      <3> QED
        BY <2>1, <3>1 DEF NoReady
    <2>3. HasReplied(c) /\ srvStarts > 1
      BY <2>2 DEF FirstInv, FirstLoop, AllSucceeded, HasReplied, TypeOK
    <2>4. cliStarts[c] > 1
      <3>1. FirstStart(c) /\ cliStarts[c] \in Nat
        BY ClockSyncBoundAssumption DEF FirstInv, TypeOK
      <3>2. cliStarts[c] # 0 /\ cliStarts[c] # 1
        BY <2>3, <3>1 DEF FirstStart, Down
      <3> QED
        BY <3>1, <3>2
    <2> QED
      BY <2>3, <2>4
  <1> QED
    BY <1>1, FirstInductive, PTL DEF Spec, SyncsOnlyWhenServerIsReady

-----------------------------------------------------------------------------
(* The start from a configuration is a start: what is proved above holds   *)
(* of it too. *)

LEMMA StartupSteps == [StartupNext]_startupVars => [Next]_vars
  BY DEF StartupNext, startupVars, StartServerUp, StartClientUp, OtherStep, Next

(* The nodes with their configurations checked take only the steps of the  *)
(* clock synchronization; the configuration never changes.                 *)
THEOREM StartupImplementsClockSync ==
  StartupSpec => Spec /\ [][UNCHANGED setup]_startupVars
  <1>1. StartupInit => Init
    BY DEF StartupInit
  <1>2. [StartupNext]_startupVars => UNCHANGED setup
    BY DEF StartupNext, startupVars
  <1> QED
    BY <1>1, <1>2, StartupSteps, PTL DEF StartupSpec, Spec

(* A node is up only with a configuration that its entry accepted.         *)
UpIsAccepted == \A n \in Up : setup \in Accepted[n]

LEMMA UpIsAcceptedStep ==
  ASSUME TypeOK, UpIsAccepted, [StartupNext]_startupVars
  PROVE  UpIsAccepted'
  <1>1. setup' = setup /\ \A n : Accepted[n]' = Accepted[n]
    BY DEF StartupNext, startupVars, Accepted
  <1>2. ASSUME NEW d \in Clients, cliPc'[d] \notin Down
        PROVE  cliPc[d] \notin Down \/ setup \in Accepted[d]
    <2> SUFFICES ASSUME cliPc[d] \in Down, setup \notin Accepted[d] PROVE FALSE
      OBVIOUS
    <2>1. CASE UNCHANGED vars
      BY <1>2, <2>1 DEF vars, cliVars
    <2>2. CASE StartServer
      BY <1>2, <2>2 DEF StartServer, cliVars
    <2>3. ASSUME NEW c \in Clients, c # d, StartClient(c) PROVE FALSE
      BY <1>2, <2>3 DEF StartClient, CliGoto, TypeOK
    <2>4. CASE OtherStep
      <3>1. CASE ServerStep \/ StartNtpdFails \/ ServerCrash
        BY <1>2, <3>1 DEF ServerStep, StartNtpd, AllTold, ClientFailed,
             EnterLoop, SendReady, RecvReply, RecvReplyError, StartNtpdFails,
             ServerCrash, cliVars
      <3>2. ASSUME NEW c \in Clients,
                   SendReadyFails(c) \/ ServerLoop(c) \/ Lose(c)
            PROVE  FALSE
        BY <1>2, <3>2 DEF SendReadyFails, ServerLoop, Lose, cliVars
      <3>3. ASSUME NEW c \in Clients,
                   ClientStep(c) \/ SendReplyFails(c) \/ ClientCrash(c)
            PROVE  FALSE
        BY <1>2, <3>3 DEF ClientStep, RecvReady, Synchronize, SendReply,
             ClientLoop, SendReplyFails, ClientCrash, CliGoto, cliVars, Down,
             TypeOK
      <3> QED
        BY <2>4, <3>1, <3>2, <3>3 DEF OtherStep
    <2> QED
      BY <2>1, <2>2, <2>3, <2>4
      DEF StartupNext, StartServerUp, StartClientUp, startupVars
  <1>3. ASSUME srvPc' \notin Down
        PROVE  srvPc \notin Down \/ setup \in Accepted[NODE_CONTROL]
    <2> SUFFICES ASSUME srvPc \in Down, ~StartServerUp PROVE FALSE
      BY DEF StartServerUp
    <2>1. srvPc' = srvPc
      BY DEF StartupNext, startupVars, OtherStep, ServerStep, StartNtpd, AllTold,
           ClientFailed, EnterLoop, SendReady, RecvReply, RecvReplyError,
           StartNtpdFails, ServerCrash, SendReadyFails, ServerLoop,
           StartClientUp, StartClient, ClientStep, RecvReady, Synchronize,
           SendReply, ClientLoop, SendReplyFails, ClientCrash, Lose, Down, vars,
           srvVars
    <2> QED
      BY <1>3, <2>1
  <1> QED
    BY <1>1, <1>2, <1>3 DEF UpIsAccepted, Up

LEMMA UpIsAcceptedAlways == StartupSpec => []UpIsAccepted
  <1>1. StartupInit => UpIsAccepted
    BY DEF StartupInit, Init, UpIsAccepted, Up, EachClient, Down
  <1>2. StartupSpec => []TypeOK
    BY StartupImplementsClockSync, TypeCorrect, PTL
  <1> QED
    BY <1>1, <1>2, UpIsAcceptedStep, PTL DEF StartupSpec

(* On a little endian CPU, the port that send and the constructor convert  *)
(* twice is the port, while that of the noop message, converted once, is   *)
(* the port of no channel. *)
LEMMA PortsOnTheWire ==
  ASSUME NEW port \in MIN_PORT .. MAX_PORT
  PROVE  DataPort(port) = port /\ NoopPort = 38920
  <1>1. port % 256 = port - 2048 /\ port \div 256 = 8
    BY DEF MIN_PORT, MAX_PORT
  <1>2. Swapped(port) = (port - 2048) * 256 + 8
    BY <1>1 DEF Swapped
  <1>3. ASSUME NEW k \in Nat
        PROVE  (k * 256 + 8) % 256 = 8 /\ (k * 256 + 8) \div 256 = k
    OBVIOUS
  <1>4. port - 2048 \in Nat
    BY DEF MIN_PORT, MAX_PORT
  <1>5. Swapped((port - 2048) * 256 + 8) = port
    BY <1>3, <1>4 DEF Swapped
  <1>6. NoopPort = 38920
    BY DEF NoopPort, Swapped, NOOP_PORT
  <1> QED
    BY <1>2, <1>5, <1>6 DEF DataPort

(* What a socket says of its channel. *)
LEMMA SocketChannel ==
  ASSUME NEW nm, NEW n, NEW s \in Sockets(nm, n), NmCreated(nm, n)
  PROVE  /\ n \in DOMAIN nm.nodeToIp
         /\ \E k \in DOMAIN nm.channels :
              /\ n \in Pair(nm.channels[k])
              /\ nm.channels[k].port \in MIN_PORT .. MAX_PORT
              /\ Peer(nm.channels[k], n) \in DOMAIN nm.nodeToIp
              /\ s = [peer |-> Peer(nm.channels[k], n),
                      ip |-> Address(nm.nodeToIp[n]),
                      port |-> nm.channels[k].port,
                      toIp |-> Address(nm.nodeToIp[Peer(nm.channels[k], n)]),
                      toPort |-> nm.channels[k].port]
  <1>1. PICK k \in DOMAIN nm.channels :
               /\ n \in Pair(nm.channels[k])
               /\ s = [peer |-> Peer(nm.channels[k], n),
                       ip |-> Address(nm.nodeToIp[n]),
                       port |-> DataPort(nm.channels[k].port),
                       toIp |-> Address(nm.nodeToIp[Peer(nm.channels[k], n)]),
                       toPort |-> DataPort(nm.channels[k].port)]
    BY DEF Sockets
  <1>2. /\ Pair(nm.channels[k]) \subseteq DOMAIN nm.nodeToIp
        /\ nm.channels[k].port \in MIN_PORT .. MAX_PORT
        /\ n \in DOMAIN nm.nodeToIp
    BY DEF NmCreated, NmVerified
  <1>3. Peer(nm.channels[k], n) \in Pair(nm.channels[k])
    BY DEF Peer, Pair
  <1> QED
    BY <1>1, <1>2, <1>3, PortsOnTheWire

(* The two ends of a channel have a socket for each other.                 *)
LEMMA OtherEnd ==
  ASSUME NEW nm, NEW n, NEW k \in DOMAIN nm.channels, n \in Pair(nm.channels[k]),
         nm.channels[k].port \in MIN_PORT .. MAX_PORT
  PROVE  LET m == Peer(nm.channels[k], n)
         IN  [peer |-> n, ip |-> Address(nm.nodeToIp[m]),
              port |-> nm.channels[k].port,
              toIp |-> Address(nm.nodeToIp[n]),
              toPort |-> nm.channels[k].port] \in Sockets(nm, m)
  <1> DEFINE m == Peer(nm.channels[k], n)
  <1>1. Peer(nm.channels[k], m) = n /\ m \in Pair(nm.channels[k])
    BY DEF Peer, Pair
  <1>2. DataPort(nm.channels[k].port) = nm.channels[k].port
    BY PortsOnTheWire
  <1>3. nm.channels[k] \in {nm.channels[j] : j \in {i \in DOMAIN nm.channels :
                                                    m \in Pair(nm.channels[i])}}
    BY <1>1
  <1> QED
    BY <1>1, <1>2, <1>3 DEF Sockets

(* Whatever a node sends on a channel arrives at the socket that the node  *)
(* at its other end has for it, and in no other socket of a node that is   *)
(* up, while the noop message arrives in none: for every configuration     *)
(* that verifyConfig accepts, if no address is spelled in two ways.        *)
THEOREM OneSender == StartupSpec => []SocketsHaveOneSender
  <1>1. UpIsAccepted => SocketsHaveOneSender
    <2> SUFFICES ASSUME UpIsAccepted, SpelledOnce, NEW n \in Up, NEW m \in Up,
                        NEW s \in Sockets(setup, n)
                 PROVE  /\ s.peer = m =>
                             \E t \in Sockets(setup, m) :
                               /\ t.peer = n
                               /\ [ip |-> t.ip, port |-> t.port] \in Datagrams(s)
                        /\ \A t \in Sockets(setup, m) :
                             [ip |-> t.ip, port |-> t.port] \in Datagrams(s)
                               => /\ s.peer = m /\ t.peer = n
                                  /\ t.port # NoopPort
      BY DEF SocketsHaveOneSender
    <2>1. NmCreated(setup, n) /\ NmCreated(setup, m)
      <3>1. Up \subseteq Node
        BY DEF Up, Node
      <3> QED
        BY <3>1 DEF UpIsAccepted, Accepted
    <2>2. PICK k \in DOMAIN setup.channels :
            /\ n \in Pair(setup.channels[k])
            /\ setup.channels[k].port \in MIN_PORT .. MAX_PORT
            /\ Peer(setup.channels[k], n) \in DOMAIN setup.nodeToIp
            /\ s = [peer |-> Peer(setup.channels[k], n),
                    ip |-> Address(setup.nodeToIp[n]),
                    port |-> setup.channels[k].port,
                    toIp |-> Address(setup.nodeToIp[Peer(setup.channels[k], n)]),
                    toPort |-> setup.channels[k].port]
      BY <2>1, SocketChannel
    <2> DEFINE other == [peer |-> n, ip |-> Address(setup.nodeToIp[s.peer]),
                         port |-> setup.channels[k].port,
                         toIp |-> Address(setup.nodeToIp[n]),
                         toPort |-> setup.channels[k].port]
    <2>3. other \in Sockets(setup, s.peer)
      BY <2>2, OtherEnd
    <2>4. Datagrams(s) = {[ip |-> Address(setup.nodeToIp[s.peer]),
                           port |-> setup.channels[k].port],
                          [ip |-> Address(setup.nodeToIp[s.peer]),
                           port |-> 38920]}
      BY <2>2, PortsOnTheWire DEF Datagrams
    <2>5. ASSUME s.peer = m
          PROVE  \E t \in Sockets(setup, m) :
                   /\ t.peer = n
                   /\ [ip |-> t.ip, port |-> t.port] \in Datagrams(s)
      BY <2>3, <2>4, <2>5
    <2>6. ASSUME NEW t \in Sockets(setup, m),
                 [ip |-> t.ip, port |-> t.port] \in Datagrams(s)
          PROVE  s.peer = m /\ t.peer = n /\ t.port # NoopPort
      <3>1. /\ m \in DOMAIN setup.nodeToIp
            /\ t.ip = Address(setup.nodeToIp[m])
            /\ t.port \in MIN_PORT .. MAX_PORT
        BY <2>1, SocketChannel
      <3>2. t.port # 38920 /\ NoopPort = 38920
        BY <2>2, <3>1, PortsOnTheWire DEF MIN_PORT, MAX_PORT
      <3>3. /\ t.ip = Address(setup.nodeToIp[s.peer])
            /\ t.port = setup.channels[k].port
        BY <2>4, <2>6, <3>2
      <3>4. s.peer = m
        BY <2>2, <3>1, <3>3 DEF SpelledOnce
      <3>5. t = other
        BY <2>1, <2>3, <3>3, <3>4 DEF NmCreated, Bound
      <3> QED
        BY <3>2, <3>4, <3>5
    <2> QED
      BY <2>5, <2>6
  <1> QED
    BY <1>1, UpIsAcceptedAlways, PTL

-----------------------------------------------------------------------------
(* The layout of a Data Vector.  Sizes are added up by counting bytes: what *)
(* the bytes of two sets of elements have to do with each other, their      *)
(* sizes have.                                                              *)
PlaceSize(config, p) == SizeBytes[ElemAt(config, p).type]

(* What createNew has checked of the elements. *)
Sized(config) ==
  /\ IsConfiguration(config)
  /\ \A p \in Positions(config) : ElemAt(config, p).type \in DOMAIN SizeBytes

LEMMA Lengths ==
  ASSUME NEW config, IsConfiguration(config)
  PROVE  /\ Len(config) \in Nat /\ DOMAIN config = 1 .. Len(config)
         /\ config # <<>> => Len(config) > 0
         /\ \A r \in DOMAIN config :
              /\ Len(config[r].elems) \in Nat
              /\ DOMAIN config[r].elems = 1 .. Len(config[r].elems)
              /\ config[r].elems # <<>> => Len(config[r].elems) > 0
  <1>1. ASSUME NEW S, NEW s \in Seq(S)
        PROVE  Len(s) \in Nat /\ DOMAIN s = 1 .. Len(s) /\ (s # <<>> => Len(s) > 0)
    <2>1. Len(s) = 0 <=> s = <<>>
      BY EmptySeq
    <2> QED
      BY <2>1
  <1> QED
    BY <1>1 DEF IsConfiguration

LEMMA PositionIs ==
  ASSUME NEW config
  PROVE  /\ \A p \in Positions(config) :
              /\ p = <<p[1], p[2]>>
              /\ p[1] \in DOMAIN config /\ p[2] \in DOMAIN config[p[1]].elems
         /\ \A r \in DOMAIN config : \A i \in DOMAIN config[r].elems :
              <<r, i>> \in Positions(config)
  BY DEF Positions

LEMMA PositionNumbers ==
  ASSUME NEW config, IsConfiguration(config), NEW p \in Positions(config)
  PROVE  p = <<p[1], p[2]>> /\ p[1] \in Nat /\ p[2] \in Nat
  BY PositionIs, Lengths

LEMMA PlaceSizeType ==
  ASSUME NEW config, Sized(config), NEW p \in Positions(config)
  PROVE  PlaceSize(config, p) \in 1 .. 8
  <1>1. ElemAt(config, p).type \in DOMAIN SizeBytes
    BY DEF Sized
  <1>2. \A type \in DOMAIN SizeBytes : SizeBytes[type] \in 1 .. 8
    BY DEF SizeBytes
  <1> QED
    BY <1>1, <1>2 DEF PlaceSize

LEMMA PositionsFinite ==
  ASSUME NEW config, IsConfiguration(config)
  PROVE  IsFiniteSet(Positions(config))
  <1> DEFINE Rows == {{r} \X DOMAIN config[r].elems : r \in DOMAIN config}
             f == [r \in DOMAIN config |-> {r} \X DOMAIN config[r].elems]
  <1>1. IsFiniteSet(DOMAIN config)
    BY FS_Interval, Lengths
  <1>2. f \in Surjection(DOMAIN config, Rows)
    BY DEF Surjection
  <1>3. IsFiniteSet(Rows)
    <2> HIDE DEF Rows, f
    <2> QED  BY <1>1, <1>2, FS_Surjection
  <1>4. \A R \in Rows : IsFiniteSet(R)
    <2>1. ASSUME NEW r \in DOMAIN config
          PROVE  IsFiniteSet({r} \X DOMAIN config[r].elems)
      <3>1. IsFiniteSet(DOMAIN config[r].elems)
        <4>1. Len(config[r].elems) \in Nat
              /\ DOMAIN config[r].elems = 1 .. Len(config[r].elems)
          BY Lengths
        <4>2. IsFiniteSet(1 .. Len(config[r].elems))
          BY <4>1, FS_Interval
        <4> QED
          BY <4>1, <4>2, Zenon
      <3>2. IsFiniteSet({r})
        BY FS_Singleton
      <3> QED
        BY <3>1, <3>2, FS_Product
    <2> QED
      BY <2>1
  <1>5. Positions(config) = UNION Rows
    BY DEF Positions
  <1> HIDE DEF Rows
  <1> QED
    BY <1>3, <1>4, <1>5, FS_UNION

LEMMA BytesFinite ==
  ASSUME NEW config, Sized(config), NEW P \in SUBSET Positions(config)
  PROVE  IsFiniteSet(BytesOf(config, P))
  <1>1. IsFiniteSet(P)
    BY PositionsFinite, FS_Subset DEF Sized
  <1>2. IsFiniteSet(P \X (1 .. 8))
    <2>1. \A n \in Nat : IsFiniteSet(1 .. n)
      BY FS_Interval
    <2> QED
      BY <1>1, <2>1, FS_Product, 8 \in Nat
  <1>3. BytesOf(config, P) \in SUBSET (P \X (1 .. 8))
    <2>1. ASSUME NEW x \in BytesOf(config, P) PROVE x \in P \X (1 .. 8)
      <3>1. PICK p \in P : x \in {p} \X (1 .. PlaceSize(config, p))
        BY <2>1 DEF BytesOf, PlaceSize
      <3>2. PlaceSize(config, p) \in 1 .. 8
        BY PlaceSizeType
      <3>3. 1 .. PlaceSize(config, p) \subseteq 1 .. 8
        BY <3>2
      <3> QED
        BY <3>1, <3>3
    <2> QED
      BY <2>1
  <1> QED
    BY <1>2, <1>3, FS_Subset

LEMMA SizeOfType ==
  ASSUME NEW config, Sized(config), NEW P \in SUBSET Positions(config)
  PROVE  SizeOf(config, P) \in Nat
  BY BytesFinite, FS_CardinalityType DEF SizeOf

LEMMA SizeOfNothing ==
  ASSUME NEW config
  PROVE  SizeOf(config, {}) = 0
  <1>1. BytesOf(config, {}) = {}
    BY DEF BytesOf
  <1> QED
    BY <1>1, FS_EmptySet DEF SizeOf

LEMMA SizeOfOne ==
  ASSUME NEW config, Sized(config), NEW p \in Positions(config)
  PROVE  SizeOf(config, {p}) = PlaceSize(config, p)
  <1>1. PlaceSize(config, p) \in 1 .. 8
    BY PlaceSizeType
  <1>2. BytesOf(config, {p}) = {p} \X (1 .. PlaceSize(config, p))
    BY DEF BytesOf, PlaceSize
  <1>3. /\ IsFiniteSet(1 .. PlaceSize(config, p))
        /\ Cardinality(1 .. PlaceSize(config, p)) = PlaceSize(config, p)
    BY <1>1, FS_Interval
  <1>4. IsFiniteSet({p}) /\ Cardinality({p}) = 1
    BY FS_Singleton
  <1>5. Cardinality({p} \X (1 .. PlaceSize(config, p))) = 1 * PlaceSize(config, p)
    BY <1>3, <1>4, FS_Product
  <1>6. SizeOf(config, {p}) = Cardinality({p} \X (1 .. PlaceSize(config, p)))
    BY <1>2, Zenon DEF SizeOf
  <1>7. 1 * PlaceSize(config, p) = PlaceSize(config, p)
    BY <1>1
  <1> QED
    BY <1>5, <1>6, <1>7, Zenon

LEMMA SizeOfBoth ==
  ASSUME NEW config, Sized(config),
         NEW P \in SUBSET Positions(config), NEW Q \in SUBSET Positions(config),
         P \cap Q = {}
  PROVE  SizeOf(config, P \cup Q) = SizeOf(config, P) + SizeOf(config, Q)
  <1>1. BytesOf(config, P \cup Q) = BytesOf(config, P) \cup BytesOf(config, Q)
    BY DEF BytesOf
  <1>2. BytesOf(config, P) \cap BytesOf(config, Q) = {}
    BY DEF BytesOf
  <1>3. IsFiniteSet(BytesOf(config, P)) /\ IsFiniteSet(BytesOf(config, Q))
    BY BytesFinite
  <1>4. Cardinality(BytesOf(config, P) \cup BytesOf(config, Q))
          = Cardinality(BytesOf(config, P)) + Cardinality(BytesOf(config, Q))
              - Cardinality(BytesOf(config, P) \cap BytesOf(config, Q))
    BY <1>3, FS_Union
  <1>5. Cardinality(BytesOf(config, P) \cap BytesOf(config, Q)) = 0
    BY <1>2, FS_EmptySet
  <1>6. /\ Cardinality(BytesOf(config, P)) \in Nat
        /\ Cardinality(BytesOf(config, Q)) \in Nat
    BY <1>3, FS_CardinalityType
  <1>7. SizeOf(config, P \cup Q)
          = Cardinality(BytesOf(config, P) \cup BytesOf(config, Q))
    BY <1>1, Zenon DEF SizeOf
  <1> QED
    BY <1>4, <1>5, <1>6, <1>7 DEF SizeOf

LEMMA SizeOfMore ==
  ASSUME NEW config, Sized(config),
         NEW P \in SUBSET Positions(config), NEW Q \in SUBSET P
  PROVE  SizeOf(config, Q) <= SizeOf(config, P)
  <1>1. BytesOf(config, Q) \in SUBSET BytesOf(config, P)
    BY DEF BytesOf
  <1> QED
    BY <1>1, BytesFinite, FS_Subset DEF SizeOf

-----------------------------------------------------------------------------
Ahead(config, p) == {q \in Positions(config) : Before(q, p)}

EndIdx(config, p) == StartIdx(config, p) + PlaceSize(config, p)

LEMMA Ordered ==
  ASSUME NEW config, IsConfiguration(config),
         NEW p \in Positions(config), NEW q \in Positions(config), p # q
  PROVE  Before(p, q) \/ Before(q, p)
  BY PositionNumbers DEF Before

LEMMA EndIs ==
  ASSUME NEW config, Sized(config), NEW p \in Positions(config)
  PROVE  /\ StartIdx(config, p) = SizeOf(config, Ahead(config, p))
         /\ StartIdx(config, p) \in Nat /\ EndIdx(config, p) \in Nat
         /\ StartIdx(config, p) < EndIdx(config, p)
         /\ EndIdx(config, p) = SizeOf(config, Ahead(config, p) \cup {p})
  <1>1. p \notin Ahead(config, p)
    BY PositionNumbers DEF Sized, Ahead, Before
  <1>2. StartIdx(config, p) = SizeOf(config, Ahead(config, p))
    BY Zenon DEF StartIdx, Ahead
  <1>3. StartIdx(config, p) \in Nat
    BY <1>2, SizeOfType DEF Ahead
  <1>4. PlaceSize(config, p) \in 1 .. 8
    BY PlaceSizeType
  <1>5. SizeOf(config, Ahead(config, p) \cup {p})
          = SizeOf(config, Ahead(config, p)) + SizeOf(config, {p})
    BY <1>1, SizeOfBoth DEF Ahead
  <1>6. SizeOf(config, {p}) = PlaceSize(config, p)
    BY SizeOfOne
  <1> QED
    BY <1>2, <1>3, <1>4, <1>5, <1>6 DEF EndIdx

(* An element ends before the next one starts. *)
LEMMA NoOverlap ==
  ASSUME NEW config, Sized(config),
         NEW p \in Positions(config), NEW q \in Positions(config), Before(p, q)
  PROVE  EndIdx(config, p) <= StartIdx(config, q)
  <1>1. Ahead(config, p) \cup {p} \in SUBSET Ahead(config, q)
    BY PositionNumbers DEF Sized, Ahead, Before
  <1>2. Ahead(config, q) \in SUBSET Positions(config)
    BY DEF Ahead
  <1>3. SizeOf(config, Ahead(config, p) \cup {p}) <= SizeOf(config, Ahead(config, q))
    BY <1>1, <1>2, SizeOfMore
  <1> QED
    BY <1>3, EndIs

(* The first element has none before it, and every other follows one. *)
LEMMA Follows ==
  ASSUME NEW config, Sized(config),
         \A r \in DOMAIN config : config[r].elems # <<>>,
         NEW p \in Positions(config)
  PROVE  \/ Ahead(config, p) = {}
         \/ \E q \in Positions(config) :
              Ahead(config, p) = Ahead(config, q) \cup {q}
  <1>0. IsConfiguration(config) /\ p = <<p[1], p[2]>>
        /\ p[1] \in 1 .. Len(config) /\ p[2] \in 1 .. Len(config[p[1]].elems)
    BY PositionIs, Lengths DEF Sized
  <1>1. \A x \in Positions(config) :
          /\ x = <<x[1], x[2]>> /\ x[1] \in Nat \ {0} /\ x[2] \in Nat \ {0}
          /\ x[1] \in DOMAIN config /\ x[2] <= Len(config[x[1]].elems)
    <2> TAKE x \in Positions(config)
    <2>1. x = <<x[1], x[2]>> /\ x[1] \in DOMAIN config
          /\ x[2] \in DOMAIN config[x[1]].elems
      BY PositionIs
    <2>2. /\ x[1] \in 1 .. Len(config) /\ Len(config) \in Nat
          /\ x[2] \in 1 .. Len(config[x[1]].elems)
          /\ Len(config[x[1]].elems) \in Nat
      BY <1>0, <2>1, Lengths
    <2> QED
      BY <2>1, <2>2
  <1>2. CASE p[2] > 1
    <2> DEFINE q == <<p[1], p[2] - 1>>
    <2>1. q \in Positions(config)
      <3>1. p[1] \in DOMAIN config /\ p[2] - 1 \in DOMAIN config[p[1]].elems
        BY <1>0, <1>2, Lengths
      <3> QED
        BY <3>1, PositionIs
    <2>2. \A x \in Positions(config) : Before(x, p) <=> Before(x, q) \/ x = q
      BY <1>1, <1>2 DEF Before
    <2> HIDE DEF q
    <2>3. Ahead(config, p) = Ahead(config, q) \cup {q}
      BY <2>1, <2>2 DEF Ahead
    <2> QED
      BY <2>1, <2>3
  <1>3. CASE p[2] = 1 /\ p[1] > 1
    <2> DEFINE n == Len(config[p[1] - 1].elems)
               q == <<p[1] - 1, n>>
    <2>0. p[1] - 1 \in DOMAIN config /\ n \in Nat /\ n > 0
          /\ n \in DOMAIN config[p[1] - 1].elems
      <3>1. p[1] - 1 \in DOMAIN config
        BY <1>0, <1>3, Lengths
      <3>2. n \in Nat /\ n > 0 /\ DOMAIN config[p[1] - 1].elems = 1 .. n
        BY <1>0, <3>1, Lengths
      <3> HIDE DEF n
      <3> QED
        BY <3>1, <3>2
    <2>1. q \in Positions(config)
      <3> HIDE DEF n
      <3> QED  BY <2>0, PositionIs
    <2>2. ASSUME NEW x \in Positions(config)
          PROVE  Before(x, p) <=> Before(x, q) \/ x = q
      <3>1. x[1] = p[1] - 1 => x[2] <= n
        BY <1>1
      <3>2. x = <<x[1], x[2]>> /\ x[1] \in Nat /\ x[2] \in Nat \ {0}
            /\ p[1] \in Nat /\ p[2] = 1
        BY <1>1, <1>3
      <3> HIDE DEF n
      <3> QED
        BY <2>0, <3>1, <3>2, <1>3 DEF Before
    <2> HIDE DEF n, q
    <2>3. Ahead(config, p) = Ahead(config, q) \cup {q}
      BY <2>1, <2>2 DEF Ahead
    <2> QED
      BY <2>1, <2>3
  <1>4. CASE p[2] = 1 /\ p[1] = 1
    BY <1>1, <1>4 DEF Ahead, Before
  <1>5. p[1] \in Nat \ {0} /\ p[2] \in Nat \ {0}
    BY <1>1
  <1> QED
    BY <1>2, <1>3, <1>4, <1>5

(* The end of the last element is the size of the buffer. *)
LEMMA LastEnds ==
  ASSUME NEW config, Sized(config), config # <<>>,
         \A r \in DOMAIN config : config[r].elems # <<>>
  PROVE  \E p \in Positions(config) : EndIdx(config, p) = BufferSize(config)
  <1> DEFINE m == Len(config)
             n == Len(config[m].elems)
             p == <<m, n>>
  <1>0. IsConfiguration(config)
    BY DEF Sized
  <1>1. m \in Nat /\ m > 0 /\ m \in DOMAIN config
    <2>1. m \in Nat /\ m > 0 /\ DOMAIN config = 1 .. m
      BY <1>0, Lengths
    <2> HIDE DEF m
    <2> QED  BY <2>1
  <1>2. n \in Nat /\ n > 0 /\ n \in DOMAIN config[m].elems
    <2>1. n \in Nat /\ n > 0 /\ DOMAIN config[m].elems = 1 .. n
      BY <1>0, <1>1, Lengths
    <2> HIDE DEF n
    <2> QED  BY <2>1
  <1>3. p \in Positions(config)
    <2> HIDE DEF m, n
    <2> QED  BY <1>1, <1>2, PositionIs
  <1>4. ASSUME NEW x \in Positions(config) PROVE Before(x, p) \/ x = p
    <2>1. x = <<x[1], x[2]>> /\ x[1] \in DOMAIN config
          /\ x[2] \in DOMAIN config[x[1]].elems
      BY PositionIs
    <2>2. x[1] \in Nat /\ x[1] <= m
      BY <1>0, <2>1, Lengths
    <2>3. x[2] \in Nat /\ (x[1] = m => x[2] <= n)
      BY <1>0, <2>1, Lengths
    <2> HIDE DEF m, n
    <2> QED
      BY <1>1, <1>2, <2>1, <2>2, <2>3 DEF Before
  <1> HIDE DEF p
  <1>5. Ahead(config, p) \cup {p} = Positions(config)
    BY <1>3, <1>4 DEF Ahead
  <1>6. EndIdx(config, p) = BufferSize(config)
    BY <1>3, <1>5, EndIs DEF BufferSize
  <1> QED
    BY <1>3, <1>6

(* Every byte belongs to an element: of those that end after it, the one    *)
(* that ends first.                                                         *)
LEMMA PlaceOfByte ==
  ASSUME NEW config, Sized(config), config # <<>>,
         \A r \in DOMAIN config : config[r].elems # <<>>,
         NEW b \in Nat, b < BufferSize(config)
  PROVE  \E p \in Positions(config) :
           StartIdx(config, p) <= b /\ b < EndIdx(config, p)
  <1> DEFINE Ends == {EndIdx(config, p) : p \in {q \in Positions(config) :
                                                  b < EndIdx(config, q)}}
  <1>1. Ends \subseteq Nat /\ Ends # {}
    BY EndIs, LastEnds
  <1>2. \E e \in Ends : \A d \in Ends : <<d, e>> \notin OpToRel(<, Nat)
    <2> HIDE DEF Ends
    <2> QED  BY <1>1, NatLessThanWellFounded, WFMin, Zenon
  <1>3. PICK e \in Ends : \A d \in Ends : ~(d < e)
    BY <1>1, <1>2 DEF OpToRel
  <1>4. PICK p \in Positions(config) : b < EndIdx(config, p) /\ e = EndIdx(config, p)
    BY <1>3
  <1>5. CASE Ahead(config, p) = {}
    <2>1. StartIdx(config, p) = SizeOf(config, Ahead(config, p))
      BY EndIs
    <2>2. StartIdx(config, p) = 0
      BY <1>5, <2>1, SizeOfNothing, Zenon
    <2> QED
      BY <1>4, <2>2
  <1>6. ASSUME NEW q \in Positions(config),
               Ahead(config, p) = Ahead(config, q) \cup {q}
        PROVE  StartIdx(config, p) <= b
    <2>1. /\ StartIdx(config, p) = SizeOf(config, Ahead(config, p))
          /\ StartIdx(config, p) \in Nat /\ StartIdx(config, p) < EndIdx(config, p)
      BY EndIs
    <2>2. EndIdx(config, q) = SizeOf(config, Ahead(config, q) \cup {q})
      BY EndIs
    <2>3. EndIdx(config, q) = StartIdx(config, p)
      BY <1>6, <2>1, <2>2, Zenon
    <2>4. ~(b < EndIdx(config, q))
      BY <1>3, <1>4, <2>1, <2>3
    <2> QED
      BY <2>1, <2>3, <2>4
  <1> QED
    BY <1>4, <1>5, <1>6, Follows

(* The elements of region r stand between those of the regions before it    *)
(* and those after it.                                                      *)
Earlier(config, r) == {p \in Positions(config) : p[1] < r}

RegionStart(config, r) == SizeOf(config, Earlier(config, r))

RegionEnd(config, r) == RegionStart(config, r) + RegionSize(config, r)

LEMMA RegionEndIs ==
  ASSUME NEW config, Sized(config), NEW r \in DOMAIN config
  PROVE  /\ RegionStart(config, r) \in Nat /\ RegionSize(config, r) \in Nat
         /\ RegionEnd(config, r)
              = SizeOf(config, Earlier(config, r) \cup InRegion(config, r))
         /\ RegionEnd(config, r) <= BufferSize(config)
  <1>1. /\ Earlier(config, r) \in SUBSET Positions(config)
        /\ InRegion(config, r) \in SUBSET Positions(config)
    BY DEF Earlier, InRegion
  <1>2. Earlier(config, r) \cap InRegion(config, r) = {}
    <2>1. r \in Nat
      BY Lengths DEF Sized
    <2> QED
      BY <2>1 DEF Earlier, InRegion
  <1>3. SizeOf(config, Earlier(config, r) \cup InRegion(config, r))
          = SizeOf(config, Earlier(config, r)) + SizeOf(config, InRegion(config, r))
    BY <1>1, <1>2, SizeOfBoth
  <1>4. SizeOf(config, Earlier(config, r) \cup InRegion(config, r))
          <= SizeOf(config, Positions(config))
    BY <1>1, SizeOfMore
  <1>5. SizeOf(config, Earlier(config, r)) \in Nat
        /\ SizeOf(config, InRegion(config, r)) \in Nat
    BY <1>1, SizeOfType
  <1> QED
    BY <1>3, <1>4, <1>5 DEF RegionStart, RegionSize, RegionEnd, BufferSize

LEMMA WithinRegion ==
  ASSUME NEW config, Sized(config), NEW r \in DOMAIN config,
         NEW p \in Positions(config)
  PROVE  /\ p[1] < r => EndIdx(config, p) <= RegionStart(config, r)
         /\ p[1] = r => /\ RegionStart(config, r) <= StartIdx(config, p)
                        /\ EndIdx(config, p) <= RegionEnd(config, r)
         /\ p[1] > r => RegionEnd(config, r) <= StartIdx(config, p)
  <1>0. IsConfiguration(config) /\ r \in Nat
    BY Lengths DEF Sized
  <1>1. \A x \in Positions(config) : x = <<x[1], x[2]>> /\ x[1] \in Nat /\ x[2] \in Nat
    BY <1>0, PositionNumbers
  <1>2. \A x \in Positions(config) :
          x \in Ahead(config, p) <=> (x[1] < p[1] \/ (x[1] = p[1] /\ x[2] < p[2]))
    BY DEF Ahead, Before
  <1>3. /\ Earlier(config, r) \in SUBSET Positions(config)
        /\ InRegion(config, r) \in SUBSET Positions(config)
        /\ Ahead(config, p) \in SUBSET Positions(config)
    BY DEF Earlier, InRegion, Ahead
  <1>9. /\ StartIdx(config, p) = SizeOf(config, Ahead(config, p))
        /\ EndIdx(config, p) = SizeOf(config, Ahead(config, p) \cup {p})
    BY EndIs
  <1>4. CASE p[1] < r
    <2>1. Ahead(config, p) \cup {p} \in SUBSET Earlier(config, r)
      BY <1>0, <1>1, <1>2, <1>3, <1>4 DEF Earlier
    <2>2. SizeOf(config, Ahead(config, p) \cup {p}) <= SizeOf(config, Earlier(config, r))
      BY <1>3, <2>1, SizeOfMore
    <2>3. EndIdx(config, p) <= RegionStart(config, r)
      BY <1>9, <2>2 DEF RegionStart
    <2> QED
      BY <1>0, <1>1, <1>4, <2>3
  <1>5. CASE p[1] = r
    <2>1. Earlier(config, r) \in SUBSET Ahead(config, p)
      BY <1>0, <1>1, <1>2, <1>5 DEF Earlier
    <2>2. Ahead(config, p) \cup {p} \in SUBSET (Earlier(config, r) \cup InRegion(config, r))
      BY <1>0, <1>1, <1>2, <1>3, <1>5 DEF Earlier, InRegion
    <2>3. RegionStart(config, r) <= StartIdx(config, p)
      BY <1>3, <1>9, <2>1, SizeOfMore, Zenon DEF RegionStart
    <2>4. Earlier(config, r) \cup InRegion(config, r) \in SUBSET Positions(config)
      BY <1>3
    <2>5. SizeOf(config, Ahead(config, p) \cup {p})
            <= SizeOf(config, Earlier(config, r) \cup InRegion(config, r))
      BY <2>2, <2>4, SizeOfMore
    <2>6. EndIdx(config, p) <= RegionEnd(config, r)
      BY <2>5, EndIs, RegionEndIs
    <2> QED
      BY <1>0, <1>1, <1>5, <2>3, <2>6
  <1>6. CASE p[1] > r
    <2>1. Earlier(config, r) \cup InRegion(config, r) \in SUBSET Ahead(config, p)
      BY <1>0, <1>1, <1>2, <1>6 DEF Earlier, InRegion
    <2>2. SizeOf(config, Earlier(config, r) \cup InRegion(config, r))
            <= SizeOf(config, Ahead(config, p))
      BY <1>3, <2>1, SizeOfMore
    <2>3. RegionEnd(config, r) <= StartIdx(config, p)
      BY <2>2, EndIs, RegionEndIs
    <2> QED
      BY <1>0, <1>1, <1>6, <2>3
  <1> QED
    BY <1>0, <1>1, <1>4, <1>5, <1>6

-----------------------------------------------------------------------------
(* The two maps have what the constructor gave to the only entry of a key. *)
LEMMA VerifiedIsSized ==
  ASSUME NEW config, IsConfiguration(config), DvVerified(config)
  PROVE  /\ Sized(config) /\ config # <<>>
         /\ \A r \in DOMAIN config : config[r].elems # <<>>
         /\ ElemsUnique(config) /\ RegionsUnique(config)
  BY DEF DvVerified, RegionVerified, Sized

LEMMA BytesOfElem ==
  ASSUME NEW config, Sized(config), ElemsUnique(config),
         NEW p \in Positions(config)
  PROVE  ElemBytes(config, ElemAt(config, p).elem)
           = StartIdx(config, p) .. EndIdx(config, p) - 1
  <1> DEFINE e == ElemAt(config, p).elem
             Last(q) == /\ ElemAt(config, q).elem = e
                        /\ \A x \in Positions(config) :
                             ElemAt(config, x).elem = e => x = q \/ Before(x, q)
  <1>1. \A q \in Positions(config) : Last(q) <=> q = p
    BY DEF ElemsUnique
  <1>2. (CHOOSE q \in Positions(config) : Last(q)) = p
    <2> HIDE DEF Last
    <2> QED  BY <1>1
  <1>3. ElementInfo(config, e)
          = [startIdx |-> StartIdx(config, p), type |-> ElemAt(config, p).type]
    <2>1. ElementInfo(config, e)
            = [startIdx |-> StartIdx(config, CHOOSE q \in Positions(config) : Last(q)),
               type |-> ElemAt(config, CHOOSE q \in Positions(config) : Last(q)).type]
      BY Zenon DEF ElementInfo
    <2> HIDE DEF Last, e
    <2> QED
      BY <1>2, <2>1, Zenon
  <1>4. /\ ElementInfo(config, e).startIdx = StartIdx(config, p)
        /\ ElementInfo(config, e).type = ElemAt(config, p).type
    BY <1>3
  <1>5. ElemBytes(config, e)
          = ElementInfo(config, e).startIdx ..
              ElementInfo(config, e).startIdx
                + SizeBytes[ElementInfo(config, e).type] - 1
    BY DEF ElemBytes
  <1>6. EndIdx(config, p) = StartIdx(config, p) + SizeBytes[ElemAt(config, p).type]
    BY DEF EndIdx, PlaceSize
  <1>7. StartIdx(config, p) \in Nat /\ SizeBytes[ElemAt(config, p).type] \in 1 .. 8
    BY EndIs, PlaceSizeType DEF PlaceSize
  <1> HIDE DEF e
  <1>8. ElemBytes(config, e) = StartIdx(config, p) .. EndIdx(config, p) - 1
    BY <1>4, <1>5, <1>6, <1>7
  <1> QED
    BY <1>8 DEF e

LEMMA BytesOfRegion ==
  ASSUME NEW config, Sized(config), RegionsUnique(config), NEW r \in DOMAIN config
  PROVE  /\ RegionBytes(config, config[r].region)
              = RegionStart(config, r) .. RegionEnd(config, r) - 1
         /\ RegionInfo(config, config[r].region).sizeBytes = RegionSize(config, r)
  <1> DEFINE rs == {s \in DOMAIN config : config[s].region = config[r].region}
  <1>1. rs = {r}
    BY DEF RegionsUnique
  <1>2. Max(rs) = r
    <2>1. r \in Nat
      BY Lengths DEF Sized
    <2> HIDE DEF rs
    <2> QED
      BY <1>1, <2>1 DEF Max
  <1>3. RegionInfo(config, config[r].region)
          = [startIdx |-> RegionStart(config, r), sizeBytes |-> RegionSize(config, r)]
    <2>1. RegionInfo(config, config[r].region)
            = [startIdx |-> SizeOf(config, {p \in Positions(config) : p[1] < Max(rs)}),
               sizeBytes |-> RegionSize(config, Max(rs))]
      BY Zenon DEF RegionInfo
    <2> HIDE DEF rs
    <2> QED
      BY <1>2, <2>1, Zenon DEF RegionStart, Earlier
  <1>4. /\ RegionInfo(config, config[r].region).startIdx = RegionStart(config, r)
        /\ RegionInfo(config, config[r].region).sizeBytes = RegionSize(config, r)
    BY <1>3
  <1>5. RegionBytes(config, config[r].region)
          = RegionInfo(config, config[r].region).startIdx ..
              RegionInfo(config, config[r].region).startIdx
                + RegionInfo(config, config[r].region).sizeBytes - 1
    BY DEF RegionBytes
  <1>6. RegionEnd(config, r) = RegionStart(config, r) + RegionSize(config, r)
    BY DEF RegionEnd
  <1>7. RegionStart(config, r) \in Nat /\ RegionSize(config, r) \in Nat
    BY RegionEndIs
  <1> QED
    BY <1>4, <1>5, <1>6, <1>7

(* What createNew accepts is laid out exactly: every byte of the buffer     *)
(* belongs to one element, and each region has the bytes of its elements    *)
(* and no others; no region is empty or larger than a message (verifyConfig *)
(* and the constructor in DataVector.cpp). *)
THEOREM CreatedIsExact ==
  ASSUME NEW config, IsConfiguration(config), DvCreated(config)
  PROVE  /\ LayoutIsExact(config)
         /\ \A region \in Regions(config) :
              /\ RegionInfo(config, region).sizeBytes \in Nat \ {0}
              /\ RegionInfo(config, region).sizeBytes <= MaxRecvBytes
  <1>0. /\ Sized(config) /\ config # <<>>
        /\ \A r \in DOMAIN config : config[r].elems # <<>>
        /\ ElemsUnique(config) /\ RegionsUnique(config)
    BY VerifiedIsSized DEF DvCreated
  <1> DEFINE Bytes(p) == ElemBytes(config, ElemAt(config, p).elem)
  <1>1. \A p \in Positions(config) : \A b :
          b \in Bytes(p) <=> b \in Nat /\ StartIdx(config, p) <= b
                                       /\ b < EndIdx(config, p)
    <2> TAKE p \in Positions(config)
    <2>1. Bytes(p) = StartIdx(config, p) .. EndIdx(config, p) - 1
      BY <1>0, BytesOfElem
    <2>2. StartIdx(config, p) \in Nat /\ EndIdx(config, p) \in Nat
      BY <1>0, EndIs
    <2> HIDE DEF Bytes
    <2> QED
      BY <2>1, <2>2
  <1>2. \A p \in Positions(config) : EndIdx(config, p) <= BufferSize(config)
    <2> TAKE p \in Positions(config)
    <2>1. Ahead(config, p) \cup {p} \in SUBSET Positions(config)
      BY DEF Ahead
    <2>2. SizeOf(config, Ahead(config, p) \cup {p}) <= SizeOf(config, Positions(config))
      BY <1>0, <2>1, SizeOfMore
    <2>3. EndIdx(config, p) = SizeOf(config, Ahead(config, p) \cup {p})
      BY <1>0, EndIs
    <2> QED
      BY <2>2, <2>3, Zenon DEF BufferSize
  <1>3. BufferSize(config) \in Nat
    BY <1>0, SizeOfType DEF BufferSize
  <1>4. UNION {ElemBytes(config, e) : e \in Elems(config)}
          = UNION {Bytes(p) : p \in Positions(config)}
    BY DEF Elems
  <1> HIDE DEF Bytes
  <1>5. UNION {Bytes(p) : p \in Positions(config)} = 0 .. BufferSize(config) - 1
    <2>1. ASSUME NEW p \in Positions(config), NEW b \in Bytes(p)
          PROVE  b \in 0 .. BufferSize(config) - 1
      <3>1. b \in Nat /\ b < EndIdx(config, p) /\ EndIdx(config, p) \in Nat
        BY <1>0, <1>1, EndIs
      <3> QED
        BY <1>2, <1>3, <3>1
    <2>2. ASSUME NEW b \in 0 .. BufferSize(config) - 1
          PROVE  \E p \in Positions(config) : b \in Bytes(p)
      <3>1. b \in Nat /\ b < BufferSize(config)
        BY <1>3
      <3>2. PICK p \in Positions(config) :
              StartIdx(config, p) <= b /\ b < EndIdx(config, p)
        BY <1>0, <3>1, PlaceOfByte
      <3> QED
        BY <1>1, <3>1, <3>2
    <2> QED
      BY <2>1, <2>2
  <1>6. ASSUME NEW p \in Positions(config), NEW q \in Positions(config), p # q
        PROVE  Bytes(p) \cap Bytes(q) = {}
    <2>1. \/ EndIdx(config, p) <= StartIdx(config, q)
          \/ EndIdx(config, q) <= StartIdx(config, p)
      BY <1>0, <1>6, Ordered, NoOverlap DEF Sized
    <2>2. /\ StartIdx(config, p) \in Nat /\ EndIdx(config, p) \in Nat
          /\ StartIdx(config, q) \in Nat /\ EndIdx(config, q) \in Nat
      BY <1>0, EndIs
    <2>3. \A b : ~(b \in Bytes(p) /\ b \in Bytes(q))
      BY <1>1, <2>1, <2>2
    <2> QED
      BY <2>3
  <1>7. \A e, f \in Elems(config) :
          e # f => ElemBytes(config, e) \cap ElemBytes(config, f) = {}
    <2> TAKE e, f \in Elems(config)
    <2> HAVE e # f
    <2>1. PICK p \in Positions(config) : e = ElemAt(config, p).elem
      BY DEF Elems
    <2>2. PICK q \in Positions(config) : f = ElemAt(config, q).elem
      BY DEF Elems
    <2>3. Bytes(p) \cap Bytes(q) = {}
      BY <1>6, <2>1, <2>2
    <2> QED
      BY <2>1, <2>2, <2>3 DEF Bytes
  <1>8. ASSUME NEW r \in DOMAIN config
        PROVE  RegionBytes(config, config[r].region)
                 = UNION {Bytes(p) : p \in InRegion(config, r)}
    <2>0. /\ RegionBytes(config, config[r].region)
               = RegionStart(config, r) .. RegionEnd(config, r) - 1
          /\ RegionStart(config, r) \in Nat /\ RegionEnd(config, r) \in Nat
          /\ RegionEnd(config, r) <= BufferSize(config)
      <3>1. /\ RegionStart(config, r) \in Nat /\ RegionSize(config, r) \in Nat
            /\ RegionEnd(config, r) <= BufferSize(config)
        BY <1>0, RegionEndIs
      <3>2. RegionBytes(config, config[r].region)
              = RegionStart(config, r) .. RegionEnd(config, r) - 1
        BY <1>0, BytesOfRegion
      <3> QED
        BY <3>1, <3>2 DEF RegionEnd
    <2>1. ASSUME NEW p \in InRegion(config, r), NEW b \in Bytes(p)
          PROVE  b \in RegionStart(config, r) .. RegionEnd(config, r) - 1
      <3>1. p \in Positions(config) /\ p[1] = r
        BY DEF InRegion
      <3>2. RegionStart(config, r) <= StartIdx(config, p)
            /\ EndIdx(config, p) <= RegionEnd(config, r)
        BY <1>0, <3>1, WithinRegion
      <3>3. b \in Nat /\ StartIdx(config, p) <= b /\ b < EndIdx(config, p)
            /\ StartIdx(config, p) \in Nat /\ EndIdx(config, p) \in Nat
        BY <1>0, <1>1, <3>1, EndIs
      <3> QED
        BY <2>0, <3>2, <3>3
    <2>2. ASSUME NEW b \in RegionStart(config, r) .. RegionEnd(config, r) - 1
          PROVE  \E p \in InRegion(config, r) : b \in Bytes(p)
      <3>1. b \in Nat /\ RegionStart(config, r) <= b /\ b < RegionEnd(config, r)
            /\ b < BufferSize(config)
        BY <1>3, <2>0
      <3>2. PICK p \in Positions(config) :
              StartIdx(config, p) <= b /\ b < EndIdx(config, p)
        BY <1>0, <3>1, PlaceOfByte
      <3>3. StartIdx(config, p) \in Nat /\ EndIdx(config, p) \in Nat
        BY <1>0, EndIs
      <3>4. ~(p[1] < r) /\ ~(p[1] > r)
        BY <1>0, <2>0, <3>1, <3>2, <3>3, WithinRegion
      <3>5. p[1] \in Nat /\ r \in Nat
        BY <1>0, PositionNumbers, Lengths DEF Sized
      <3>6. p \in InRegion(config, r)
        BY <3>4, <3>5 DEF InRegion
      <3> QED
        BY <1>1, <3>1, <3>2, <3>6
    <2> QED
      BY <2>0, <2>1, <2>2
  <1>9. LayoutIsExact(config)
    BY <1>4, <1>5, <1>7, <1>8 DEF LayoutIsExact, Bytes
  <1>10. ASSUME NEW region \in Regions(config)
         PROVE  /\ RegionInfo(config, region).sizeBytes \in Nat \ {0}
                /\ RegionInfo(config, region).sizeBytes <= MaxRecvBytes
    <2>1. PICK r \in DOMAIN config : region = config[r].region
      BY DEF Regions
    <2>2. RegionInfo(config, region).sizeBytes = RegionSize(config, r)
      BY <1>0, <2>1, BytesOfRegion
    <2>3. RegionSize(config, r) <= MaxRecvBytes
      BY DEF DvCreated, RegionsFit
    <2>4. PICK p \in Positions(config) : p[1] = r
      <3>1. 1 \in DOMAIN config[r].elems
        BY <1>0, Lengths DEF Sized
      <3>2. <<r, 1>> \in Positions(config)
        BY <3>1, PositionIs
      <3> QED
        BY <3>2
    <2>5. /\ RegionStart(config, r) <= StartIdx(config, p)
          /\ StartIdx(config, p) < EndIdx(config, p)
          /\ EndIdx(config, p) <= RegionEnd(config, r)
          /\ StartIdx(config, p) \in Nat /\ EndIdx(config, p) \in Nat
      BY <1>0, <2>4, WithinRegion, EndIs
    <2>6. RegionStart(config, r) \in Nat /\ RegionSize(config, r) \in Nat
      BY <1>0, RegionEndIs
    <2> QED
      BY <2>2, <2>3, <2>5, <2>6 DEF RegionEnd
  <1> QED
    BY <1>9, <1>10

(* A node that came up can send and receive every region it uses, and what *)
(* it sends is what its elements hold, for every configuration             *)
(* (DataVector::createNew, verifyDvConfig of the nodes). *)
THEOREM RegionsAreWhole == StartupSpec => []RegionsTravelWhole
  <1>1. ASSUME NEW n \in Node, NEW s \in Accepted[n]
        PROVE  s \in WholeRegions[n]
    <2>1. s \in Setups /\ ElemsVerified(s, n) /\ DvCreated(s.dv[n])
      BY DEF Accepted
    <2>2. IsConfiguration(s.dv[n])
      BY <2>1, StartupAssumption
    <2>3. /\ LayoutIsExact(s.dv[n])
          /\ \A region \in Regions(s.dv[n]) :
               /\ RegionInfo(s.dv[n], region).sizeBytes \in Nat \ {0}
               /\ RegionInfo(s.dv[n], region).sizeBytes <= MaxRecvBytes
      BY <2>1, <2>2, CreatedIsExact
    <2> QED
      BY <2>1, <2>3 DEF WholeRegions, ElemsVerified
  <1>2. UpIsAccepted => RegionsTravelWhole
    <2>1. Up \subseteq Node
      BY DEF Up, Node
    <2> QED
      BY <1>1, <2>1 DEF UpIsAccepted, RegionsTravelWhole
  <1> QED
    BY <1>2, UpIsAcceptedAlways, PTL
=============================================================================
