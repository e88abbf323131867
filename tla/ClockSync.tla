----------------------------- MODULE ClockSync ------------------------------
(***************************************************************************)
(* The start of the nodes: the Control Node runs syncServer, every Device  *)
(* Node syncClient, before they enter their loops.  The server starts the  *)
(* NTP daemon, tells the clients one after the other, waits for the reply  *)
(* of one after the other, and stops the daemon; a client waits to be told,*)
(* synchronizes once and replies.  Processes exit on any error, crash, and *)
(* are started again; nothing they keep survives, except the daemon.       *)
(*                                                                         *)
(* A message of the protocol is one byte, and so may be the region that a  *)
(* Control Node in its loop sends to a Device Node (OneByte).  A message   *)
(* waits in a channel until it is read or lost; a process that starts opens*)
(* new sockets, which are empty, and what is sent to one that does not run *)
(* is lost.                                                                *)
(***************************************************************************)
EXTENDS Naturals, Sequences

CONSTANTS
  Clients,    \* the Device Nodes, numbered in the order of kClientNodes
  OneByte,    \* those whose region DV_REG_CN_TO_DNi is one byte long
  MaxStarts,  \* bound: starts of each process
  MaxFaults,  \* bound: messages lost, calls that fail and crashes
  QueueSize   \* bound: messages in a channel, beyond which regions are lost

ASSUME ClientsAssumption == Clients \subseteq Nat /\ Clients # {}

ASSUME ClockSyncBoundAssumption ==
  /\ OneByte \subseteq Clients
  /\ MaxStarts \in Nat /\ MaxFaults \in Nat /\ QueueSize \in Nat

VARIABLES
  srvPc,      \* where the Control Node is
  served,     \* clients that the loop of syncServer has done with
  rxMsgs,     \* rxMsgs of syncServer
  ntpd,       \* the daemon runs
  cliPc,      \* where each Device Node is
  toCli,      \* messages for each of them
  toSrv,      \* and from it
  srvStarts, cliStarts, faults,
  missed,     \* history: clients that did not wait when they were told
  synced      \* history: clients whose last synchronization was verified

srvVars == <<srvPc, served, rxMsgs, ntpd, srvStarts, missed>>
cliVars == <<cliPc, cliStarts, synced>>
vars == <<srvVars, cliVars, toCli, toSrv, faults>>

(* Msg_t, in the order of the enumeration; a byte of a region that is 0 or *)
(* 1 (MODE_SAFED, MODE_ENABLED) reads as one of the first two.  DATA is a  *)
(* region of more bytes.                                                   *)
Msg_t == {"SERVER_READY", "CLIENT_SYNC_SUCCESS", "CLIENT_SYNC_FAIL"}
Message == Msg_t \cup {"DATA"}

(* A mistake: a message is told by its first byte, whatever its size.      *)
BugRegion(c) == {"SERVER_READY", "DATA"}

Region(c) ==
  IF c \in OneByte THEN {"SERVER_READY", "CLIENT_SYNC_SUCCESS"} ELSE {"DATA"}

EachClient(x) == [c \in Clients |-> x]

Down == {"off", "exit"}

Init ==
  /\ srvPc = "off" /\ served = {} /\ rxMsgs = EachClient("CLIENT_SYNC_FAIL")
  /\ ntpd = FALSE
  /\ cliPc = EachClient("off")
  /\ toCli = EachClient(<<>>) /\ toSrv = EachClient(<<>>)
  /\ srvStarts = 0 /\ cliStarts = EachClient(0) /\ faults = 0
  /\ missed = {} /\ synced = EachClient(FALSE)

Fault == faults < MaxFaults /\ faults' = faults + 1

(* NetworkManager::send to a node whose process may not run. *)
Told(c, m) ==
  IF cliPc[c] \in Down THEN toCli ELSE [toCli EXCEPT ![c] = Append(@, m)]

Replied(c, m) ==
  IF srvPc \in Down THEN toSrv ELSE [toSrv EXCEPT ![c] = Append(@, m)]

NextClient(c) ==
  /\ c \in Clients \ served
  /\ \A d \in Clients \ served : c <= d

Serve(c) == served' = served \cup {c}

-----------------------------------------------------------------------------
(* The Control Node *)

StartServer ==
  /\ srvPc \in Down /\ srvStarts < MaxStarts
  /\ srvPc' = "start"
  /\ srvStarts' = srvStarts + 1
  /\ toSrv' = EachClient(<<>>)
  /\ served' = {} /\ rxMsgs' = EachClient("CLIENT_SYNC_FAIL") /\ missed' = {}
  /\ UNCHANGED <<ntpd, cliVars, toCli, faults>>

(* setNtpDaemonStatus (true); a daemon that a crashed server left is kept. *)
StartNtpd ==
  /\ srvPc = "start"
  /\ srvPc' = "send" /\ ntpd' = TRUE
  /\ UNCHANGED <<served, rxMsgs, srvStarts, missed, cliVars, toCli, toSrv,
                 faults>>

StartNtpdFails ==
  /\ srvPc = "start"
  /\ Fault
  /\ srvPc' = "exit"
  /\ UNCHANGED <<served, rxMsgs, ntpd, srvStarts, missed, cliVars, toCli,
                 toSrv>>

SendReady(c) ==
  /\ srvPc = "send"
  /\ NextClient(c)
  /\ Serve(c)
  /\ toCli' = Told(c, "SERVER_READY")
  /\ missed' = IF cliPc[c] = "wait" THEN missed ELSE missed \cup {c}
  /\ UNCHANGED <<srvPc, rxMsgs, ntpd, srvStarts, cliVars, toSrv, faults>>

(* send fails with or without having sent; the daemon is left running, as  *)
(* WARNING #1 says.                                                        *)
SendReadyFails(c) ==
  /\ srvPc = "send"
  /\ NextClient(c)
  /\ Fault
  /\ toCli' \in {toCli, Told(c, "SERVER_READY")}
  /\ srvPc' = "exit"
  /\ UNCHANGED <<served, rxMsgs, ntpd, srvStarts, missed, cliVars, toSrv>>

AllTold ==
  /\ srvPc = "send" /\ served = Clients
  /\ srvPc' = "recv" /\ served' = {}
  /\ UNCHANGED <<rxMsgs, ntpd, srvStarts, missed, cliVars, toCli, toSrv,
                 faults>>

BugRecvReply(c) ==
  /\ srvPc = "recv"
  /\ NextClient(c)
  /\ toSrv[c] # <<>> /\ Head(toSrv[c]) # "DATA"
  /\ rxMsgs' = EachClient(Head(toSrv[c]))
  /\ toSrv' = [toSrv EXCEPT ![c] = Tail(@)]
  /\ Serve(c)
  /\ UNCHANGED <<srvPc, ntpd, srvStarts, missed, cliVars, toCli, faults>>

RecvReply(c) ==
  /\ srvPc = "recv"
  /\ NextClient(c)
  /\ toSrv[c] # <<>> /\ Head(toSrv[c]) # "DATA"
  /\ rxMsgs' = [rxMsgs EXCEPT ![c] = Head(toSrv[c])]
  /\ toSrv' = [toSrv EXCEPT ![c] = Tail(@)]
  /\ Serve(c)
  /\ UNCHANGED <<srvPc, ntpd, srvStarts, missed, cliVars, toCli, faults>>

(* setNtpDaemonStatus (false), whose failure leaves the daemon running. *)
StopNtpd ==
  \/ ntpd' = FALSE /\ UNCHANGED faults
  \/ Fault /\ UNCHANGED ntpd

(* recvBlock returns an error, for a message that is not one byte long, or *)
(* for a call that fails.                                                  *)
RecvReplyError(c) ==
  /\ srvPc = "recv"
  /\ NextClient(c)
  /\ \/ /\ toSrv[c] # <<>> /\ Head(toSrv[c]) = "DATA"
        /\ toSrv' = [toSrv EXCEPT ![c] = Tail(@)]
        /\ StopNtpd
     \/ /\ Fault
        /\ UNCHANGED toSrv
        /\ ntpd' \in {FALSE, ntpd}
  /\ srvPc' = "exit"
  /\ UNCHANGED <<served, rxMsgs, srvStarts, missed, cliVars, toCli>>

AllSucceeded == \A c \in Clients : rxMsgs[c] = "CLIENT_SYNC_SUCCESS"

BugClientFailed ==
  /\ srvPc = "recv" /\ served = Clients
  /\ ~AllSucceeded
  /\ srvPc' = "exit"
  /\ UNCHANGED <<served, rxMsgs, ntpd, srvStarts, missed, cliVars, toCli,
                 toSrv, faults>>

ClientFailed ==
  /\ srvPc = "recv" /\ served = Clients
  /\ ~AllSucceeded
  /\ StopNtpd
  /\ srvPc' = "exit"
  /\ UNCHANGED <<served, rxMsgs, srvStarts, missed, cliVars, toCli, toSrv>>

(* The rest of entry, up to the loop. *)
EnterLoop ==
  /\ srvPc = "recv" /\ served = Clients
  /\ AllSucceeded
  /\ StopNtpd
  /\ srvPc' = IF ntpd' THEN "exit" ELSE "loop"
  /\ UNCHANGED <<served, rxMsgs, srvStarts, missed, cliVars, toCli, toSrv>>

(* A region is sent, and a message read, if there is one.  NodeComms has   *)
(* the loops in detail.                                                    *)
ServerLoop(c) ==
  /\ srvPc = "loop"
  /\ \E m \in Region(c) :
       toCli' = IF Len(toCli[c]) < QueueSize THEN Told(c, m) ELSE toCli
  /\ toSrv' = IF toSrv[c] = <<>> THEN toSrv ELSE [toSrv EXCEPT ![c] = Tail(@)]
  /\ UNCHANGED <<srvVars, cliVars, faults>>

ServerCrash ==
  /\ srvPc \notin Down
  /\ Fault
  /\ srvPc' = "off"
  /\ toSrv' = EachClient(<<>>)
  /\ UNCHANGED <<served, rxMsgs, ntpd, srvStarts, missed, cliVars, toCli>>

-----------------------------------------------------------------------------
(* A Device Node *)

CliGoto(c, pc) == cliPc' = [cliPc EXCEPT ![c] = pc]

StartClient(c) ==
  /\ cliPc[c] \in Down /\ cliStarts[c] < MaxStarts
  /\ CliGoto(c, "wait")
  /\ cliStarts' = [cliStarts EXCEPT ![c] = @ + 1]
  /\ toCli' = [toCli EXCEPT ![c] = <<>>]
  /\ UNCHANGED <<srvVars, synced, toSrv, faults>>

(* recvBlock, and the comparison with SERVER_READY: any other byte and any *)
(* message of another size ends the process.                               *)
RecvReady(c) ==
  /\ cliPc[c] = "wait"
  /\ toCli[c] # <<>>
  /\ toCli' = [toCli EXCEPT ![c] = Tail(@)]
  /\ CliGoto(c, IF Head(toCli[c]) = "SERVER_READY" THEN "sync" ELSE "exit")
  /\ UNCHANGED <<srvVars, cliStarts, synced, toSrv, faults>>

BugSynchronize(c) ==
  /\ cliPc[c] = "sync"
  /\ synced' = [synced EXCEPT ![c] = ntpd]
  /\ CliGoto(c, "success")
  /\ UNCHANGED <<srvVars, cliStarts, toCli, toSrv, faults>>

(* ntpdate and verifyClientSynced, which need the daemon and may fail. *)
Synchronize(c) ==
  /\ cliPc[c] = "sync"
  /\ \/ /\ ntpd
        /\ synced' = [synced EXCEPT ![c] = TRUE]
        /\ CliGoto(c, "success")
     \/ /\ synced' = [synced EXCEPT ![c] = FALSE]
        /\ CliGoto(c, "failed")
  /\ UNCHANGED <<srvVars, cliStarts, toCli, toSrv, faults>>

Reply(c) == IF cliPc[c] = "success" THEN "CLIENT_SYNC_SUCCESS"
                                    ELSE "CLIENT_SYNC_FAIL"

BugSendReply(c) ==
  /\ cliPc[c] \in {"success", "failed"}
  /\ toSrv' = IF cliPc[c] = "success" THEN Replied(c, Reply(c)) ELSE toSrv
  /\ CliGoto(c, IF cliPc[c] = "success" THEN "loop" ELSE "exit")
  /\ UNCHANGED <<srvVars, cliStarts, synced, toCli, faults>>

SendReply(c) ==
  /\ cliPc[c] \in {"success", "failed"}
  /\ toSrv' = Replied(c, Reply(c))
  /\ CliGoto(c, IF cliPc[c] = "success" THEN "loop" ELSE "exit")
  /\ UNCHANGED <<srvVars, cliStarts, synced, toCli, faults>>

SendReplyFails(c) ==
  /\ cliPc[c] \in {"success", "failed"}
  /\ Fault
  /\ toSrv' \in {toSrv, Replied(c, Reply(c))}
  /\ CliGoto(c, "exit")
  /\ UNCHANGED <<srvVars, cliStarts, synced, toCli>>

(* A message of the size of the region is taken for it and answered; any   *)
(* other is an error of one loop.                                          *)
ClientLoop(c) ==
  /\ cliPc[c] = "loop"
  /\ toCli[c] # <<>>
  /\ toCli' = [toCli EXCEPT ![c] = Tail(@)]
  /\ toSrv' = IF (c \in OneByte) = (Head(toCli[c]) # "DATA")
                   /\ Len(toSrv[c]) < QueueSize
                THEN Replied(c, "DATA") ELSE toSrv
  /\ UNCHANGED <<srvVars, cliVars, faults>>

(* A crash, a call of syncClient that fails, or the exception of stof for  *)
(* an offset that cannot be read.                                          *)
ClientCrash(c) ==
  /\ cliPc[c] \notin Down
  /\ Fault
  /\ CliGoto(c, "off")
  /\ toCli' = [toCli EXCEPT ![c] = <<>>]
  /\ UNCHANGED <<srvVars, cliStarts, synced, toSrv>>

-----------------------------------------------------------------------------
Lose(c) ==
  /\ Fault
  /\ \/ toCli[c] # <<>> /\ toCli' = [toCli EXCEPT ![c] = Tail(@)]
        /\ UNCHANGED toSrv
     \/ toSrv[c] # <<>> /\ toSrv' = [toSrv EXCEPT ![c] = Tail(@)]
        /\ UNCHANGED toCli
  /\ UNCHANGED <<srvVars, cliVars>>

ServerStep ==
  \/ StartNtpd \/ AllTold \/ ClientFailed \/ EnterLoop
  \/ \E c \in Clients : SendReady(c) \/ RecvReply(c) \/ RecvReplyError(c)

ClientStep(c) == RecvReady(c) \/ Synchronize(c) \/ SendReply(c) \/ ClientLoop(c)

Next ==
  \/ StartServer \/ ServerStep \/ StartNtpdFails \/ ServerCrash
  \/ \E c \in Clients :
       \/ SendReadyFails(c) \/ ServerLoop(c)
       \/ StartClient(c) \/ ClientStep(c) \/ SendReplyFails(c)
       \/ ClientCrash(c)
       \/ Lose(c)

Spec == Init /\ [][Next]_vars

(* A process that is not blocked goes on, without a fault.  Nothing makes  *)
(* anybody start it, and nothing makes the network deliver what it lost.   *)
FairSpec ==
  /\ Spec
  /\ WF_vars(ServerStep /\ faults' = faults)
  /\ \A c \in Clients : WF_vars(ClientStep(c))

-----------------------------------------------------------------------------
(* Every variable has its type. *)
TypeOK ==
  /\ srvPc \in Down \cup {"start", "send", "recv", "loop"}
  /\ cliPc \in [Clients -> Down \cup {"wait", "sync", "success", "failed",
                                      "loop"}]
  /\ served \subseteq Clients /\ missed \subseteq Clients
  /\ rxMsgs \in [Clients -> Msg_t]
  /\ ntpd \in BOOLEAN
  /\ synced \in [Clients -> BOOLEAN]
  /\ toCli \in [Clients -> Seq(Message)]
  /\ toSrv \in [Clients -> Seq(Message)]
  /\ srvStarts \in 0 .. MaxStarts
  /\ cliStarts \in [Clients -> 0 .. MaxStarts]
  /\ faults \in 0 .. MaxFaults

(* Unless a call failed or a process crashed, every way out of syncServer  *)
(* stops the daemon: it does not run beside the loop, where it would take  *)
(* the processor and move the clock.                                       *)
DaemonIsStopped == (ntpd /\ faults = 0) => srvPc \in {"send", "recv"}

(* Without a fault the Control Node flies only with all Device Nodes: they *)
(* are synchronized and in their loops, in whatever order the processes    *)
(* were started, and started again after a failed attempt.                 *)
FlyTogether ==
  (srvPc = "loop" /\ faults = 0) =>
    \A c \in Clients : cliPc[c] = "loop" /\ synced[c]

(* Whatever is lost, fails or crashes, the Control Node does not enter its *)
(* loop beside a Device Node whose clock is not synchronized; except that  *)
(* the reply to a crashed server may reach the next one, and stand for a   *)
(* client that was started again as well.                                  *)
EntersLoopSynchronized ==
  [][(srvPc # "loop" /\ srvPc' = "loop") =>
       \A c \in Clients :
         synced[c] \/ (srvStarts > 1 /\ cliStarts[c] > 1)]_vars

(* Client c is going to reply to the server, or has. *)
ReplyIsDue(c) ==
  \/ toSrv[c] # <<>>
  \/ cliPc[c] \in {"sync", "success", "failed"}
  \/ cliPc[c] = "wait" /\ toCli[c] # <<>>

(* Without a fault, the server waits for a reply that does not come only   *)
(* for a client that was not waiting when it was told: started too late    *)
(* (NOTE #1 of ClockSync.hpp), or in its loop since an earlier start.      *)
WaitsInVainOnlyForMissed ==
  (srvPc = "recv" /\ faults = 0) =>
    \A c \in Clients \ served : ReplyIsDue(c) \/ c \in missed

(* Then the server comes to an end, with or without success. *)
ServerDecides ==
  (srvPc = "start") ~> (srvPc \in {"loop", "exit"} \/ faults > 0 \/ missed # {})

(* "Wait for a message from the server node that it is ready, then sync"   *)
(* (ClockSync.hpp).  A Device Node that crashed and is started beside a    *)
(* Control Node in its loop gets no such message, and must not take data   *)
(* for one, which makes it wait instead of synchronizing with a server     *)
(* that has no daemon.  A region of one byte is not told from SERVER_READY;*)
(* and a message of a server may reach the loop of its client late, if a   *)
(* reply to an earlier server stood for both.                              *)
SyncsOnlyWhenServerIsReady ==
  [][\A c \in Clients \ OneByte :
       (cliPc[c] = "wait" /\ cliPc'[c] = "sync")
         => srvPc # "loop" \/ (srvStarts > 1 /\ cliStarts[c] > 1)]_vars
=============================================================================
