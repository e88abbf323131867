------------------------------- MODULE Startup -------------------------------
(***************************************************************************)
(* The start of the nodes from their configurations: a process checks its  *)
(* configuration, lays out its Data Vector, makes its buffers and binds    *)
(* its sockets before it synchronizes its clock, and exits on the first    *)
(* error, with nothing done that others could see.  All nodes have the     *)
(* same addresses and channels, as in PlatformLEDSystemTest_Config.cpp.    *)
(***************************************************************************)
EXTENDS ClockSync, DvLayout, Channels

CONSTANTS
  Setups    \* configurations: [nodeToIp, channels, dv, counters]

(* Regions and elements carry the number of the Device Node in their name. *)
ToDn(c) == <<"DV_REG_CN_TO_DN", c>>
FromDn(c) == <<"DV_REG_DN_TO_CN", c>>
Own(name) == <<name, NODE_CONTROL>>

Node == Clients \cup {NODE_CONTROL, NODE_GROUND}

ASSUME StartupAssumption ==
  /\ Clients \subseteq 1 .. 3
  /\ \A s \in Setups : \A n \in Node : IsConfiguration(s.dv[n])
  /\ \A s \in Setups :
       OneByte = {c \in Clients :
                    ToDn(c) \in Regions(s.dv[NODE_CONTROL])
                    /\ RegionInfo(s.dv[NODE_CONTROL], ToDn(c)).sizeBytes = 1}

VARIABLE setup    \* the one the nodes were built with

startupVars == <<vars, setup>>

RequiredRegions(n) ==
  CASE n = NODE_CONTROL -> {Own("DV_REG_CN"), Own("DV_REG_GROUND_TO_CN")}
                             \cup {ToDn(c) : c \in Clients}
                             \cup {FromDn(c) : c \in Clients}
    [] n \in Clients    -> {ToDn(n), FromDn(n)}
    [] OTHER            -> {}

RequiredElems(n) ==
  CASE n = NODE_CONTROL ->
         {Own("DV_ELEM_STATE"), Own("DV_ELEM_CN_LOOP_COUNT"),
          Own("DV_ELEM_CN_ERROR_COUNT"), Own("DV_ELEM_CN_TIME_NS"),
          Own("DV_ELEM_CN_LOOP_DEADLINE_MISS_COUNT"),
          Own("DV_ELEM_CN_COMMS_DEADLINE_MISS_COUNT")}
           \cup {<<"DV_ELEM_DN_RX_MISS_COUNT", c>> : c \in Clients}
    [] n \in Clients    ->
         {<<"DV_ELEM_DN_LOOP_COUNT", n>>, <<"DV_ELEM_DN_ERROR_COUNT", n>>}
    [] OTHER            -> {}

(* verifyNmConfig of the two nodes.  Ground's program requires nothing. *)
RequiredPeers(n) ==
  CASE n = NODE_CONTROL -> Clients \cup {NODE_GROUND}
    [] n \in Clients    -> {NODE_CONTROL}
    [] OTHER            -> {}

TopologyVerified(s, n) ==
  /\ n # NODE_GROUND => n \in DOMAIN s.nodeToIp
  /\ RequiredPeers(n) \subseteq DOMAIN s.nodeToIp
  /\ {{n, m} : m \in RequiredPeers(n)}
       \subseteq {Pair(s.channels[k]) : k \in DOMAIN s.channels}

ElemsVerified(s, n) ==
  /\ RequiredRegions(n) \subseteq Regions(s.dv[n])
  /\ RequiredElems(n) \subseteq Elems(s.dv[n])

(* The setups with which the steps of entry before the clock               *)
(* synchronization succeed on a node.  s.counters has the two elements of  *)
(* step 3 of NetworkManager::verifyConfig.                                 *)
Accepted ==
  [n \in Node |-> {s \in Setups :
                     /\ TopologyVerified(s, n) /\ ElemsVerified(s, n)
                     /\ DvCreated(s.dv[n])
                     /\ NmCreated(s, n)
                     /\ s.counters[n] \subseteq Elems(s.dv[n])}]

-----------------------------------------------------------------------------

StartupInit == Init /\ setup \in Setups

StartServerUp == setup \in Accepted[NODE_CONTROL] /\ StartServer

StartClientUp(c) == setup \in Accepted[c] /\ StartClient(c)

OtherStep ==
  \/ ServerStep \/ StartNtpdFails \/ ServerCrash
  \/ \E c \in Clients :
       \/ SendReadyFails(c) \/ ServerLoop(c)
       \/ ClientStep(c) \/ SendReplyFails(c)
       \/ ClientCrash(c) \/ Lose(c)

StartupNext ==
  /\ StartServerUp \/ (\E c \in Clients : StartClientUp(c)) \/ OtherStep
  /\ UNCHANGED setup

StartupSpec == StartupInit /\ [][StartupNext]_startupVars

StartupFairSpec ==
  /\ StartupSpec
  /\ WF_startupVars(ServerStep /\ faults' = faults /\ UNCHANGED setup)
  /\ \A c \in Clients : WF_startupVars(ClientStep(c) /\ UNCHANGED setup)

-----------------------------------------------------------------------------
(* The nodes whose Network Manager exists.  Ground's program makes its own *)
(* in the same way.                                                        *)
Up ==
  {c \in Clients : cliPc[c] \notin Down}
    \cup (IF srvPc \notin Down THEN {NODE_CONTROL} ELSE {})
    \cup (IF setup \in Accepted[NODE_GROUND] THEN {NODE_GROUND} ELSE {})

(* verifyConfig compares the texts of the addresses, not the addresses.    *)
SpelledOnce ==
  \A n, m \in DOMAIN setup.nodeToIp :
    Address(setup.nodeToIp[n]) = Address(setup.nodeToIp[m]) => n = m

(* "This design enables us to call recv on a socket and know exactly what  *)
(* message we are receiving and from which node" (NetworkManager.hpp):     *)
(* whatever node n sends on a channel arrives at the socket that the other *)
(* node has for it, once that is up, and in no other socket of any node;   *)
(* a noop message arrives in none.  It needs that addresses differ.        *)
SocketsHaveOneSender ==
  SpelledOnce =>
    \A n, m \in Up : \A s \in Sockets(setup, n) :
      /\ s.peer = m =>
           \E t \in Sockets(setup, m) :
             t.peer = n /\ [ip |-> t.ip, port |-> t.port] \in Datagrams(s)
      /\ \A t \in Sockets(setup, m) :
           [ip |-> t.ip, port |-> t.port] \in Datagrams(s)
             => /\ s.peer = m /\ t.peer = n
                /\ t.port # NoopPort

(* The setups with which a node that comes up can send and receive every   *)
(* region it uses, with the bytes of its elements and no others.           *)
WholeRegions ==
  [n \in Node |-> {s \in Accepted[n] :
     /\ RequiredRegions(n) \subseteq
          {region \in Regions(s.dv[n]) :
             RegionInfo(s.dv[n], region).sizeBytes \in 1 .. MaxRecvBytes}
     /\ LayoutIsExact(s.dv[n])}]

(* A node that came up never fails to send or receive because of its own   *)
(* buffers, and what it sends is what its elements hold: its regions       *)
(* exist, are not empty nor larger than what recvBlock, recvNoBlock and    *)
(* recvMult accept, and each consists of the bytes of its elements, while  *)
(* every byte of the Data Vector belongs to exactly one element.           *)
RegionsTravelWhole == \A n \in Up : setup \in WholeRegions[n]
=============================================================================
