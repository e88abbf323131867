------------------------------ MODULE Channels ------------------------------
(***************************************************************************)
(* The Network Manager's configuration: its checks, the sockets that its   *)
(* constructor binds, and where send sends to.  A configuration has        *)
(* nodeToIp, a function from nodes to IP strings, channels, a sequence,    *)
(* and me.                                                                 *)
(*                                                                         *)
(* An IP string is [regions, zeros]: what stands between the dots, each a  *)
(* number or a text that is none, and whether it is written with leading   *)
(* zeros.  An address is the sequence of its bytes.                        *)
(***************************************************************************)
EXTENDS Naturals, Sequences

(* Node_t; between the two are the Device Nodes. *)
NODE_CONTROL == 0
NODE_GROUND == 4
NODE_LAST == 5

MIN_PORT == 2201
MAX_PORT == 2299
NOOP_PORT == 2200

(* convertIPStringToUInt32 returns E_SUCCESS.  It throws an exception for  *)
(* an empty region, which ends the process as an error does.               *)
NoNumber == 1000    \* stands for a region that is no number
Convertible(ip) ==
  /\ Len(ip.regions) = 4
  /\ \A k \in 1 .. 4 : ip.regions[k] \in 0 .. 255

Address(ip) == ip.regions

Pair(channel) == {channel.node1, channel.node2}

(* Steps 2 and 4 to 6 of verifyConfig. *)
NmVerified(nm, me) ==
  LET nodes == DOMAIN nm.nodeToIp
      channels == {nm.channels[k] : k \in DOMAIN nm.channels}
  IN  /\ nodes # {} /\ nm.channels # <<>>
      /\ \A n \in nodes :
           /\ n < NODE_LAST
           /\ Convertible(nm.nodeToIp[n])
           /\ \A m \in nodes : nm.nodeToIp[m] = nm.nodeToIp[n] => m = n
      /\ \A j, k \in DOMAIN nm.channels :
           Pair(nm.channels[j]) = Pair(nm.channels[k]) => j = k
      /\ \A c \in channels :
           /\ Pair(c) \subseteq nodes
           /\ c.port \in MIN_PORT .. MAX_PORT
      /\ me \in nodes

-----------------------------------------------------------------------------

(* A number of 16 bits in network byte order, on a little endian CPU: what *)
(* htons does, and what the network makes of a field of an address.        *)
Swapped(port) == (port % 256) * 256 + port \div 256

DataPort(port) == Swapped(Swapped(port))

(* send sets this port without htons. *)
NoopPort == Swapped(NOOP_PORT)

Peer(channel, me) == IF me = channel.node1 THEN channel.node2 ELSE channel.node1

(* The records of mNodeToChannel, with what their sockets are bound to.    *)
Sockets(nm, me) ==
  {[peer |-> Peer(c, me),
    ip |-> Address(nm.nodeToIp[me]), port |-> DataPort(c.port),
    toIp |-> Address(nm.nodeToIp[Peer(c, me)]), toPort |-> DataPort(c.port)] :
     c \in {nm.channels[k] : k \in {j \in DOMAIN nm.channels :
                                      me \in Pair(nm.channels[j])}}}

(* A mistake: a socket may share its port (SO_REUSEADDR). *)
BugBound(sockets) == TRUE

(* bind fails for a port that another socket of the node has.              *)
Bound(sockets) ==
  \A s, t \in sockets : s.ip = t.ip /\ s.port = t.port => s = t

NmCreated(nm, me) == NmVerified(nm, me) /\ Bound(Sockets(nm, me))

(* What a send on the channel of a socket puts into the network.           *)
Datagrams(socket) ==
  {[ip |-> socket.toIp, port |-> socket.toPort],
   [ip |-> socket.toIp, port |-> NoopPort]}
=============================================================================
