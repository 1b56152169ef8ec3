---------------------------- MODULE PacketReflect ----------------------------
(***************************************************************************)
(* What the network loop (internal/tun/service_windows.go) does to a       *)
(* packet it has read: an application's packet is turned into one that     *)
(* arrives from the remote at the connection's listener, the listener's    *)
(* answer into one that arrives from the remote at the application, and    *)
(* anything else is passed on as it is.                                    *)
(*                                                                         *)
(* The packets in flight are not kept: Reflect is the answer of the loop   *)
(* to a packet in a state of the redirect table.  Checksums, counters and  *)
(* the interface a packet is sent on are left out.                         *)
(***************************************************************************)
EXTENDS CaptureTable

CONSTANTS localAddr, remoteAddr, remotePort  \* the fields a connection is created with

ASSUME EndpointAssumption ==
  DOMAIN localAddr = Conn /\ DOMAIN remoteAddr = Conn /\ DOMAIN remotePort = Conn

(* The part of ipv4TCPPacket that is read or rewritten, whether it is one    *)
(* (parseIPv4TCPPacket), and WinDivert's flag for the direction.             *)
Packet(src, srcPort, dst, dstPort, outbound) ==
  [src |-> src, srcPort |-> srcPort, dst |-> dst, dstPort |-> dstPort,
   outbound |-> outbound, tcp |-> TRUE]

connectionByRedirect(port) == IF port \in RedirectPort THEN byRedirect[port] ELSE NoConn
connectionByLocal(port) == IF port \in LocalPort THEN connections[port] ELSE NoConn

(* Only packets to the remote end of the connection found are rewritten. *)
GoesTo(conn, packet) ==
  conn # NoConn /\ remotePort[conn] = packet.dstPort /\ remoteAddr[conn] = packet.dst

ReverseReflectToSender(conn, packet) ==
  Packet(remoteAddr[conn], remotePort[conn], packet.src, packet.srcPort, FALSE)
ReverseReflect(conn, packet) ==
  Packet(remoteAddr[conn], remotePort[conn], localAddr[conn], localPort[conn], FALSE)

ForwardReflect(conn, packet) ==
  Packet(remoteAddr[conn], remotePort[conn], packet.src, redirectPort[conn], FALSE)

(* The reverse map is looked up first. *)
Reflect(packet) ==
  LET answering == connectionByRedirect(packet.srcPort)
      sending == connectionByLocal(packet.srcPort)
  IN  CASE packet.tcp /\ GoesTo(answering, packet) -> ReverseReflect(answering, packet)
        [] packet.tcp /\ ~GoesTo(answering, packet) /\ GoesTo(sending, packet) ->
             ForwardReflect(sending, packet)
        [] OTHER -> packet

-----------------------------------------------------------------------------
(* What the application of c sends, and what an end sends back. *)
AppPacket(c) == Packet(localAddr[c], localPort[c], remoteAddr[c], remotePort[c], TRUE)
AnswerTo(packet) == Packet(packet.dst, packet.dstPort, packet.src, packet.srcPort, TRUE)
Arriving(packet) == Packet(packet.src, packet.srcPort, packet.dst, packet.dstPort, FALSE)

(* The system has not given the application the redirect port of an entry    *)
(* whose listener is closed, or the listener a captured application's port.  *)
PortsApart(c) ==
  /\ connectionByRedirect(localPort[c]) = NoConn
  /\ connectionByLocal(redirectPort[c]) = NoConn

(* While its listener is open a connection's packets reach that listener and *)
(* no other, seemingly from the remote, and what the listener answers comes  *)
(* to that application as the remote's answer or is not rewritten at all: a  *)
(* port the system gives to two connections in turn never crosses them.  The *)
(* answer is not rewritten when removing the first of the two has taken the  *)
(* reverse entry of the second along (unregisterConnection).                 *)
NotCrossed ==
  \A c \in listening : PortsApart(c) =>
    LET seen == Reflect(AppPacket(c))
    IN  /\ seen = Packet(remoteAddr[c], remotePort[c], localAddr[c], redirectPort[c], FALSE)
        /\ Reflect(AnswerTo(seen)) \in {Arriving(AnswerTo(AppPacket(c))), AnswerTo(seen)}

(* As NotCrossed, with the answer always rewritten. *)
RoundTrip ==
  \A c \in listening : PortsApart(c) =>
    Reflect(AnswerTo(Reflect(AppPacket(c)))) = Arriving(AnswerTo(AppPacket(c)))

(* The strengthening the proof needs: the reverse entry of an open           *)
(* listener's port is its own or missing.                                    *)
ReverseOwned ==
  \A c \in listening :
    redirectPort[c] \in RedirectPort /\ byRedirect[redirectPort[c]] \in {c, NoConn}
=============================================================================
