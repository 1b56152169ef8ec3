--------------------------- MODULE MCCaptureTable ---------------------------
(* Finite instances of CaptureTable and PacketReflect for TLC. *)
EXTENDS PacketReflect, TLC

(* Connections and ports are interchangeable. *)
Symmetry ==
  Permutations(Conn) \cup Permutations(LocalPort) \cup Permutations(RedirectPort)

(* Every connection goes to one server: addresses tell none of them apart. *)
SameLocal == [c \in Conn |-> "here"]
SameRemote == [c \in Conn |-> "server"]
SamePort == [c \in Conn |-> "https"]
=============================================================================
