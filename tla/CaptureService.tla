--------------------------- MODULE CaptureService ---------------------------
(***************************************************************************)
(* What the transparent capture (internal/tun) promises of each connection *)
(* it takes over: it is offered to the application on a listener of its    *)
(* own, accepted, tunnelled, and gone, each at most once and in this       *)
(* order, and none is left when the service has stopped.  How connections  *)
(* are found and kept is left open; CaptureTable implements it.            *)
(***************************************************************************)
CONSTANT Conn

VARIABLES on,   \* the service runs, or is still stopping
          life  \* "new", "offered", "accepted", "tunnel" or "gone"

abstractVars == <<on, life>>

Init == on = FALSE /\ life = [c \in Conn |-> "new"]

Started == ~on /\ on' = TRUE /\ UNCHANGED life

(* Stop returns: no connection is left to anybody. *)
Stopped ==
  /\ on /\ \A c \in Conn : life[c] \in {"new", "gone"}
  /\ on' = FALSE /\ UNCHANGED life

(* Connections that nobody has accepted may be given up at any time. *)
Offered == {c \in Conn : life[c] = "offered"}
Without(S) == [c \in Conn |-> IF c \in S THEN "gone" ELSE life[c]]

Drop(S) == on /\ S \subseteq Offered /\ life' = Without(S) /\ UNCHANGED on

Offer(c, S) ==
  /\ on /\ life[c] = "new" /\ S \subseteq Offered
  /\ life' = [Without(S) EXCEPT ![c] = "offered"]
  /\ UNCHANGED on

Goes(c, from, to) ==
  /\ on /\ life[c] \in from
  /\ life' = [life EXCEPT ![c] = to]
  /\ UNCHANGED on

Next ==
  \/ Started \/ Stopped
  \/ \E S \in SUBSET Conn : Drop(S) \/ \E c \in Conn : Offer(c, S)
  \/ \E c \in Conn : \/ Goes(c, {"offered"}, "accepted")
                     \/ Goes(c, {"accepted"}, "tunnel")
                     \/ Goes(c, {"accepted", "tunnel"}, "gone")

Spec == Init /\ [][Next]_abstractVars
=============================================================================
