----------------------------- MODULE MCAppCalls -----------------------------
(* Finite instance of AppCalls: one server, two adapters, three policies:   *)
(* nothing; a guard, and routes without an adapter; a guard whose programs  *)
(* are to be found, and routes to a node that is named and one that is not. *)
EXTENDS AppCalls, TLC

CONSTANTS lan, wifi, node, other

TwoAddresses == {"18089", "28089"}
Window == {"ui"}

Off == [guard |-> FALSE, programs |-> {}, allowed |-> NoAdapter,
        route |-> FALSE, named |-> FALSE, targets |-> {}]
Policies ==
  {Off,
   [Off EXCEPT !.guard = TRUE, !.programs = Program, !.allowed = lan, !.route = TRUE],
   [Off EXCEPT !.guard = TRUE, !.allowed = wifi,
               !.route = TRUE, !.named = TRUE, !.targets = {node}]}

AddressOf(s) == IF s.allowed = wifi THEN "28089" ELSE "18089"

Symmetric == Permutations(Program) \cup Permutations(Gateway)
=============================================================================
