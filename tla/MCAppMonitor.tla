----------------------------- MODULE MCAppMonitor -----------------------------
(* Finite instance of AppMonitor: two applications with a connection each. *)
EXTENDS AppMonitor

CONSTANTS k1, k2, a1, a2

TwoKeys == {k1, k2}
TwoApps == {a1, a2}
OneEach == [k \in TwoKeys |-> IF k = k1 THEN a1 ELSE a2]
=============================================================================
