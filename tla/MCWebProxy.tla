------------------------------ MODULE MCWebProxy ------------------------------
(***************************************************************************)
(* Finite instance of WebProxy: a CONNECT and a plain request, a log       *)
(* window of one or two entries.                                           *)
(***************************************************************************)
EXTENDS WebProxy

CONSTANTS c1, c2

TwoRequests == {c1, c2}
OneConnect == {c1}
OneOrTwo == {1, 2}
=============================================================================
