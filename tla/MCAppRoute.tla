----------------------------- MODULE MCAppRoute -----------------------------
(* Finite instance of AppRoute: a remote address with and without an        *)
(* IP-CIDR rule, all modes, and six first payloads.                          *)
EXTENDS AppRoute, TLC

FirstBytes(kind, units, head) == [kind |-> kind, units |-> units, head |-> head]

(* A hello in two pieces and data after it; one longer than is read; one     *)
(* without a name; a header in one piece; one cut within the host; bytes of  *)
(* another protocol.                                                         *)
SixPayloads ==
  {FirstBytes("tls", <<"git", "hub.com", "data">>, 2),
   FirstBytes("tls", <<"long", "git", "hub.com">>, 3),
   FirstBytes("tls", <<"hello", "data">>, 1),
   FirstBytes("http", <<"GET", "github.com", "body">>, 2),
   FirstBytes("http", <<"git", "hub.com">>, 2),
   FirstBytes("other", <<"data", "data">>, 1)}

AllUnits == {"git", "hub.com", "github.com", "GET", "body", "long", "hello", "data"}
Pieces == {"git", "hub.com", "github.com"}
Verdicts == (1 :> "git") :> "REJECT"
            @@ (2 :> "git") :> "REJECT"
            @@ (1 :> "git" @@ 2 :> "hub.com") :> "DIRECT"
            @@ (2 :> "git" @@ 3 :> "hub.com") :> "DIRECT"
            @@ (2 :> "github.com") :> "PROXY"
FiveModes == {"", "RULES_PROXY_FALLBACK", "RULES_DIRECT_FALLBACK"} \cup Forcing
CidrOrNot == {"REJECT", "none"}
=============================================================================
