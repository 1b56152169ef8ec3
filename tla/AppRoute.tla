------------------------------ MODULE AppRoute ------------------------------
(***************************************************************************)
(* One captured connection after its accept: serveReflectedConnection of   *)
(* internal/tun/service_windows.go reads the application's first bytes,    *)
(* finds the host they name (internal/tun/app_routing.go), decides where   *)
(* the connection goes, dials and copies both ways.                        *)
(*                                                                         *)
(* Bytes come in units, the pieces in which the network delivers them.     *)
(* What the rules say of a host or an address is a constant: RuleList      *)
(* models the rules.  The connection's place in the redirect table, whose  *)
(* states accepted, refused, tunnel and finished are the stages here, is   *)
(* CaptureTable's.                                                         *)
(***************************************************************************)
EXTENDS Naturals, SequencesExt

CONSTANTS Payloads,    \* what the application may send
          Units,       \* pieces of a byte stream
          HostPieces,  \* the units that carry (a part of) the host's name
          Modes,       \* routing modes of the application's profile
          HostTarget,  \* the rules' target for a host
          CidrTargets, \* targets of the IP-CIDR rule the remote address meets
          NoCidr,      \* one of them: it meets none
          Limit,       \* units read at most to find the host (16 KiB)
          MaxBack      \* bound on the units the remote sends

Targets == {"PROXY", "DIRECT", "REJECT"}

(* kind is what the bytes are, head the units of the first TLS record or of  *)
(* the HTTP header block.                                                    *)
ASSUME PayloadAssumption ==
  \A p \in Payloads :
    /\ p.kind \in {"tls", "http", "other"}
    /\ p.units \in Seq(Units) /\ p.units # << >> /\ p.head \in 1..Len(p.units)
ASSUME RuleAssumption ==
  /\ CidrTargets \subseteq Targets \cup {NoCidr} /\ NoCidr \notin Targets
ASSUME BoundAssumption == Limit \in Nat \ {0} /\ MaxBack \in Nat

VARIABLES
  payload,          \* what this connection carries
  mode, cidr,       \* its profile's mode, and the rules' word on its address
  sent, appEnd,     \* units the application has sent; it has ended its stream
  stage,            \* sniff, dial, tunnel, refused, finished
  wrapped,          \* the upstream connection is not a *net.TCPConn (SOCKS5)
  deadline,         \* the read deadline of the application's connection is set
  taken,            \* units read from the application's connection
  host, target,     \* the decision
  up, down,         \* the two pipes: off, prefix, copy, done
  passed,           \* units written to the remote
  upEnd,            \* the remote has been told the end of the stream
  answered, remoteEnd,  \* units the remote has sent; it has ended its stream
  returned,         \* units written to the application
  downEnd,          \* the application has been told the end of the stream
  broken            \* ends whose connection was reset

given == <<payload, mode, cidr>>
ends == <<sent, appEnd, answered, remoteEnd, broken>>
pipes == <<up, down, passed, upEnd, returned, downEnd>>
vars == <<given, ends, stage, wrapped, deadline, taken, host, target, pipes>>

-----------------------------------------------------------------------------
NoHost == << >>

(* The pieces of the host among the first n units, each at its place. *)
NamedIn(p, n) == Restrict(p.units, {i \in 1..n : p.units[i] \in HostPieces})
WholeHost(p) == IF p.kind = "other" THEN NoHost ELSE NamedIn(p, p.head)

ASSUME HostTargetAssumption ==
  \A p \in Payloads : \A n \in 1..Len(p.units) :
    NamedIn(p, n) # NoHost => HostTarget[NamedIn(p, n)] \in Targets

(* detectHostFromInitialPayload on the first n units.  A TLS hello is read   *)
(* only when its record is complete, an HTTP header line even when it is     *)
(* cut short.                                                                *)
DetectUnchecked(p, n) == NamedIn(p, IF n < p.head THEN n ELSE p.head)
DetectTLSServerName(p, n) == IF n < p.head THEN NoHost ELSE NamedIn(p, p.head)
DetectHTTPHost(p, n) == NamedIn(p, IF n < p.head THEN n ELSE p.head)
DetectHost(p, n) ==
  CASE p.kind = "tls" -> DetectTLSServerName(p, n)
    [] p.kind = "http" -> DetectHTTPHost(p, n)
    [] OTHER -> NoHost

(* decideAppRoute: a forcing mode, then the rules for the host, then an      *)
(* IP-CIDR rule for the address, then the mode's fallback.                   *)
FallbackTarget(m) == IF m = "RULES_DIRECT_FALLBACK" THEN "DIRECT" ELSE "PROXY"
Forcing == {"FORCE_DIRECT", "FORCE_PROXY"}
DecideAppRoute(h, c, m) ==
  CASE m = "FORCE_DIRECT" -> "DIRECT"
    [] m = "FORCE_PROXY" -> "PROXY"
    [] m \notin Forcing /\ h # NoHost -> HostTarget[h]
    [] m \notin Forcing /\ h = NoHost /\ c # NoCidr -> c
    [] OTHER -> FallbackTarget(m)

-----------------------------------------------------------------------------
Init ==
  /\ payload \in Payloads /\ mode \in Modes /\ cidr \in CidrTargets
  /\ sent = 0 /\ appEnd = FALSE
  /\ stage = "sniff" /\ wrapped = FALSE /\ deadline = TRUE
  /\ taken = 0 /\ host = NoHost /\ target = "none"
  /\ up = "off" /\ down = "off" /\ passed = << >> /\ upEnd = FALSE
  /\ answered = 0 /\ remoteEnd = FALSE /\ returned = 0 /\ downEnd = FALSE
  /\ broken = {}

(* The two ends, which do as they like. *)
Send ==
  /\ "app" \notin broken /\ ~appEnd /\ sent < Len(payload.units)
  /\ sent' = sent + 1
  /\ UNCHANGED <<appEnd, answered, remoteEnd, broken>>
EndApp ==
  /\ "app" \notin broken /\ ~appEnd /\ appEnd' = TRUE
  /\ UNCHANGED <<sent, answered, remoteEnd, broken>>
Answer ==
  /\ stage = "tunnel" /\ "remote" \notin broken
  /\ ~remoteEnd /\ answered < MaxBack
  /\ answered' = answered + 1
  /\ UNCHANGED <<sent, appEnd, remoteEnd, broken>>
EndRemote ==
  /\ stage = "tunnel" /\ "remote" \notin broken /\ ~remoteEnd /\ remoteEnd' = TRUE
  /\ UNCHANGED <<sent, appEnd, answered, broken>>
Reset(end) ==
  /\ end = "app" \/ stage = "tunnel"
  /\ broken' = broken \cup {end}
  /\ UNCHANGED <<sent, appEnd, answered, remoteEnd>>

Ends ==
  /\ stage \notin {"refused", "finished"}
  /\ Send \/ EndApp \/ Answer \/ EndRemote \/ \E end \in {"app", "remote"} : Reset(end)
  /\ UNCHANGED <<given, stage, wrapped, deadline, taken, host, target, pipes>>

-----------------------------------------------------------------------------
(* captureInitialPayload returns with n units: its deadline is taken back    *)
(* and the route decided.                                                    *)
DecideKeepingDeadline(n) ==
  LET h == DetectHost(payload, n)
      to == DecideAppRoute(h, cidr, mode)
  IN  /\ host' = h /\ target' = to
      /\ stage' = IF to = "REJECT" THEN "refused" ELSE "dial"
      /\ UNCHANGED deadline
Decide(n) ==
  LET h == DetectHost(payload, n)
      to == DecideAppRoute(h, cidr, mode)
  IN  /\ host' = h /\ target' = to
      /\ stage' = IF to = "REJECT" THEN "refused" ELSE "dial"
      /\ deadline' = FALSE

(* One Read of its loop, which ends with a host found or the buffer full. *)
SniffedEnough(n) == DetectHost(payload, n) # NoHost \/ n = Limit
SniffedOnce(n) == TRUE
SniffRead ==
  /\ stage = "sniff" /\ "app" \notin broken
  /\ \E n \in (taken + 1)..sent :
       /\ n <= Limit /\ taken' = n
       /\ IF SniffedEnough(n) THEN Decide(n) ELSE UNCHANGED <<stage, deadline, host, target>>
  /\ UNCHANGED <<given, ends, wrapped, pipes>>

(* Read fails: the deadline of 1.2 s, the end of the stream, or a reset. *)
ReadFailsAtEnd == "app" \in broken \/ (appEnd /\ taken = sent)
ReadFails == deadline \/ "app" \in broken \/ (appEnd /\ taken = sent)
SniffFails ==
  /\ stage = "sniff" /\ ReadFails
  /\ Decide(taken)
  /\ UNCHANGED <<given, ends, wrapped, taken, pipes>>

(* dialByTarget, within 12 s. *)
DialFails ==
  /\ stage = "dial" /\ stage' = "refused"
  /\ UNCHANGED <<given, ends, wrapped, deadline, taken, host, target, pipes>>
Dial ==
  /\ stage = "dial" /\ stage' = "tunnel"
  /\ wrapped' \in (IF target = "DIRECT" THEN {FALSE} ELSE BOOLEAN)
  /\ up' = "prefix" /\ down' = "copy"
  /\ UNCHANGED <<given, ends, deadline, taken, host, target,
                 passed, upEnd, returned, downEnd>>

-----------------------------------------------------------------------------
(* pipe(upstreamConn, prefix, appConn): what was read to find the host goes  *)
(* first.  A failing write ends it without a word to the remote.             *)
WritePrefixForgotten ==
  /\ up = "prefix" /\ up' = "copy"
  /\ UNCHANGED <<passed, upEnd, taken>>
WritePrefix ==
  /\ up = "prefix"
  /\ \/ /\ "remote" \notin broken \/ taken = 0
        /\ passed' = SubSeq(payload.units, 1, taken)
        /\ up' = "copy"
     \/ /\ "remote" \in broken /\ taken > 0
        /\ up' = "done" /\ UNCHANGED passed
  /\ UNCHANGED <<upEnd, taken>>

CopyUp ==
  /\ up = "copy" /\ taken < sent /\ broken = {}
  /\ taken' = taken + 1
  /\ passed' = Append(passed, payload.units[taken + 1])
  /\ UNCHANGED <<up, upEnd>>

(* io.Copy returns: the end of the stream, a deadline, or an error on either *)
(* side, of which the remote's shows on the next write.  Then CloseWrite, or *)
(* Close where there is none.                                                *)
EndUpAtEnd ==
  /\ up = "copy" /\ ReadFails
  /\ up' = "done" /\ upEnd' = TRUE
  /\ UNCHANGED <<taken, passed>>
EndUp ==
  /\ up = "copy"
  /\ ReadFails \/ ("remote" \in broken /\ taken < sent)
  /\ up' = "done" /\ upEnd' = TRUE
  /\ UNCHANGED <<taken, passed>>

UpstreamClosed == wrapped /\ upEnd

(* pipe(appConn, nil, upstreamConn). *)
CopyDown ==
  /\ down = "copy" /\ returned < answered /\ broken = {} /\ ~UpstreamClosed
  /\ returned' = returned + 1
  /\ UNCHANGED <<down, downEnd>>
EndDown ==
  /\ down = "copy"
  /\ \/ remoteEnd /\ returned = answered
     \/ "remote" \in broken \/ UpstreamClosed
     \/ "app" \in broken /\ returned < answered
  /\ down' = "done" /\ downEnd' = TRUE
  /\ UNCHANGED returned

PipeUp ==
  /\ stage = "tunnel"
  /\ WritePrefix \/ CopyUp \/ EndUp
  /\ UNCHANGED <<given, ends, stage, wrapped, deadline, host, target, down, returned, downEnd>>
PipeDown ==
  /\ stage = "tunnel"
  /\ CopyDown \/ EndDown
  /\ UNCHANGED <<given, ends, stage, wrapped, deadline, taken, host, target, up, passed, upEnd>>

(* wg.Wait returns, both connections are closed, the timer of CaptureTable   *)
(* is armed.                                                                 *)
Finish ==
  /\ stage = "tunnel" /\ up = "done" /\ down = "done"
  /\ stage' = "finished"
  /\ UNCHANGED <<given, ends, wrapped, deadline, taken, host, target, pipes>>

Next == Ends \/ SniffRead \/ SniffFails \/ DialFails \/ Dial \/ PipeUp \/ PipeDown \/ Finish

Spec == Init /\ [][Next]_vars

(* The goroutines run, deadlines pass, a dial ends.  Nothing makes an end    *)
(* send, close or break.                                                     *)
Fairness ==
  /\ WF_vars(SniffRead \/ SniffFails) /\ WF_vars(DialFails \/ Dial)
  /\ WF_vars(PipeUp) /\ WF_vars(PipeDown) /\ WF_vars(Finish)
FairSpec == Spec /\ Fairness

-----------------------------------------------------------------------------
TypeOK ==
  /\ payload \in Payloads /\ mode \in Modes /\ cidr \in CidrTargets
  /\ sent \in 0..Len(payload.units) /\ appEnd \in BOOLEAN
  /\ stage \in {"sniff", "dial", "tunnel", "refused", "finished"}
  /\ wrapped \in BOOLEAN /\ deadline \in BOOLEAN
  /\ taken \in 0..sent
  /\ host \in {NamedIn(payload, n) : n \in 0..Len(payload.units)} /\ target \in Targets \cup {"none"}
  /\ up \in {"off", "prefix", "copy", "done"} /\ down \in {"off", "copy", "done"}
  /\ Len(passed) <= taken /\ upEnd \in BOOLEAN
  /\ answered \in 0..MaxBack /\ remoteEnd \in BOOLEAN
  /\ returned \in 0..answered /\ downEnd \in BOOLEAN
  /\ broken \subseteq {"app", "remote"}

(* The strengthening the proofs need: what has been passed on is what was    *)
(* read from the application, the deadline is that of the reading for the    *)
(* host, and nothing is passed on before the dial.                           *)
PassedIsTaken ==
  /\ up \in {"off", "prefix"} => passed = << >>
  /\ up = "copy" => passed = SubSeq(payload.units, 1, taken)
  /\ stage \in {"sniff", "dial"} => up = "off" /\ down = "off"
  /\ stage # "sniff" => ~deadline
  /\ down = "off" => ~downEnd

(* The remote gets what the application sent, from its first byte and in     *)
(* order: the bytes read to find the host are neither lost nor repeated.     *)
SentInOrder == passed = SubSeq(payload.units, 1, Len(passed))

(* However the network cuts a TLS hello, or an HTTP header with the host in  *)
(* one piece, the name found is the whole one; it is found if the hello has  *)
(* been read, and then the rules for it decide unless the profile forces.    *)
InOnePiece(p) == p.kind # "http" \/ \A i, j \in DOMAIN WholeHost(p) : i = j
HelloDecides ==
  InOnePiece(payload) =>
    /\ host \in {NoHost, WholeHost(payload)}
    /\ stage = "dial" /\ taken >= payload.head => host = WholeHost(payload)
    /\ host # NoHost /\ mode \notin Forcing => target = HostTarget[WholeHost(payload)]

(* As HelloDecides, for a host cut in two in an HTTP header too. *)
HostIsWhole == host \in {NoHost, WholeHost(payload)}

(* An end is told that the other's stream has ended only when it has: the    *)
(* deadline that ended the reading for the host does not end the tunnel.     *)
(* Through a SOCKS5 upstream the application is told so by its own end.      *)
EndsAreReal ==
  /\ upEnd => appEnd \/ broken # {}
  /\ downEnd => remoteEnd \/ broken # {} \/ UpstreamClosed

(* No application keeps a connection undecided, even one that waits for the  *)
(* server to speak first.                                                    *)
Settles == stage = "sniff" ~> stage \in {"refused", "tunnel", "finished"}

(* A tunnel whose ends have both ended, or whose remote broke, is finished.  *)
Finishes ==
  stage = "tunnel" /\ appEnd /\ (remoteEnd \/ "remote" \in broken) ~> stage = "finished"
=============================================================================
