--------------------------- MODULE AppRoute_proofs ---------------------------
(* Proofs about one captured connection, for any first bytes, any rules, any *)
(* mode and any cutting by the network.                                      *)
EXTENDS AppRoute, TLAPS

Counts ==
  /\ payload \in Payloads
  /\ sent \in 0..Len(payload.units) /\ taken \in 0..sent
  /\ up \in {"off", "prefix", "copy", "done"}
  /\ stage \in {"sniff", "dial", "tunnel", "refused", "finished"}
  /\ broken \subseteq {"app", "remote"}

RouteInv == Counts /\ PassedIsTaken /\ SentInOrder /\ EndsAreReal

LEMMA UnitsSeq == ASSUME payload \in Payloads PROVE payload.units \in Seq(Units)
  BY PayloadAssumption

(* What is passed on, and one unit more, is what was sent, and one more. *)
LEMMA OneMore ==
  ASSUME NEW u \in Seq(Units), NEW n \in Nat, n < Len(u)
  PROVE  /\ Append(SubSeq(u, 1, n), u[n + 1]) = SubSeq(u, 1, n + 1)
         /\ Len(SubSeq(u, 1, n)) = n /\ Len(SubSeq(u, 1, n + 1)) = n + 1
  OBVIOUS

LEMMA Whole ==
  ASSUME NEW u \in Seq(Units), NEW n \in Nat, n <= Len(u)
  PROVE  Len(SubSeq(u, 1, n)) = n
  OBVIOUS

LEMMA InitRoute == Init => RouteInv
  <1> SUFFICES ASSUME Init PROVE RouteInv
    OBVIOUS
  <1>1. Counts
    <2>1. payload.units \in Seq(Units)
      BY UnitsSeq DEF Init
    <2> QED
      BY <2>1 DEF Init, Counts
  <1>2. PassedIsTaken /\ EndsAreReal
    BY DEF Init, PassedIsTaken, EndsAreReal
  <1>3. SentInOrder
    <2>1. payload.units \in Seq(Units)
      BY UnitsSeq DEF Init
    <2>2. SubSeq(payload.units, 1, 0) = << >>
      BY <2>1
    <2> QED
      BY <2>2 DEF Init, SentInOrder
  <1> QED
    BY <1>1, <1>2, <1>3 DEF RouteInv

(* The ends only send more, end, or break. *)
LEMMA EndsStep == RouteInv /\ Ends => RouteInv'
  <1> SUFFICES ASSUME RouteInv, Ends PROVE RouteInv'
    OBVIOUS
  <1>0. payload' = payload /\ payload.units \in Seq(Units)
    BY UnitsSeq DEF RouteInv, Counts, Ends, given
  <1>1. Counts'
    <2>1. sent' \in 0..Len(payload.units) /\ sent' >= sent
      BY <1>0 DEF RouteInv, Counts, Ends, Send, EndApp, Answer, EndRemote, Reset
    <2>2. broken' \subseteq {"app", "remote"}
      BY DEF RouteInv, Counts, Ends, Send, EndApp, Answer, EndRemote, Reset
    <2> QED
      BY <1>0, <2>1, <2>2 DEF RouteInv, Counts, Ends, pipes
  <1>2. PassedIsTaken' /\ SentInOrder'
    BY <1>0 DEF RouteInv, PassedIsTaken, SentInOrder, Ends, pipes
  <1>3. EndsAreReal'
    <2>1. /\ appEnd => appEnd'
          /\ remoteEnd => remoteEnd'
          /\ broken \subseteq broken'
      BY DEF Ends, Send, EndApp, Answer, EndRemote, Reset
    <2> QED
      BY <2>1 DEF RouteInv, EndsAreReal, UpstreamClosed, Ends, pipes
  <1> QED
    BY <1>1, <1>2, <1>3 DEF RouteInv

(* Reading for the host, deciding and dialling pass nothing on. *)
LEMMA DecideStep ==
  RouteInv /\ (SniffRead \/ SniffFails \/ DialFails \/ Dial) => RouteInv'
  <1> SUFFICES ASSUME RouteInv, SniffRead \/ SniffFails \/ DialFails \/ Dial PROVE RouteInv'
    OBVIOUS
  <1>0. payload' = payload /\ payload.units \in Seq(Units)
    BY UnitsSeq DEF RouteInv, Counts, SniffRead, SniffFails, DialFails, Dial, given
  <1>1. CASE SniffRead
    <2>1. Counts'
      BY <1>0, <1>1 DEF RouteInv, Counts, SniffRead, Decide, ends, pipes
    <2>2. PassedIsTaken' /\ SentInOrder' /\ EndsAreReal'
      BY <1>0, <1>1 DEF RouteInv, Counts, PassedIsTaken, SentInOrder, EndsAreReal, UpstreamClosed,
                        SniffRead, Decide, ends, pipes
    <2> QED
      BY <2>1, <2>2 DEF RouteInv
  <1>2. CASE SniffFails
    <2>1. Counts'
      BY <1>0, <1>2 DEF RouteInv, Counts, SniffFails, Decide, ends, pipes
    <2>2. PassedIsTaken' /\ SentInOrder' /\ EndsAreReal'
      BY <1>0, <1>2 DEF RouteInv, Counts, PassedIsTaken, SentInOrder, EndsAreReal, UpstreamClosed,
                        SniffFails, Decide, ends, pipes
    <2> QED
      BY <2>1, <2>2 DEF RouteInv
  <1>3. CASE DialFails
    BY <1>0, <1>3 DEF RouteInv, Counts, PassedIsTaken, SentInOrder, EndsAreReal, UpstreamClosed,
                      DialFails, ends, pipes
  <1>4. CASE Dial
    <2>1. Counts'
      BY <1>0, <1>4 DEF RouteInv, Counts, Dial, ends
    <2>2. PassedIsTaken' /\ SentInOrder'
      BY <1>0, <1>4 DEF RouteInv, PassedIsTaken, SentInOrder, Dial
    <2>3. EndsAreReal'
      BY <1>4 DEF RouteInv, PassedIsTaken, EndsAreReal, UpstreamClosed, Dial, ends
    <2> QED
      BY <2>1, <2>2, <2>3 DEF RouteInv
  <1> QED
    BY <1>1, <1>2, <1>3, <1>4

LEMMA PipeUpStep == RouteInv /\ PipeUp => RouteInv'
  <1> SUFFICES ASSUME RouteInv, PipeUp PROVE RouteInv'
    OBVIOUS
  <1>0. /\ payload' = payload /\ payload.units \in Seq(Units)
        /\ taken \in Nat /\ taken <= Len(payload.units)
    BY UnitsSeq DEF RouteInv, Counts, PipeUp, given
  <1>1. CASE WritePrefix
    <2>1. Counts' /\ EndsAreReal'
      BY <1>0, <1>1 DEF RouteInv, Counts, EndsAreReal, UpstreamClosed, PipeUp, WritePrefix, ends
    <2>2. PassedIsTaken'
      BY <1>0, <1>1 DEF RouteInv, PassedIsTaken, PipeUp, WritePrefix
    <2>3. SentInOrder'
      BY <1>0, <1>1, Whole DEF RouteInv, PassedIsTaken, SentInOrder, PipeUp, WritePrefix
    <2> QED
      BY <2>1, <2>2, <2>3 DEF RouteInv
  <1>2. CASE CopyUp
    <2>0. taken < Len(payload.units)
      BY <1>0, <1>2 DEF RouteInv, Counts, CopyUp
    <2>1. Counts' /\ EndsAreReal'
      BY <1>0, <1>2 DEF RouteInv, Counts, EndsAreReal, UpstreamClosed, PipeUp, CopyUp, ends
    <2>2. passed' = SubSeq(payload.units, 1, taken')
      BY <1>0, <1>2, <2>0, OneMore DEF RouteInv, PassedIsTaken, CopyUp
    <2>3. PassedIsTaken'
      BY <1>0, <1>2, <2>2 DEF RouteInv, PassedIsTaken, PipeUp, CopyUp
    <2>4. SentInOrder'
      BY <1>0, <1>2, <2>0, <2>2, OneMore DEF SentInOrder, CopyUp
    <2> QED
      BY <2>1, <2>3, <2>4 DEF RouteInv
  <1>3. CASE EndUp
    <2>1. Counts' /\ PassedIsTaken' /\ SentInOrder'
      BY <1>0, <1>3 DEF RouteInv, Counts, PassedIsTaken, SentInOrder, PipeUp, EndUp, ends
    <2>2. EndsAreReal'
      BY <1>3 DEF RouteInv, PassedIsTaken, EndsAreReal, UpstreamClosed, PipeUp, EndUp, ReadFails, ends
    <2> QED
      BY <2>1, <2>2 DEF RouteInv
  <1> QED
    BY <1>1, <1>2, <1>3 DEF PipeUp

LEMMA RouteStep == RouteInv /\ [Next]_vars => RouteInv'
  <1> SUFFICES ASSUME RouteInv, [Next]_vars PROVE RouteInv'
    OBVIOUS
  <1>1. CASE PipeDown
    <2>1. Counts' /\ PassedIsTaken' /\ SentInOrder'
      BY <1>1 DEF RouteInv, Counts, PassedIsTaken, SentInOrder, PipeDown, CopyDown, EndDown,
                  given, ends
    <2>2. EndsAreReal'
      BY <1>1 DEF RouteInv, Counts, EndsAreReal, UpstreamClosed, PipeDown, CopyDown, EndDown, ends
    <2> QED
      BY <2>1, <2>2 DEF RouteInv
  <1>2. CASE Finish
    BY <1>2 DEF RouteInv, Counts, PassedIsTaken, SentInOrder, EndsAreReal, UpstreamClosed,
                Finish, given, ends, pipes
  <1>3. CASE UNCHANGED vars
    BY <1>3 DEF RouteInv, Counts, PassedIsTaken, SentInOrder, EndsAreReal, UpstreamClosed,
                vars, given, ends, pipes
  <1> QED
    BY <1>1, <1>2, <1>3, EndsStep, DecideStep, PipeUpStep DEF Next

LEMMA RouteInvariance == Spec => []RouteInv
  BY InitRoute, RouteStep, PTL DEF Spec

(* The remote gets what the application sent, from the first byte, in order. *)
THEOREM NothingLost == Spec => []SentInOrder
  <1>1. RouteInv => SentInOrder
    BY DEF RouteInv
  <1> QED
    BY <1>1, RouteInvariance, PTL

(* An end of stream is passed on only when there was one. *)
THEOREM OnlyRealEnds == Spec => []EndsAreReal
  <1>1. RouteInv => EndsAreReal
    BY DEF RouteInv
  <1> QED
    BY <1>1, RouteInvariance, PTL

-----------------------------------------------------------------------------
(* The decision: taken once, on what had been read by then. *)
Decided ==
  IF stage = "sniff" THEN host = NoHost
  ELSE \E n \in 0..Len(payload.units) :
         /\ host = DetectHost(payload, n) /\ target = DecideAppRoute(host, cidr, mode)
         /\ stage = "dial" => n = taken

DecisionInv == payload \in Payloads /\ taken \in 0..Len(payload.units) /\ Decided

(* The name found in a part of the host's header or hello is no other than   *)
(* the whole one, and with all of it the whole one is found.                 *)
LEMMA NoPartOfName ==
  ASSUME NEW p \in Payloads, InOnePiece(p), NEW n \in 0..Len(p.units)
  PROVE  /\ DetectHost(p, n) \in {NoHost, WholeHost(p)}
         /\ n >= p.head => DetectHost(p, n) = WholeHost(p)
<1>1. /\ p.kind \in {"tls", "http", "other"} /\ p.head \in 1..Len(p.units)
      /\ p.units \in Seq(Units) /\ Len(p.units) \in Nat
  BY PayloadAssumption
<1> DEFINE m == IF n < p.head THEN n ELSE p.head
<1>2. CASE p.kind = "tls"
  BY <1>1, <1>2 DEF DetectHost, DetectTLSServerName, WholeHost
<1>3. CASE p.kind = "other"
  BY <1>1, <1>3 DEF DetectHost, WholeHost
<1>4. CASE p.kind = "http"
  <2>1. DetectHost(p, n) = NamedIn(p, m) /\ WholeHost(p) = NamedIn(p, p.head)
    BY <1>4 DEF DetectHost, DetectHTTPHost, WholeHost
  <2>2. m \in 0..p.head /\ (n >= p.head => m = p.head)
    BY <1>1
  <2> DEFINE D == {i \in 1..m : p.units[i] \in HostPieces}
             W == {i \in 1..p.head : p.units[i] \in HostPieces}
  <2>3. NamedIn(p, m) = [i \in D |-> p.units[i]] /\ NamedIn(p, p.head) = [i \in W |-> p.units[i]]
    BY DEF NamedIn, Restrict
  <2>4. \A i, j \in W : i = j
    BY <2>1, <2>3, <1>4 DEF InOnePiece
  <2>5. D \subseteq W
    BY <2>2, <1>1
  <2>6. D = {} \/ D = W
    BY <2>4, <2>5
  <2>7. D = {} => NamedIn(p, m) = NoHost
    <3>1. [i \in {} |-> p.units[i]] = << >>
      OBVIOUS
    <3> QED
      BY <2>3, <3>1 DEF NoHost
  <2>8. D = W => NamedIn(p, m) = NamedIn(p, p.head)
    BY <2>3
  <2> QED
    BY <2>1, <2>2, <2>6, <2>7, <2>8
<1> QED
  BY <1>1, <1>2, <1>3, <1>4

LEMMA DecisionInit == Init => DecisionInv
<1> SUFFICES ASSUME Init PROVE DecisionInv
  OBVIOUS
<1>1. Len(payload.units) \in Nat
  BY UnitsSeq DEF Init
<1> QED
  BY <1>1 DEF Init, DecisionInv, Decided

LEMMA DecisionStep == DecisionInv /\ RouteInv /\ [Next]_vars => DecisionInv'
<1> SUFFICES ASSUME DecisionInv, RouteInv, [Next]_vars PROVE DecisionInv'
  OBVIOUS
<1>0. Len(payload.units) \in Nat /\ sent \in 0..Len(payload.units) /\ taken \in 0..sent
  BY UnitsSeq DEF RouteInv, Counts
<1>1. CASE Ends
  BY <1>1 DEF DecisionInv, Decided, Ends, given
<1>2. CASE SniffRead
  BY <1>0, <1>2 DEF DecisionInv, Decided, SniffRead, SniffedEnough, Decide, given, ends
<1>3. CASE SniffFails
  BY <1>0, <1>3 DEF DecisionInv, Decided, SniffFails, Decide, given, ends
<1>4. CASE DialFails \/ Dial
  BY <1>0, <1>4 DEF DecisionInv, Decided, DialFails, Dial, given, ends
<1>5. CASE PipeUp
  <2>1. taken' \in 0..Len(payload.units)
    BY <1>0, <1>5 DEF PipeUp, WritePrefix, CopyUp, EndUp
  <2> QED
    BY <2>1, <1>5 DEF DecisionInv, Decided, PipeUp, given
<1>6. CASE PipeDown \/ Finish
  BY <1>6 DEF DecisionInv, Decided, PipeDown, Finish, given
<1>7. CASE UNCHANGED vars
  BY <1>7 DEF DecisionInv, Decided, vars, given
<1> QED
  BY <1>1, <1>2, <1>3, <1>4, <1>5, <1>6, <1>7 DEF Next

LEMMA DecisionInvariance == Spec => [](RouteInv /\ DecisionInv)
BY InitRoute, RouteStep, DecisionInit, DecisionStep, PTL DEF Spec

(* However the network cuts the first bytes, a TLS hello and a header with   *)
(* its host in one piece are decided on the whole name or on none, and on    *)
(* the name if they were read; then the rules for it have the last word.     *)
THEOREM WholeNameDecides == Spec => []HelloDecides
<1>1. DecisionInv => HelloDecides
  <2> SUFFICES ASSUME DecisionInv, InOnePiece(payload) PROVE HelloDecides!2
    BY DEF HelloDecides
  <2>1. CASE stage = "sniff"
    BY <2>1 DEF DecisionInv, Decided
  <2>2. CASE stage # "sniff"
    <3>1. PICK n \in 0..Len(payload.units) :
            /\ host = DetectHost(payload, n) /\ target = DecideAppRoute(host, cidr, mode)
            /\ stage = "dial" => n = taken
      BY <2>2 DEF DecisionInv, Decided
    <3>2. /\ host \in {NoHost, WholeHost(payload)}
          /\ stage = "dial" /\ taken >= payload.head => host = WholeHost(payload)
      BY <3>1, NoPartOfName DEF DecisionInv
    <3>3. host # NoHost /\ mode \notin Forcing => target = HostTarget[host]
      BY <3>1, Zenon DEF DecideAppRoute, Forcing
    <3> QED
      BY <3>2, <3>3
  <2> QED
    BY <2>1, <2>2
<1> QED
  BY <1>1, DecisionInvariance, PTL
=============================================================================
