------------------------------- MODULE WebProxy -------------------------------
(***************************************************************************)
(* Requests through the local forward proxy (internal/proxy) and their     *)
(* entries in the traffic log (internal/logs).  A CONNECT becomes a tunnel *)
(* of two copying goroutines; its upstream connection is a TCP connection  *)
(* for DIRECT and a wrapped one, which cannot be half-closed, for PROXY.   *)
(***************************************************************************)
EXTENDS Naturals, SequencesExt

CONSTANTS Conns,      \* requests; each is made once
          Connects,   \* those whose method is CONNECT
          MaxBytes,   \* bound on what one side of a tunnel sends
          LogLimits   \* values of MaxLogEntries

ASSUME WebProxyAssumption ==
  /\ Connects \subseteq Conns /\ MaxBytes \in Nat
  /\ LogLimits # {} /\ LogLimits \subseteq Nat \ {0}

Targets == {"DIRECT", "PROXY", "REJECT"}
Dir == {"up", "down"}
Src(d) == IF d = "up" THEN "client" ELSE "upstream"
Dst(d) == IF d = "up" THEN "upstream" ELSE "client"
Other(d) == CHOOSE e \in Dir : e # d

VARIABLES
  pc,        \* where the handler of a request is
  target,    \* what the rules decided
  sent,      \* bytes each side of the tunnel has sent
  moved,     \* bytes each copy has read and written
  ended,     \* directions whose sender has ended its stream
  run,       \* copies still running
  finished,  \* directions whose receiver the proxy has told the end of the stream
  closed,    \* sides the proxy has closed
  gone,      \* sides whose peer has reset the connection
  failed,    \* a copy returned an error that counts
  all,       \* Store.all
  entries,   \* Store.entries
  max        \* Store.max

peers == <<sent, ended, gone>>
copies == <<moved, run, finished, closed, failed>>
logs == <<all, entries, max>>
vars == <<pc, target, peers, copies, logs>>

Init ==
  /\ pc = [c \in Conns |-> "new"]
  /\ target = [c \in Conns |-> "DIRECT"]
  /\ sent = [c \in Conns |-> [d \in Dir |-> 0]] /\ moved = sent
  /\ ended = [c \in Conns |-> {}] /\ run = ended /\ finished = ended
  /\ closed = ended /\ gone = ended
  /\ failed = [c \in Conns |-> FALSE]
  /\ all = << >> /\ entries = << >>
  /\ max \in LogLimits

Goto(c, l) == pc' = [pc EXCEPT ![c] = l]
Put(f, c, e) == [f EXCEPT ![c] = @ \cup {e}]

-----------------------------------------------------------------------------
(* logs.Store: all grows for ever, entries keeps the last max of them. *)
Newest(s, n) == IF Len(s) > n THEN SubSeq(s, Len(s) - n + 1, Len(s)) ELSE s

Add(e) ==
  /\ all' = Append(all, e)
  /\ entries' = Newest(Append(entries, e), max)

Updated(s, c, e) == [i \in DOMAIN s |-> IF s[i].conn = c THEN e ELSE s[i]]

UpdateWindowOnly(c, e) ==
  /\ entries' = Updated(entries, c, e)
  /\ UNCHANGED all

Update(c, e) ==
  /\ all' = Updated(all, c, e)
  /\ entries' = Updated(entries, c, e)

SetMaxOnly(n) ==
  /\ max' = n
  /\ UNCHANGED <<pc, target, peers, copies, all, entries>>

SetMax(n) ==
  /\ max' = n
  /\ entries' = Newest(entries, n)
  /\ UNCHANGED <<pc, target, peers, copies, all>>

Clear ==
  /\ all' = << >> /\ entries' = << >>
  /\ UNCHANGED <<pc, target, peers, copies, max>>

Entry(c, status, up, down) == [conn |-> c, status |-> status, up |-> up, down |-> down]

-----------------------------------------------------------------------------
(* A request arrives: the rules decide and it is logged as active. *)
Request(c, t) ==
  /\ pc[c] = "new"
  /\ target' = [target EXCEPT ![c] = t]
  /\ Add(Entry(c, "active", 0, 0))
  /\ Goto(c, IF t = "REJECT" THEN "reject" ELSE IF c \in Connects THEN "dial" ELSE "forward")
  /\ UNCHANGED <<peers, copies, max>>

(* finishLog, and the handler returns. *)
FinishLog(c, status, up, down) ==
  /\ Update(c, Entry(c, status, up, down))
  /\ Goto(c, "done")
  /\ UNCHANGED <<target, peers, max>>

Reject(c) == pc[c] = "reject" /\ FinishLog(c, "closed", 0, 0) /\ UNCHANGED copies

(* A plain HTTP request is forwarded by one client call. *)
Forwarded(c) ==
  /\ pc[c] = "forward"
  /\ \E status \in {"closed", "error"}, up, down \in 0..MaxBytes : FinishLog(c, status, up, down)
  /\ UNCHANGED copies

(* CONNECT: hijacking fails, or the dial does and the client is closed...    *)
DialFails(c) ==
  /\ pc[c] = "dial"
  /\ FinishLog(c, "error", 0, 0)
  /\ closed' \in {closed, Put(closed, c, "client")}
  /\ UNCHANGED <<moved, run, finished, failed>>

(* ...or two goroutines copy.                                                *)
TunnelOpens(c) ==
  /\ pc[c] = "dial"
  /\ Goto(c, "tunnel")
  /\ run' = [run EXCEPT ![c] = Dir]
  /\ UNCHANGED <<target, peers, moved, finished, closed, failed, logs>>

Usable(c, side) == side \notin closed[c] \cup gone[c]

CopyMoves(c, d) ==
  /\ d \in run[c] /\ moved[c][d] < sent[c][d]
  /\ Usable(c, Src(d)) /\ Usable(c, Dst(d))
  /\ moved' = [moved EXCEPT ![c][d] = @ + 1]
  /\ UNCHANGED <<pc, target, peers, run, finished, closed, failed, logs>>

(* The end of copyTunnel: the receiver is told the end of the stream, by     *)
(* closing the connection when it cannot be half-closed.                     *)
ClosesWhole(c, d) ==
  /\ run' = [run EXCEPT ![c] = @ \ {d}]
  /\ finished' = Put(finished, c, d)
  /\ closed' = Put(closed, c, Dst(d))
ForgetsClose(c, d) ==
  /\ run' = [run EXCEPT ![c] = @ \ {d}]
  /\ UNCHANGED <<finished, closed>>
CopyCloses(c, d) ==
  /\ run' = [run EXCEPT ![c] = @ \ {d}]
  /\ finished' = Put(finished, c, d)
  /\ closed' = IF d = "up" /\ target[c] = "PROXY" THEN Put(closed, c, "upstream") ELSE closed

CopyEnds(c, d) ==
  /\ d \in run[c] /\ d \in ended[c] /\ moved[c][d] = sent[c][d]
  /\ Usable(c, Src(d))
  /\ CopyCloses(c, d)
  /\ UNCHANGED <<pc, target, peers, moved, failed, logs>>

(* Reading or writing fails.  A connection closed here is no error of the    *)
(* tunnel; nor is a reset by its peer, where the system's text for it says   *)
(* "closed".                                                                 *)
CopyFails(c, d) ==
  /\ d \in run[c]
  /\ \/ ~Usable(c, Src(d))
     \/ ~Usable(c, Dst(d)) /\ moved[c][d] < sent[c][d]
  /\ \/ UNCHANGED failed
     \/ /\ (gone[c] \ closed[c]) \cap {Src(d), Dst(d)} # {}
        /\ failed' = [failed EXCEPT ![c] = TRUE]
  /\ CopyCloses(c, d)
  /\ UNCHANGED <<pc, target, peers, moved, logs>>

(* Both copies have returned.  What the upstream side sent is counted as the *)
(* upload.                                                                   *)
OneReturned(c) == run[c] # Dir
BothReturned(c) == run[c] = {}

Finish(c) ==
  /\ pc[c] = "tunnel" /\ BothReturned(c)
  /\ closed' = [closed EXCEPT ![c] = {"client", "upstream"}]
  /\ FinishLog(c, IF failed[c] THEN "error" ELSE "closed", moved[c]["down"], moved[c]["up"])
  /\ UNCHANGED <<moved, run, finished, failed>>

-----------------------------------------------------------------------------
(* The two peers of a tunnel. *)
PeerSends(c, d) ==
  /\ pc[c] = "tunnel" /\ Usable(c, Src(d))
  /\ d \notin ended[c] /\ sent[c][d] < MaxBytes
  /\ sent' = [sent EXCEPT ![c][d] = @ + 1]
  /\ UNCHANGED <<pc, target, ended, gone, copies, logs>>

PeerEnds(c, d) ==
  /\ pc[c] = "tunnel" /\ Usable(c, Src(d))
  /\ d \notin ended[c]
  /\ ended' = Put(ended, c, d)
  /\ UNCHANGED <<pc, target, sent, gone, copies, logs>>

PeerResets(c, side) ==
  /\ pc[c] = "tunnel" /\ Usable(c, side)
  /\ gone' = Put(gone, c, side)
  /\ UNCHANGED <<pc, target, sent, ended, copies, logs>>

Handler(c) ==
  \/ Reject(c) \/ Forwarded(c) \/ DialFails(c) \/ TunnelOpens(c) \/ Finish(c)

Copy(c, d) == CopyMoves(c, d) \/ CopyEnds(c, d) \/ CopyFails(c, d)

Next ==
  \/ \E c \in Conns :
       \/ \E t \in Targets : Request(c, t)
       \/ Handler(c)
       \/ \E d \in Dir : Copy(c, d) \/ PeerSends(c, d) \/ PeerEnds(c, d)
       \/ \E side \in {"client", "upstream"} : PeerResets(c, side)
  \/ \E n \in LogLimits : SetMax(n)
  \/ Clear

Spec == Init /\ [][Next]_vars

(* Handlers and goroutines run; a peer that has been told the end of the     *)
(* other's stream ends its own.                                              *)
FairSpec ==
  /\ Spec
  /\ \A c \in Conns :
       /\ WF_vars(Handler(c))
       /\ \A d \in Dir : WF_vars(Copy(c, d)) /\ WF_vars(d \in finished[c] /\ PeerEnds(c, Other(d)))

-----------------------------------------------------------------------------
TypeOK ==
  /\ pc \in [Conns -> {"new", "reject", "forward", "dial", "tunnel", "done"}]
  /\ target \in [Conns -> Targets]
  /\ sent \in [Conns -> [Dir -> 0..MaxBytes]] /\ moved \in [Conns -> [Dir -> 0..MaxBytes]]
  /\ ended \in [Conns -> SUBSET Dir] /\ run \in [Conns -> SUBSET Dir] /\ finished \in [Conns -> SUBSET Dir]
  /\ closed \in [Conns -> SUBSET {"client", "upstream"}] /\ gone \in [Conns -> SUBSET {"client", "upstream"}]
  /\ \A i \in DOMAIN all : all[i].conn \in Conns /\ all[i].status \in {"active", "closed", "error"}
  /\ Len(entries) <= max

(* The list in the window is the end of the full log that is exported: no    *)
(* entry is missing from either, and both say the same of it, whatever is    *)
(* added, finished, cut off and cleared meanwhile.                           *)
WindowIsTail == IsSuffix(entries, all)

(* The number of active connections does not drift: an entry is active just  *)
(* as long as its request is served, and a request that is not holds neither *)
(* a goroutine nor a connection.                                             *)
ActiveIsHeld ==
  \A i \in DOMAIN all :
    LET c == all[i].conn
    IN  /\ all[i].status = "active" <=> pc[c] # "done"
        /\ pc[c] = "done" => run[c] = {} /\ (finished[c] # {} => closed[c] = {"client", "upstream"})

(* A peer that ends its own stream still gets everything the other one sends *)
(* after it, on a tunnel that goes out directly and that nobody resets.      *)
DirectDelivers ==
  \A c \in Conns :
    pc[c] = "done" /\ target[c] = "DIRECT" /\ gone[c] = {} => moved[c] = sent[c]

(* A tunnel does not outlive its two streams: when one side has ended, the   *)
(* other is told, and the handler returns.                                   *)
TunnelEnds == \A c \in Conns : (pc[c] = "tunnel" /\ ended[c] # {}) ~> pc[c] = "done"
=============================================================================
