---------------------------- MODULE CaptureTable ----------------------------
(***************************************************************************)
(* The redirect table of the transparent capture service                   *)
(* (internal/tun/service_windows.go) and every goroutine that touches it:  *)
(* the socket loop, the network loop, the reaper, one serving goroutine    *)
(* per captured connection, the 15-second timers those arm, and the caller *)
(* of Start and Stop.                                                      *)
(*                                                                         *)
(* One step is what the code does while it holds mu or networkMu, or one   *)
(* blocking call.  Time is abstracted: a deadline may pass at any moment.  *)
(* Start and Stop are called one after the other, never concurrently.      *)
(***************************************************************************)
EXTENDS Naturals, FiniteSets

CONSTANTS Conn,          \* redirectConnection objects; each is created once
          NoConn,        \* an absent map entry
          LocalPort,     \* source ports of captured applications
          RedirectPort,  \* ports the operating system can give a listener
          NoPort,        \* the ports of an object not created yet
          MaxStarts,     \* bound on the number of calls of Start
          OpenMayFail    \* TRUE: WinDivertOpen may fail in a refresh

ASSUME ConnAssumption == NoConn \notin Conn /\ Conn \cap {"socket", "reaper"} = {}
ASSUME PortAssumption == NoPort \notin LocalPort \cup RedirectPort
ASSUME BoundAssumption == MaxStarts \in Nat /\ OpenMayFail \in BOOLEAN

VARIABLES
  phase,         \* where Start/Stop stand; running is phase = "running"
  connections,   \* local port -> connection, as the map of that name
  byRedirect,    \* redirect port -> connection
  localPort, redirectPort,  \* the fields of each connection
  listening,     \* connections whose listener is open
  serve,         \* state of serveReflectedConnection, per connection
  netOpen,       \* networkHandle is not 0
  networkFilter, \* the port pairs of the installed filter ({} is the idle one)
  pc,            \* control state of the threads that change the table
  snapshot,      \* the filter a thread has built and not yet installed
  regConn,       \* the connection the socket loop is registering
  reaperChan,    \* the channel the reaper's select waits on is not nil
  netLoop,       \* control state of the network loop
  starts         \* number of calls of Start

table == <<connections, byRedirect, localPort, redirectPort, listening>>
filter == <<netOpen, networkFilter, netLoop>>
threads == <<pc, snapshot, regConn, reaperChan>>
vars == <<phase, table, serve, filter, threads, starts>>

(* A thread is the socket loop, the reaper, or the timer of a connection. *)
Thread == {"socket", "reaper"} \cup Conn

(* Stop passes through mu, networkMu and the closing of the handles to wg.Wait. *)
Phase == {"stopped", "running", "unlinked", "detached", "waiting"}
running == phase = "running"

Created == {c \in Conn : localPort[c] # NoPort}
Entries == {connections[p] : p \in LocalPort} \ {NoConn}

(* Connections whose serving goroutine is counted in wg. *)
Serving == {c \in Conn : serve[c] \in {"waiting", "accepted", "tunnel"}}

(* buildNetworkFilter: one pair of ports per entry of the table. *)
BuildFilter == {<<localPort[c], redirectPort[c]>> : c \in Entries}

(* The entries reapStaleConnections removes: not accepted, and past the 45 s  *)
(* cutoff, which an entry reaches only after its 30 s accept deadline.       *)
StaleNegated == {c \in Entries : serve[c] \in {"accepted", "tunnel", "finished"}}
Stale == {c \in Entries : serve[c] = "lapsed"}

(* delete(byRedirect, conn.redirectPort) for every conn of S. *)
UnlinkForgotten(S) == byRedirect
Unlink(S) == [r \in RedirectPort |->
                IF \E c \in S : redirectPort[c] = r THEN NoConn ELSE byRedirect[r]]

-----------------------------------------------------------------------------
Init ==
  /\ phase = "stopped"
  /\ connections = [p \in LocalPort |-> NoConn]
  /\ byRedirect = [r \in RedirectPort |-> NoConn]
  /\ localPort = [c \in Conn |-> NoPort]
  /\ redirectPort = [c \in Conn |-> NoPort]
  /\ listening = {}
  /\ serve = [c \in Conn |-> "none"]
  /\ netOpen = FALSE
  /\ networkFilter = {}
  /\ pc = [t \in Thread |-> "off"]
  /\ snapshot = [t \in Thread |-> {}]
  /\ regConn = NoConn
  /\ reaperChan = FALSE
  /\ netLoop = "off"
  /\ starts = 0

(* Start: new maps, the handle with the idle filter, then the three loops.   *)
(* networkHandle is overwritten whatever it held.                            *)
Start ==
  /\ phase = "stopped"
  /\ starts < MaxStarts
  /\ starts' = starts + 1
  /\ phase' = "running"
  /\ netOpen' = TRUE
  /\ networkFilter' = {}
  /\ connections' = [p \in LocalPort |-> NoConn]
  /\ byRedirect' = [r \in RedirectPort |-> NoConn]
  /\ pc' = [pc EXCEPT !["socket"] = "check", !["reaper"] = "arm"]
  /\ netLoop' = "check"
  /\ UNCHANGED <<localPort, redirectPort, listening, serve, snapshot, regConn,
                 reaperChan>>

(* Stop, under mu: stopCh and running reset, the listener of every entry closed. *)
StopUnlink ==
  /\ running
  /\ phase' = "unlinked"
  /\ listening' = listening \ Entries
  /\ UNCHANGED <<connections, byRedirect, localPort, redirectPort, serve, filter,
                 threads, starts>>

(* Stop, under networkMu: the handle is taken out.  The network loop may     *)
(* still be reading from it.                                                 *)
StopDetach ==
  /\ phase = "unlinked"
  /\ phase' = "detached"
  /\ netOpen' = FALSE
  /\ networkFilter' = {}
  /\ netLoop' = IF netLoop = "recv" THEN "recvTaken" ELSE netLoop
  /\ UNCHANGED <<table, serve, threads, starts>>

(* Stop: stopCh and the two handles are closed. *)
StopCloseSocketOnly ==
  /\ phase = "detached"
  /\ phase' = "waiting"
  /\ UNCHANGED <<table, serve, filter, threads, starts>>
StopClose ==
  /\ phase = "detached"
  /\ phase' = "waiting"
  /\ netLoop' = IF netLoop = "recvTaken" THEN "check" ELSE netLoop
  /\ UNCHANGED <<table, serve, netOpen, networkFilter, threads, starts>>

WaitGroupLoops == pc["socket"] = "off" /\ pc["reaper"] = "off" /\ netLoop = "off"
WaitGroupZero ==
  /\ pc["socket"] = "off"
  /\ pc["reaper"] = "off"
  /\ netLoop = "off"
  /\ Serving = {}

(* Stop: wg.Wait returns and the maps become nil. *)
StopFinish ==
  /\ phase = "waiting"
  /\ WaitGroupZero
  /\ phase' = "stopped"
  /\ connections' = [p \in LocalPort |-> NoConn]
  /\ byRedirect' = [r \in RedirectPort |-> NoConn]
  /\ UNCHANGED <<localPort, redirectPort, listening, serve, filter, threads, starts>>

-----------------------------------------------------------------------------
(* The socket loop: isRunning at the top, then a blocking recv. *)
SocketCheck ==
  /\ pc["socket"] = "check"
  /\ pc' = [pc EXCEPT !["socket"] = IF running THEN "recv" ELSE "off"]
  /\ UNCHANGED <<phase, table, serve, filter, snapshot, regConn, reaperChan, starts>>

(* recv fails on the closed handle. *)
SocketExit ==
  /\ pc["socket"] = "recv"
  /\ phase = "waiting"
  /\ pc' = [pc EXCEPT !["socket"] = "off"]
  /\ UNCHANGED <<phase, table, serve, filter, snapshot, regConn, reaperChan, starts>>

(* A CONNECT event of a target application: registerConnection up to its     *)
(* unlock.  The system gives the new listener a port no open listener has.   *)
(* The event may have been received before Stop and be handled after it.     *)
Register(c, p, r) ==
  /\ pc["socket"] = "recv"
  /\ c \notin Created
  /\ \A d \in listening : redirectPort[d] # r
  /\ localPort' = [localPort EXCEPT ![c] = p]
  /\ redirectPort' = [redirectPort EXCEPT ![c] = r]
  /\ listening' = (listening \ {connections[p]}) \cup {c}
  /\ connections' = [connections EXCEPT ![p] = c]
  /\ byRedirect' = [Unlink({connections[p]} \ {NoConn}) EXCEPT ![r] = c]
  /\ regConn' = c
  /\ pc' = [pc EXCEPT !["socket"] = "build"]
  /\ UNCHANGED <<phase, serve, filter, snapshot, reaperChan, starts>>

SpawnAgain ==
  /\ pc["socket"] = "spawn"
  /\ serve' = [serve EXCEPT ![regConn] = "waiting"]
  /\ pc' = [pc EXCEPT !["socket"] = "check"]
  /\ UNCHANGED <<phase, table, regConn, filter, snapshot, reaperChan, starts>>

(* registerConnection after the refresh: wg.Add and the serving goroutine. *)
Spawn ==
  /\ pc["socket"] = "spawn"
  /\ serve' = [serve EXCEPT ![regConn] = "waiting"]
  /\ regConn' = NoConn
  /\ pc' = [pc EXCEPT !["socket"] = "check"]
  /\ UNCHANGED <<phase, table, filter, snapshot, reaperChan, starts>>

(* unregisterConnection(p), called by thread t, up to its unlock. *)
UnregisterOnlyMaps(t, p, next) ==
  LET conn == connections[p] IN
  /\ connections' = [connections EXCEPT ![p] = NoConn]
  /\ byRedirect' = Unlink({conn} \ {NoConn})
  /\ pc' = [pc EXCEPT ![t] = IF conn = NoConn THEN next ELSE "build"]
  /\ UNCHANGED <<localPort, redirectPort, listening>>
Unregister(t, p, next) ==
  LET conn == connections[p] IN
  /\ connections' = [connections EXCEPT ![p] = NoConn]
  /\ byRedirect' = Unlink({conn} \ {NoConn})
  /\ listening' = listening \ {conn}
  /\ pc' = [pc EXCEPT ![t] = IF conn = NoConn THEN next ELSE "build"]
  /\ UNCHANGED <<localPort, redirectPort>>

(* A CLOSE event. *)
SocketClose(p) ==
  /\ pc["socket"] = "recv"
  /\ Unregister("socket", p, "check")
  /\ UNCHANGED <<phase, serve, filter, snapshot, regConn, reaperChan, starts>>

(* time.AfterFunc(15 s): the timer of c unregisters by local port. *)
TimerFires(c) ==
  /\ pc[c] = "armed"
  /\ Unregister(c, localPort[c], "off")
  /\ UNCHANGED <<phase, serve, filter, snapshot, regConn, reaperChan, starts>>

-----------------------------------------------------------------------------
(* reaperLoop evaluates s.stopChannel() anew before each select; the field   *)
(* is nil once Stop has taken it.                                            *)
ReaperArm ==
  /\ pc["reaper"] = "arm"
  /\ reaperChan' = running
  /\ pc' = [pc EXCEPT !["reaper"] = "select"]
  /\ UNCHANGED <<phase, table, serve, filter, snapshot, regConn, starts>>

ReaperExit ==
  /\ pc["reaper"] = "select"
  /\ reaperChan
  /\ phase = "waiting"
  /\ pc' = [pc EXCEPT !["reaper"] = "off"]
  /\ UNCHANGED <<phase, table, serve, filter, snapshot, regConn, reaperChan, starts>>

(* reapStaleConnections on a tick: S is those that have passed the cutoff. *)
Reap(S) ==
  /\ pc["reaper"] = "select"
  /\ S \subseteq Stale
  /\ connections' = [p \in LocalPort |->
                       IF connections[p] \in S THEN NoConn ELSE connections[p]]
  /\ byRedirect' = Unlink(S)
  /\ listening' = listening \ S
  /\ pc' = [pc EXCEPT !["reaper"] = IF S = {} THEN "arm" ELSE "build"]
  /\ UNCHANGED <<phase, localPort, redirectPort, serve, filter, snapshot, regConn,
                 reaperChan, starts>>

-----------------------------------------------------------------------------
(* What a thread does once its refreshNetworkFilter has returned. *)
AfterRefreshNoSpawn(t) ==
  CASE t = "socket" -> "check" [] t = "reaper" -> "arm" [] OTHER -> "off"
AfterRefresh(t) ==
  CASE t = "socket" -> IF regConn # NoConn THEN "spawn" ELSE "check"
    [] t = "reaper" -> "arm"
    [] OTHER -> "off"

(* refreshNetworkFilter: isRunning, then the filter is built under mu. *)
Build(t) ==
  /\ pc[t] = "build"
  /\ running
  /\ snapshot' = [snapshot EXCEPT ![t] = BuildFilter]
  /\ pc' = [pc EXCEPT ![t] = "install"]
  /\ UNCHANGED <<phase, table, serve, filter, regConn, reaperChan, starts>>

SkipRefresh(t) ==
  /\ pc[t] = "build"
  /\ ~running
  /\ pc' = [pc EXCEPT ![t] = AfterRefresh(t)]
  /\ UNCHANGED <<phase, table, serve, filter, snapshot, regConn, reaperChan, starts>>

Installed(t) ==
  /\ pc' = [pc EXCEPT ![t] = AfterRefresh(t)]
  /\ snapshot' = [snapshot EXCEPT ![t] = {}]
  /\ UNCHANGED <<phase, table, serve, regConn, reaperChan, starts>>

(* refreshNetworkFilter, under networkMu: a new handle replaces the old one, *)
(* which is closed.  A map is walked in any order, so two texts of the same  *)
(* pairs may differ when there is more than one.                             *)
Install(t) ==
  /\ pc[t] = "install"
  /\ netOpen /\ snapshot[t] = networkFilter => Cardinality(networkFilter) > 1
  /\ netOpen' = TRUE
  /\ networkFilter' = snapshot[t]
  /\ netLoop' = IF netLoop = "recv" THEN "check" ELSE netLoop
  /\ Installed(t)

(* The same text is installed already, or WinDivertOpen failed. *)
KeepFilter(t) ==
  /\ pc[t] = "install"
  /\ OpenMayFail \/ (netOpen /\ snapshot[t] = networkFilter)
  /\ Installed(t)
  /\ UNCHANGED filter

-----------------------------------------------------------------------------
(* networkLoop: isRunning, read the handle, block in recv on it. *)
NetCheck ==
  /\ netLoop = "check"
  /\ netLoop' = IF running THEN "get" ELSE "off"
  /\ UNCHANGED <<phase, table, serve, netOpen, networkFilter, threads, starts>>

NetGet ==
  /\ netLoop = "get"
  /\ netLoop' = IF netOpen THEN "recv" ELSE "check"
  /\ UNCHANGED <<phase, table, serve, netOpen, networkFilter, threads, starts>>

(* A packet of a filtered connection is reflected or passed on. *)
NetPacket ==
  /\ netLoop \in {"recv", "recvTaken"}
  /\ netLoop' = "check"
  /\ UNCHANGED <<phase, table, serve, netOpen, networkFilter, threads, starts>>

-----------------------------------------------------------------------------
Served(c, from, to) ==
  /\ serve[c] = from
  /\ serve' = [serve EXCEPT ![c] = to]

(* serveReflectedConnection: the application's connection is accepted. *)
Accept(c) ==
  /\ c \in listening
  /\ Served(c, "waiting", "accepted")
  /\ UNCHANGED <<phase, table, filter, threads, starts>>

(* Accept fails: the 30 s deadline, or the listener was closed. *)
AcceptFails(c) ==
  /\ Served(c, "waiting", "lapsed")
  /\ listening' = listening \ {c}
  /\ UNCHANGED <<phase, connections, byRedirect, localPort, redirectPort, filter,
                 threads, starts>>

(* Routed to REJECT, or the dial failed: return; the entry stays. *)
Refuse(c) ==
  /\ Served(c, "accepted", "refused")
  /\ listening' = listening \ {c}
  /\ UNCHANGED <<phase, connections, byRedirect, localPort, redirectPort, filter,
                 threads, starts>>

Tunnel(c) ==
  /\ Served(c, "accepted", "tunnel")
  /\ UNCHANGED <<phase, table, filter, threads, starts>>

(* Both directions have ended: arm the timer, close the listener. *)
TunnelEnds(c) ==
  /\ Served(c, "tunnel", "finished")
  /\ listening' = listening \ {c}
  /\ pc' = [pc EXCEPT ![c] = "armed"]
  /\ UNCHANGED <<phase, connections, byRedirect, localPort, redirectPort, filter,
                 snapshot, regConn, reaperChan, starts>>

-----------------------------------------------------------------------------
Lifecycle == Start \/ StopUnlink \/ StopDetach \/ StopClose \/ StopFinish

SocketLoop ==
  \/ SocketCheck
  \/ SocketExit
  \/ \E c \in Conn, p \in LocalPort, r \in RedirectPort : Register(c, p, r)
  \/ Spawn
  \/ \E p \in LocalPort : SocketClose(p)

ReaperLoop == ReaperArm \/ ReaperExit \/ \E S \in SUBSET Conn : Reap(S)

Refresh(t) == Build(t) \/ SkipRefresh(t) \/ Install(t) \/ KeepFilter(t)

NetworkLoop == NetCheck \/ NetGet \/ NetPacket

ServeLoop(c) ==
  Accept(c) \/ AcceptFails(c) \/ Refuse(c) \/ Tunnel(c) \/ TunnelEnds(c) \/ TimerFires(c)

Next ==
  \/ Lifecycle
  \/ SocketLoop
  \/ ReaperLoop
  \/ \E t \in Thread : Refresh(t)
  \/ NetworkLoop
  \/ \E c \in Conn : ServeLoop(c)

Spec == Init /\ [][Next]_vars

(* What the Go scheduler and the timers guarantee: a goroutine that can run  *)
(* runs, a deadline passes, a tick is followed by another.  Nothing makes an *)
(* application connect, send a packet, or close.                             *)
Fairness ==
  /\ WF_vars(StopDetach) /\ WF_vars(StopClose) /\ WF_vars(StopFinish)
  /\ WF_vars(SocketCheck) /\ WF_vars(SocketExit) /\ WF_vars(Spawn)
  /\ WF_vars(ReaperArm) /\ WF_vars(ReaperExit)
  /\ \A c \in Conn : SF_vars(\E S \in SUBSET Conn : c \in S /\ Reap(S))
  /\ \A t \in Thread : WF_vars(Refresh(t))
  /\ WF_vars(NetCheck) /\ WF_vars(NetGet)
  /\ \A c \in Conn : /\ WF_vars(Accept(c) \/ AcceptFails(c))
                     /\ WF_vars(Refuse(c) \/ Tunnel(c))
                     /\ WF_vars(TimerFires(c))

FairSpec == Spec /\ Fairness

(* As FairSpec, in a world where every captured application closes its       *)
(* connections in the end and the network loop is never short of packets.    *)
QuietSpec ==
  FairSpec /\ WF_vars(NetPacket) /\ \A c \in Conn : WF_vars(TunnelEnds(c))
-----------------------------------------------------------------------------
PC == {"off", "check", "recv", "build", "install", "spawn", "arm", "select", "armed"}

TypeOK ==
  /\ phase \in Phase
  /\ connections \in [LocalPort -> Conn \cup {NoConn}]
  /\ byRedirect \in [RedirectPort -> Conn \cup {NoConn}]
  /\ localPort \in [Conn -> LocalPort \cup {NoPort}]
  /\ redirectPort \in [Conn -> RedirectPort \cup {NoPort}]
  /\ listening \subseteq Conn
  /\ serve \in [Conn -> {"none", "waiting", "accepted", "tunnel", "lapsed",
                         "refused", "finished"}]
  /\ netOpen \in BOOLEAN
  /\ pc \in [Thread -> PC]
  /\ regConn \in Conn \cup {NoConn}
  /\ reaperChan \in BOOLEAN
  /\ netLoop \in {"off", "check", "get", "recv", "recvTaken"}
  /\ starts \in 0..MaxStarts

(* Every listener that is open to the network belongs to an entry of the     *)
(* table: a connection cannot be replaced, unregistered, reaped or outlive a *)
(* Stop and leave its port accepting.  registerConnection, unregister-       *)
(* Connection, reapStaleConnections and Stop each have to close what they    *)
(* drop.                                                                     *)
ListenerRegistered ==
  \A c \in listening : c \in Created /\ connections[localPort[c]] = c

(* byRedirect never leads to a connection that has left connections, and     *)
(* leads there under that connection's own redirect port: networkLoop never  *)
(* rewrites a reply with the addresses of a dropped connection, even when    *)
(* the system gives two connections the same redirect port in turn.          *)
ReverseSound ==
  \A r \in RedirectPort : \A c \in Conn :
    byRedirect[r] = c =>
      c \in Created /\ redirectPort[c] = r /\ connections[localPort[c]] = c

(* Once Stop has returned no goroutine that uses the maps is left, so none   *)
(* writes to a nil map, and no listener is open: what wg.Wait is for.  It    *)
(* includes a connection that was being registered when Stop was called.     *)
StopQuiescent == phase = "stopped" => WaitGroupZero /\ listening = {}

(* What an application sees of its connection. *)
Life(c) ==
  CASE c \notin Created -> "new"
    [] c \in Created /\ serve[c] \in {"none", "waiting"} ->
         IF c \in listening THEN "offered" ELSE "gone"
    [] serve[c] \in {"accepted", "tunnel"} -> serve[c]
    [] OTHER -> "gone"

(* Each captured connection is offered, accepted and tunnelled at most once  *)
(* and in this order, whatever becomes of its entry meanwhile, and none is   *)
(* still served, or offered anew, between the return of a Stop and the next  *)
(* Start.                                                                    *)
Service == INSTANCE CaptureService
             WITH on <- (phase # "stopped"), life <- [c \in Conn |-> Life(c)]
ServedInOrder == Service!Spec

(* The strengthening that is inductive: an open listener has a goroutine     *)
(* that will close it, which wg counts, or the socket loop is about to start *)
(* one.                                                                      *)
ListenerOwned == \A c \in listening : c \in Serving \/ c = regConn
EntryFields == \A p \in LocalPort : connections[p] # NoConn => localPort[connections[p]] = p
ServedCreated ==
  /\ \A c \in Conn : serve[c] # "none" \/ pc[c] # "off" \/ c = regConn => c \in Created
  /\ \A c \in Conn : pc[c] \in {"off", "armed", "build", "install"}
Registering ==
  /\ regConn # NoConn => pc["socket"] \in {"build", "install", "spawn"} /\ serve[regConn] = "none"
  /\ pc["socket"] = "spawn" => regConn # NoConn
  /\ pc["reaper"] # "spawn"
IInv ==
  /\ TypeOK
  /\ EntryFields /\ ServedCreated /\ Registering
  /\ ListenerOwned /\ ListenerRegistered /\ ReverseSound
  /\ phase = "stopped" => WaitGroupZero

-----------------------------------------------------------------------------
(* Stop waits in wg.Wait for nothing but these: an application that keeps    *)
(* its tunnel open, a reaper that read the nil stopCh (reaperLoop), and a    *)
(* network loop reading from a handle a refresh opened behind Stop's back.   *)
HeldUp ==
  \/ \E c \in Conn : serve[c] = "tunnel"
  \/ pc["reaper"] = "select" /\ ~reaperChan
  \/ netLoop = "recv"
StopProgress == phase = "waiting" ~> phase = "stopped" \/ HeldUp

(* A connection nobody accepted in time does not stay in the table: the      *)
(* reaper removes it, unless a CLOSE event or a new connection of the port   *)
(* did, or Stop has got as far as waiting.                                   *)
LapsedLeaves ==
  \A c \in Conn : c \in Stale ~> c \notin Entries \/ phase = "waiting"

(* The user interface says that pausing stops the capture: Stop returns.     *)
StopReturns == phase = "waiting" ~> phase = "stopped"

(* WinDivert intercepts the TCP connections of the target applications: when *)
(* no thread is changing the table, the installed filter has every entry.    *)
FilterComplete ==
  running /\ (\A t \in Thread : pc[t] \notin {"build", "install"})
    => BuildFilter \subseteq networkFilter

(* After Stop no handle diverts packets. *)
HandleClosed == phase = "stopped" => ~netOpen

(* The replies of an accepting listener are found in byRedirect. *)
ListenerReachable == \A c \in listening : byRedirect[redirectPort[c]] = c

(* A connection being tunnelled loses its entry only through an event of its *)
(* own port or through Stop, never through the timer of an earlier one.      *)
TunnelKeepsEntry ==
  [][\A c \in Conn : running /\ c \in Entries /\ serve[c] = "tunnel" /\ c \notin Entries'
       => pc'["socket"] # pc["socket"]]_vars
=============================================================================
