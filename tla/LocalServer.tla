----------------------------- MODULE LocalServer -----------------------------
(***************************************************************************)
(* The life of a local server, the PAC server or the forward proxy: the    *)
(* Start and Stop of internal/pac and internal/proxy and the calls of      *)
(* app.go around them.  The two are built alike and are one here.          *)
(*                                                                         *)
(* Nothing locks these calls: the window and the ownership guard run them  *)
(* at the same time.  A Server object is made anew whenever the settings   *)
(* or a stop replace it; the goroutine that serves a listener asks its     *)
(* object for the http.Server only when it first runs.                     *)
(***************************************************************************)
EXTENDS Naturals, Sequences

CONSTANTS Callers,    \* "ui" and perhaps "guard"
          Addresses,  \* listen addresses the settings may name
          MaxCalls,   \* bound on the calls
          MaxDrifts   \* bound on the imports and failing saves among them

ASSUME LocalServerAssumption ==
  /\ Callers \subseteq {"ui", "guard"} /\ "ui" \in Callers
  /\ Addresses # {} /\ MaxCalls \in Nat /\ MaxDrifts \in Nat

VARIABLES
  cfg,       \* the configured address
  running,   \* App.pacRunning or App.proxyRunning
  objs,      \* the Server objects made so far; the last one is the App's
  https,     \* the http.Servers made so far: TRUE once shut down
  socks,     \* the listening sockets opened so far
  pc,        \* where each caller is
  mine,      \* the Server object a caller works on
  restart,   \* the window is inside SaveSettings and will start the service again
  timedOut,  \* history: the last stop gave up waiting for a request
  drifted,   \* history: "address" if a failing save changed the address alone,
             \* "object" if an import replaced the object of a running service
  calls, drifts

bounds == <<calls, drifts>>
vars == <<cfg, running, objs, https, socks, pc, mine, restart, timedOut, drifted, bounds>>

NewServer(a) == [addr |-> a, http |-> 0, listener |-> 0]
Current == Len(objs)
Open(a) == \E i \in DOMAIN socks : socks[i].open /\ socks[i].addr = a
Serving(a) == \E i \in DOMAIN socks : socks[i].open /\ socks[i].addr = a /\ socks[i].http # 0

Goto(c, l) == pc' = [pc EXCEPT ![c] = l]

Init ==
  /\ cfg \in Addresses
  /\ running = FALSE
  /\ objs = <<NewServer(cfg)>>
  /\ https = << >> /\ socks = << >>
  /\ pc = [c \in Callers |-> "idle"]
  /\ mine = [c \in Callers |-> 1]
  /\ restart = FALSE /\ timedOut = FALSE /\ drifted = "no"
  /\ calls = 0 /\ drifts = 0

-----------------------------------------------------------------------------
(* http.Server.Shutdown: the listeners it serves are closed. *)
Shut(h) ==
  /\ https' = [https EXCEPT ![h] = TRUE]
  /\ socks' = [i \in DOMAIN socks |->
                 IF socks[i].http = h THEN [socks[i] EXCEPT !.open = FALSE] ELSE socks[i]]

(* Server.Stop does nothing without a listener of its own. *)
StopServer(o) ==
  IF objs[o].listener = 0
  THEN UNCHANGED <<https, socks>>
  ELSE Shut(objs[o].http)

Forget(o) == [objs EXCEPT ![o].listener = 0]

(* Start: a probe that passes is all there is to do when the service runs;   *)
(* one that fails, or times out, has the old server replaced.                *)
StartFinds(c) ==
  /\ pc[c] = "start" /\ running /\ Open(cfg)
  /\ Goto(c, "idle")
  /\ UNCHANGED <<cfg, running, objs, https, socks, mine, restart, timedOut, drifted, bounds>>

ResetKeepsListener(c) ==
  /\ pc[c] = "start" /\ running
  /\ objs' = Append(objs, NewServer(cfg))
  /\ running' = FALSE
  /\ mine' = [mine EXCEPT ![c] = Len(objs')]
  /\ Goto(c, "make")
  /\ UNCHANGED <<cfg, https, socks, restart, timedOut, drifted, bounds>>

StartResets(c) ==
  /\ pc[c] = "start" /\ running
  /\ StopServer(Current)
  /\ objs' = Append(Forget(Current), NewServer(cfg))
  /\ running' = FALSE
  /\ mine' = [mine EXCEPT ![c] = Len(objs')]
  /\ Goto(c, "make")
  /\ UNCHANGED <<cfg, restart, timedOut, drifted, bounds>>

StartBegins(c) ==
  /\ pc[c] = "start" /\ ~running
  /\ mine' = [mine EXCEPT ![c] = Current]
  /\ Goto(c, "make")
  /\ UNCHANGED <<cfg, running, objs, https, socks, restart, timedOut, drifted, bounds>>

(* Server.Start sets its http.Server before it listens. *)
MakeHttp(c) ==
  /\ pc[c] = "make"
  /\ https' = Append(https, FALSE)
  /\ objs' = [objs EXCEPT ![mine[c]].http = Len(https')]
  /\ Goto(c, "listen")
  /\ UNCHANGED <<cfg, running, socks, mine, restart, timedOut, drifted, bounds>>

(* It cannot while a socket of PRM's is there, and may fail on its own: the  *)
(* port is another program's, the address is no address.                     *)
Listen(c) ==
  /\ pc[c] = "listen"
  /\ LET o == mine[c] IN
       \/ /\ Goto(c, "idle")
          /\ UNCHANGED <<objs, socks>>
       \/ /\ ~Open(objs[o].addr)
          /\ socks' = Append(socks, [addr |-> objs[o].addr, obj |-> o, open |-> TRUE, http |-> 0])
          /\ objs' = [objs EXCEPT ![o].listener = Len(socks')]
          /\ Goto(c, "mark")
  /\ UNCHANGED <<cfg, running, https, mine, restart, timedOut, drifted, bounds>>

(* The goroutine of a listener: Serve closes it when its server is shut.     *)
Serve(i) ==
  /\ socks[i].open /\ socks[i].http = 0
  /\ LET h == objs[socks[i].obj].http IN
       socks' = [socks EXCEPT ![i].http = h, ![i].open = ~https[h]]
  /\ UNCHANGED <<cfg, running, objs, https, pc, mine, restart, timedOut, drifted, bounds>>

StartReturns(c) ==
  /\ pc[c] = "mark"
  /\ running' = TRUE
  /\ timedOut' = FALSE
  /\ Goto(c, "idle")
  /\ UNCHANGED <<cfg, objs, https, socks, mine, restart, drifted, bounds>>

-----------------------------------------------------------------------------
Leave(c) == Goto(c, IF c = "ui" /\ restart THEN "rebuild" ELSE "idle")

(* Stop closes the listener, waits for the requests under way and forgets it. *)
StopCloses(c) ==
  /\ pc[c] = "stop"
  /\ mine' = [mine EXCEPT ![c] = Current]
  /\ StopServer(Current)
  /\ Goto(c, IF objs[Current].listener = 0 THEN "drop" ELSE "wait")
  /\ UNCHANGED <<cfg, running, objs, restart, timedOut, drifted, bounds>>

StopWaits(c) ==
  /\ pc[c] = "wait"
  /\ objs' = Forget(mine[c])
  /\ Goto(c, "drop")
  /\ UNCHANGED <<cfg, running, https, socks, mine, restart, timedOut, drifted, bounds>>

(* It may give up after three seconds, with an error. *)
StopTimesOut(c) ==
  /\ pc[c] = "wait"
  /\ objs' = Forget(mine[c])
  /\ timedOut' = TRUE
  /\ Leave(c)
  /\ UNCHANGED <<cfg, running, https, socks, mine, restart, drifted, bounds>>

StopReturns(c) ==
  /\ pc[c] = "drop"
  /\ objs' = Append(objs, NewServer(cfg))
  /\ running' = FALSE
  /\ Leave(c)
  /\ UNCHANGED <<cfg, https, socks, mine, restart, timedOut, drifted, bounds>>

(* SaveSettings: rebuildServices, and a start if the service ran before. *)
Rebuild(c) ==
  /\ pc[c] = "rebuild"
  /\ objs' = Append(objs, NewServer(cfg))
  /\ restart' = FALSE
  /\ Goto(c, IF restart THEN "start" ELSE "idle")
  /\ UNCHANGED <<cfg, running, https, socks, mine, timedOut, drifted, bounds>>

-----------------------------------------------------------------------------
Call(c) == pc[c] = "idle" /\ calls < MaxCalls /\ calls' = calls + 1

CallStart(c) ==
  /\ Call(c)
  /\ Goto(c, "start")
  /\ UNCHANGED <<cfg, running, objs, https, socks, mine, restart, timedOut, drifted, drifts>>

CallStop ==
  /\ Call("ui")
  /\ running
  /\ Goto("ui", "stop")
  /\ UNCHANGED <<cfg, running, objs, https, socks, mine, restart, timedOut, drifted, drifts>>

SaveWithoutRestart(a) ==
  /\ Call("ui")
  /\ cfg' = a
  /\ restart' = FALSE
  /\ Goto("ui", "rebuild")
  /\ UNCHANGED <<running, objs, https, socks, mine, timedOut, drifted, drifts>>

SaveSettings(a) ==
  /\ Call("ui")
  /\ cfg' = a
  /\ restart' = running
  /\ Goto("ui", IF running THEN "stop" ELSE "rebuild")
  /\ UNCHANGED <<running, objs, https, socks, mine, timedOut, drifted, drifts>>

(* SaveSettings gives up when the file cannot be written, with the new       *)
(* address in use already.                                                   *)
Drift(a) ==
  /\ Call("ui")
  /\ drifts < MaxDrifts /\ drifts' = drifts + 1
  /\ cfg' = a
  /\ UNCHANGED <<running, https, socks, pc, mine, restart, timedOut>>

SaveFails(a) ==
  /\ Drift(a)
  /\ drifted' = IF drifted = "no" THEN "address" ELSE drifted
  /\ UNCHANGED objs

(* ImportConfig rebuilds the services and stops nothing. *)
ImportConfig(a) ==
  /\ Drift(a)
  /\ drifted' = IF running THEN "object" ELSE drifted
  /\ objs' = Append(objs, NewServer(a))

Next ==
  \/ \E c \in Callers :
       \/ CallStart(c) \/ StartFinds(c) \/ StartResets(c) \/ StartBegins(c)
       \/ MakeHttp(c) \/ Listen(c) \/ StartReturns(c)
       \/ StopCloses(c) \/ StopWaits(c) \/ StopTimesOut(c) \/ StopReturns(c) \/ Rebuild(c)
  \/ \E i \in DOMAIN socks : Serve(i)
  \/ CallStop
  \/ \E a \in Addresses : SaveSettings(a) \/ SaveFails(a) \/ ImportConfig(a)

Spec == Init /\ [][Next]_vars

-----------------------------------------------------------------------------
Quiet ==
  /\ \A c \in Callers : pc[c] = "idle"
  /\ \A i \in DOMAIN socks : socks[i].open => socks[i].http # 0

TypeOK ==
  /\ cfg \in Addresses /\ running \in BOOLEAN /\ restart \in BOOLEAN
  /\ drifted \in {"no", "address", "object"}
  /\ \A o \in DOMAIN objs :
       objs[o].addr \in Addresses /\ objs[o].http \in 0..Len(https) /\ objs[o].listener \in 0..Len(socks)
  /\ \A i \in DOMAIN socks :
       /\ socks[i].addr \in Addresses /\ socks[i].open \in BOOLEAN
       /\ socks[i].obj \in DOMAIN objs /\ socks[i].http \in 0..Len(https)
  /\ pc \in [Callers -> {"idle", "start", "make", "listen", "mark", "stop", "wait", "drop", "rebuild"}]
  /\ mine \in [Callers -> DOMAIN objs]

(* A service shown as running answers at the address in the settings, the    *)
(* one the PAC file and the browsers use, whatever restarts, resets and      *)
(* changes of address went before.                                           *)
ServesConfigured == Quiet /\ running /\ ~timedOut /\ drifted = "no" => Serving(cfg)

(* A service shown as stopped listens nowhere: nothing of it is left that no *)
(* later call can stop.                                                      *)
StoppedIsClosed ==
  Quiet /\ ~running /\ drifted # "object" => \A i \in DOMAIN socks : ~socks[i].open
=============================================================================
