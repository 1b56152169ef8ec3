------------------------------ MODULE AppCalls ------------------------------
(***************************************************************************)
(* The calls of the window as the App carries them out (app.go), on a      *)
(* local server (LocalServer) and on what is set up in Windows (Outbound). *)
(* A call works on both in turn: SaveSettings restarts the servers, then   *)
(* sets the firewall, then the routes, and returns at the first error; the *)
(* pause goes through everything whatever fails.                           *)
(***************************************************************************)
EXTENDS LocalServer

CONSTANTS Adapter, NoAdapter, Program, Target, Gateway, NoGateway, Settings, MaxStuck, MaxCrashes,
          AddressIn(_)  \* the listen address in a set of settings

VARIABLES policy, up, call, todo, failed, returned, script, rules, shown, routes, known, lost, stuckRules,
          stuckRoutes, crashes

Out == INSTANCE Outbound
outside == <<policy, up, call, todo, failed, returned, script, rules, shown, routes, known, lost,
             stuckRules, stuckRoutes, crashes>>
servers == <<cfg, running, objs, https, socks, pc, mine, restart, timedOut, drifted>>

ASSUME AppCallsAssumption ==
  /\ Callers = {"ui"}
  /\ \A s \in Settings : AddressIn(s) \in Addresses
  /\ Out!OutboundConstants

AppInit == Init /\ Out!Init /\ cfg = AddressIn(policy)

-----------------------------------------------------------------------------
StartService == CallStart("ui") /\ Out!OtherCall
StopService == CallStop /\ Out!OtherCall

SaveAll(s) == SaveSettings(AddressIn(s)) /\ Out!SaveSettings(s)
SaveAllFails(s) == SaveFails(AddressIn(s)) /\ Out!SaveFails(s)
ImportAll(s) == ImportConfig(AddressIn(s)) /\ Out!ImportConfig(s)

(* A call that leaves the servers alone. *)
Elsewhere == Call("ui") /\ UNCHANGED <<servers, drifts>>

PauseTrafficRouting ==
  /\ (running /\ CallStop) \/ (~running /\ Elsewhere)
  /\ Out!PauseTrafficRouting

OutsideCall ==
  /\ Elsewhere
  /\ Out!RefreshStatus \/ Out!Shutdown \/ \E a \in Adapter : Out!SetNetworkAdapterEnabled(a)

WindowCalls ==
  \/ StartService \/ StopService \/ PauseTrafficRouting \/ OutsideCall
  \/ \E s \in Settings : SaveAll(s) \/ SaveAllFails(s) \/ ImportAll(s)

-----------------------------------------------------------------------------
(* The servers' part of a call.  A start that fails ends a SaveSettings, a   *)
(* stop that gives up is noted by the pause and ignored by SaveSettings.     *)
StartEnds ==
  /\ Listen("ui")
  /\ IF pc'["ui"] = "idle" /\ call = "save" THEN Out!StartFails ELSE UNCHANGED outside

StopGivesUp ==
  /\ StopTimesOut("ui")
  /\ IF call = "pause" THEN Out!StopFails ELSE UNCHANGED outside

ServerSteps ==
  \/ StartEnds \/ StopGivesUp
  \/ /\ \/ StartFinds("ui") \/ StartResets("ui") \/ StartBegins("ui") \/ MakeHttp("ui")
        \/ StartReturns("ui") \/ StopCloses("ui") \/ StopWaits("ui") \/ StopReturns("ui")
        \/ Rebuild("ui") \/ \E i \in DOMAIN socks : Serve(i)
     /\ UNCHANGED outside

(* The call goes on outside when the servers' part is done. *)
OutsideSteps == pc["ui"] = "idle" /\ Out!Steps /\ UNCHANGED <<servers, bounds>>

(* SaveSettings ends when EnableSystemPac does, before the steps outside. *)
PacFails == pc["ui"] = "idle" /\ Out!StartFails /\ UNCHANGED <<servers, bounds>>

-----------------------------------------------------------------------------
(* The program ends, and its sockets with it, and is started again. *)
ServersRestart ==
  /\ cfg' \in IF drifted = "no" THEN {cfg} ELSE Addresses
  /\ running' = FALSE
  /\ objs' = <<NewServer(cfg')>>
  /\ https' = << >> /\ socks' = << >>
  /\ pc' = [c \in Callers |-> "idle"]
  /\ mine' = [c \in Callers |-> 1]
  /\ restart' = FALSE /\ timedOut' = FALSE /\ drifted' = "no"
  /\ UNCHANGED bounds

(* The settings in the file are those in memory unless a save has failed, of *)
(* the settings or of the programs found.                                    *)
FileHas(s) == drifted # "no" \/ s = policy \/ s = [policy EXCEPT !.programs = {}]

AppRestart ==
  /\ ServersRestart
  /\ (pc["ui"] = "idle" /\ Out!Exit) \/ Out!Crash
  /\ FileHas(policy')

AppNext == WindowCalls \/ ServerSteps \/ OutsideSteps \/ PacFails \/ AppRestart

AppSpec == AppInit /\ [][AppNext]_<<vars, outside>>

-----------------------------------------------------------------------------
(* What stands in Windows is what the calls of Outbound alone make of it:    *)
(* the App does every step of a call, in order, and no step twice.           *)
OutsideIsOutbound == Out!Spec

(* Every route of PRM's in the system's table is one the next reconcile      *)
(* removes, save those it has forgotten: by a removal cut short, a crash, or *)
(* a removal whose failure the script passes over.                           *)
RoutesKnown == Out!RoutesKnown

(* A guard shown as applied keeps each program it counts off the adapters it *)
(* counts, and no rule is beside these but those its script could not remove *)
(* and passed over, whatever scripts have failed before.                     *)
GuardShownIsReal == Out!GuardShownIsReal

(* A call that returned no error has done what it was asked to: saved        *)
(* settings are in force in the firewall and the routes, and after a pause   *)
(* the server is stopped and no rule or route is left.  Excepted are just    *)
(* the old rules and routes whose removal failed without an error.           *)
ReturnedIsDone == Out!ReturnedIsDone /\ (returned = "pause" => ~running)

(* What makes the last part inductive: where a pause finds the server, and   *)
(* that only SaveSettings stops it to start it again.                        *)
PauseSoFar ==
  /\ pc \in [Callers -> {"idle", "start", "make", "listen", "mark", "stop", "wait", "drop", "rebuild"}]
  /\ restart => pc["ui"] \in {"stop", "wait", "drop", "rebuild"}
  /\ call = "pause" => ~restart /\ pc["ui"] \in {"idle", "stop", "wait", "drop"}
  /\ call = "pause" /\ pc["ui"] = "idle" /\ ~failed => ~running
  /\ returned = "pause" => pc["ui"] = "idle" /\ ~running

(* The same for the servers, as one caller leaves them: a socket that stays  *)
(* open is the listener of the App's own object, and is there while the      *)
(* service runs.                                                             *)
Live(i) == socks[i].open /\ ~https[objs[socks[i].obj].http]
Listens(o) ==
  LET l == objs[o].listener
  IN  l \in DOMAIN socks /\ socks[l].obj = o /\ socks[l].addr = objs[o].addr /\ Live(l)

ServerTypes ==
  /\ cfg \in Addresses /\ running \in BOOLEAN /\ timedOut \in BOOLEAN
  /\ drifted \in {"no", "address", "object"} /\ mine \in [Callers -> Nat]
  /\ https \in Seq(BOOLEAN)
  /\ objs \in Seq([addr : Addresses, http : Nat, listener : Nat]) /\ Current # 0
  /\ socks \in Seq([addr : Addresses, obj : Nat, open : BOOLEAN, http : Nat])
  /\ \A o \in DOMAIN objs : objs[o].http \in 0..Len(https)
  /\ \A i \in DOMAIN socks : socks[i].obj \in DOMAIN objs

ServedByTheirOwn ==
  \A i \in DOMAIN socks : socks[i].open =>
    /\ objs[socks[i].obj].http # 0
    /\ socks[i].http # 0 => socks[i].http = objs[socks[i].obj].http /\ Live(i)

OnlyTheCurrent ==
  drifted # "object" => \A i \in DOMAIN socks :
    Live(i) => /\ socks[i].obj = Current /\ objs[Current].listener = i
               /\ (running /\ pc["ui"] \notin {"wait", "drop", "rebuild"}) \/ pc["ui"] = "mark"

CurrentIsUsed ==
  /\ pc["ui"] \in {"make", "listen", "mark", "wait"} => mine["ui"] = Current
  /\ pc["ui"] \in {"make", "listen", "mark"} => ~running
  /\ pc["ui"] \in {"listen", "mark"} => objs[Current].http # 0 /\ ~https[objs[Current].http]
  /\ pc["ui"] = "mark" => Listens(Current)
  /\ ~running /\ pc["ui"] # "mark" => \A i \in DOMAIN socks : socks[i].open => socks[i].obj # Current

ConfiguredIsCurrent ==
  drifted = "no" =>
    /\ restart \/ pc["ui"] = "rebuild" \/ objs[Current].addr = cfg
    /\ running /\ ~timedOut /\ pc["ui"] \notin {"wait", "drop"} =>
         pc["ui"] # "rebuild" /\ Listens(Current)

ServersSoFar ==
  ServerTypes /\ ServedByTheirOwn /\ OnlyTheCurrent /\ CurrentIsUsed /\ ConfiguredIsCurrent
=============================================================================
