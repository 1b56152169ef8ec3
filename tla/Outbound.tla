------------------------------ MODULE Outbound ------------------------------
(***************************************************************************)
(* What the App sets up in Windows for the upstream proxy's own traffic:   *)
(* firewall rules that keep its programs on one adapter                    *)
(* (internal/proxyguard) and host routes to its nodes (internal/netroute). *)
(*                                                                         *)
(* A call of the window, startup and shutdown bring them up to date in     *)
(* steps.  Each step is a PowerShell script, which fails or is killed at   *)
(* any point; the firewall and the routes outlive the program, what it     *)
(* remembers of the routes does not.                                       *)
(***************************************************************************)
EXTENDS Naturals, Sequences, FiniteSets

CONSTANTS Adapter, NoAdapter, Program, Target, Gateway, NoGateway,
          Settings,   \* the policies the window may save
          MaxStuck,   \* bound on the rules and routes passed over at a time
          MaxCrashes  \* bound on the crashes

(* Assumed where this module is used. *)
OutboundConstants ==
  /\ NoAdapter \notin Adapter /\ NoGateway \notin Gateway
  /\ Settings \subseteq [guard : BOOLEAN, programs : SUBSET Program, allowed : Adapter \cup {NoAdapter},
                         route : BOOLEAN, named : BOOLEAN, targets : SUBSET Target]
  /\ MaxStuck \in Nat /\ MaxCrashes \in Nat

VARIABLES
  policy,    \* the settings in memory; named: an adapter for the routes is chosen
  up,        \* the adapters that are not disabled
  call,      \* the call under way, "none" between calls
  todo,      \* the steps it still has to do
  failed,    \* a step of it returned an error
  returned,  \* history: the last call, if it has returned without an error
  script,    \* the script under way and what it still has to add
  rules,     \* the firewall's rules: a program and the adapters it is kept off
  shown,     \* proxyguard's status
  routes,    \* the host routes PRM has added and nobody has removed
  known,     \* upstreamProxyRouteStatus: targets and gateway
  lost,      \* history: routes no status names any more
  stuckRules, stuckRoutes,
             \* history: what the last script that set up rules, or routes, was
             \* to remove and passed over
  crashes

firewall == <<rules, stuckRules>>
table == <<routes, lost, stuckRoutes>>
memory == <<shown, known>>
progress == <<call, todo, failed, returned>>
vars == <<policy, up, progress, script, firewall, table, memory, crashes>>

NoRoutes == [targets |-> {}, gateway |-> NoGateway]
NotApplied == [applied |-> FALSE, programs |-> {}, blocked |-> {}]
NoScript == [stage |-> "none", targets |-> {}, left |-> {}, gateway |-> NoGateway]

Boots ==
  /\ call' = "startup" /\ todo' = <<"guard", "routes">>
  /\ failed' = FALSE /\ returned' = "none"
  /\ script' = NoScript /\ shown' = NotApplied /\ known' = NoRoutes

Init ==
  /\ policy \in Settings
  /\ up = Adapter
  /\ call = "startup" /\ todo = <<"guard", "routes">>
  /\ failed = FALSE /\ returned = "none"
  /\ script = NoScript /\ shown = NotApplied /\ known = NoRoutes
  /\ rules = {} /\ stuckRules = {}
  /\ routes = {} /\ lost = {} /\ stuckRoutes = {}
  /\ crashes = 0

-----------------------------------------------------------------------------
(* Calls.  Those of Strict return at the first error; the others note it and *)
(* go on: startup (app.go:81), PauseTrafficRouting, RefreshStatus, shutdown. *)
Strict == {"save", "import", "adapter"}

Begin(name, steps) ==
  /\ call = "none"
  /\ call' = name /\ todo' = steps
  /\ failed' = FALSE /\ returned' = "none"
  /\ UNCHANGED <<script, firewall, table, memory, crashes>>

SaveSettings(s) == Begin("save", <<"guard", "routes">>) /\ policy' = s /\ UNCHANGED up
PauseTrafficRouting == Begin("pause", <<"routes", "guard">>) /\ UNCHANGED <<policy, up>>
RefreshStatus == policy.route /\ Begin("refresh", <<"routes">>) /\ UNCHANGED <<policy, up>>
ImportConfig(s) == Begin("import", <<"guard">>) /\ policy' = s /\ UNCHANGED up
SetNetworkAdapterEnabled(a) ==
  /\ Begin("adapter", <<"guard">>)
  /\ up' = IF a \in up THEN up \ {a} ELSE up \cup {a}
  /\ UNCHANGED policy
Shutdown == Begin("quit", <<"routes", "exit">>) /\ UNCHANGED <<policy, up>>

(* The file cannot be written: the settings are in use, nothing is done. *)
SaveFails(s) ==
  /\ call = "none"
  /\ policy' = s
  /\ returned' = "none"
  /\ UNCHANGED <<up, call, todo, failed, script, firewall, table, memory, crashes>>

(* A call that leaves the outbound policy alone. *)
OtherCall ==
  /\ call = "none"
  /\ returned' = "none"
  /\ UNCHANGED <<policy, up, call, todo, failed, script, firewall, table, memory, crashes>>

(* What a call does before these steps may fail: SaveSettings then returns   *)
(* (a service does not start, the system PAC cannot be set), the pause goes  *)
(* on (a service does not stop in time).                                     *)
StartFails ==
  /\ call = "save" /\ todo = <<"guard", "routes">> /\ script = NoScript
  /\ call' = "none" /\ todo' = << >>
  /\ UNCHANGED <<policy, up, failed, returned, script, firewall, table, memory, crashes>>

StopFails ==
  /\ call = "pause" /\ todo = <<"routes", "guard">> /\ script = NoScript
  /\ failed' = TRUE
  /\ UNCHANGED <<policy, up, call, todo, returned, script, firewall, table, memory, crashes>>

(* The end of a step, with an error or without. *)
StepEnds(err) ==
  LET rest == IF err /\ call \in Strict THEN << >> ELSE Tail(todo) IN
  /\ script' = NoScript
  /\ todo' = rest
  /\ call' = IF rest = << >> THEN "none" ELSE call
  /\ failed' = (rest # << >> /\ (failed \/ err))
  /\ returned' = IF rest = << >> /\ ~failed /\ ~err THEN call ELSE "none"

Doing(step, stage) == todo # << >> /\ Head(todo) = step /\ script.stage = stage

-----------------------------------------------------------------------------
(* reconcileProxyGuard.  A pause asks for a disabled guard. *)
WantsGuard == policy.guard /\ call # "pause"

GuardStep == UNCHANGED <<up, table, known, crashes>>

(* Removing the rules, as far as it gets: without an error where the listing *)
(* that fails counts as empty, or the removal itself may fail.               *)
ClearRules(left) == rules' = left /\ stuckRules' = left

(* Disabled: the rules are removed; a script that is cut short leaves some. *)
GuardRemoved ==
  /\ Doing("guard", "none") /\ ~WantsGuard
  /\ \E left \in SUBSET rules : ClearRules(left)
  /\ shown' = NotApplied
  /\ StepEnds(FALSE)
  /\ GuardStep /\ UNCHANGED policy

GuardRemovalFails ==
  /\ Doing("guard", "none") /\ ~WantsGuard
  /\ \E left \in SUBSET rules : rules' = left /\ stuckRules' = stuckRules \cap left
  /\ shown' = NotApplied
  /\ StepEnds(TRUE)
  /\ GuardStep /\ UNCHANGED policy

(* PrepareConfig looks for the program that listens at the upstream address, *)
(* and the finding is saved.  An error, its own or that of the save, comes   *)
(* before the service is asked.                                              *)
PrepareFinds(found) ==
  /\ Doing("guard", "none") /\ WantsGuard /\ policy.programs = {}
  /\ found # {}
  /\ policy' = [policy EXCEPT !.programs = found]
  /\ UNCHANGED <<progress, script, firewall, shown>> /\ GuardStep

PrepareUnsaved(found) ==
  /\ Doing("guard", "none") /\ WantsGuard /\ policy.programs = {}
  /\ found # {}
  /\ policy' = [policy EXCEPT !.programs = found]
  /\ StepEnds(TRUE)
  /\ UNCHANGED <<firewall, shown>> /\ GuardStep

PrepareFails ==
  /\ Doing("guard", "none") /\ WantsGuard /\ policy.programs = {}
  /\ StepEnds(TRUE)
  /\ UNCHANGED <<firewall, shown>> /\ GuardStep /\ UNCHANGED policy

(* No administrator, no adapter named, no program: the rules stay. *)
GuardRefuses ==
  /\ Doing("guard", "none") /\ WantsGuard
  /\ shown' = NotApplied
  /\ StepEnds(TRUE)
  /\ UNCHANGED firewall /\ GuardStep /\ UNCHANGED policy

(* The script for an enabled guard removes the rules, whatever comes of it,  *)
(* looks for the programs and the adapter, then adds a rule for each program *)
(* when there is another adapter.                                            *)
GuardClears ==
  /\ Doing("guard", "none") /\ WantsGuard
  /\ policy.programs # {} /\ policy.allowed # NoAdapter
  /\ \E left \in SUBSET rules : ClearRules(left)
  /\ script' = [NoScript EXCEPT !.stage = "block", !.left = policy.programs]
  /\ UNCHANGED <<progress, shown, policy>> /\ GuardStep

Blocked == up \ {policy.allowed}
RulesFor(programs, blocked) == IF blocked = {} THEN {} ELSE programs \X {blocked}

GuardBlocks(p) ==
  /\ Doing("guard", "block") /\ p \in script.left
  /\ rules' = rules \cup RulesFor({p}, Blocked)
  /\ script' = [script EXCEPT !.left = @ \ {p}]
  /\ UNCHANGED <<progress, stuckRules, shown, policy>> /\ GuardStep

GuardApplied ==
  /\ Doing("guard", "block") /\ script.left = {}
  /\ shown' = [applied |-> TRUE, programs |-> policy.programs, blocked |-> Blocked]
  /\ StepEnds(FALSE)
  /\ UNCHANGED firewall /\ GuardStep /\ UNCHANGED policy

FailureStillShown ==
  /\ Doing("guard", "block")
  /\ StepEnds(TRUE)
  /\ UNCHANGED <<shown, firewall>> /\ GuardStep /\ UNCHANGED policy

GuardScriptFails ==
  /\ Doing("guard", "block")
  /\ shown' = NotApplied
  /\ StepEnds(TRUE)
  /\ UNCHANGED firewall /\ GuardStep /\ UNCHANGED policy

-----------------------------------------------------------------------------
(* reconcileUpstreamProxyRoutes and clearUpstreamProxyRoutes.  First the     *)
(* routes of the last status go, whatever is wanted now.                     *)
WantsRoutes == policy.route /\ call \notin {"pause", "quit"}

RoutesStep == UNCHANGED <<policy, up, firewall, shown, crashes>>

Removes(r) == r[1] \in known.targets /\ known.gateway \in {r[2], NoGateway}
Covered == {r \in routes : Removes(r)}

LeaveRoutes(left) ==
  /\ routes' = (routes \ Covered) \cup left
  /\ lost' = (lost \ Covered) \cup left
  /\ stuckRoutes' = {}

(* A listing that fails counts as empty and the error of a removal is        *)
(* dropped, so that any of them may be left; the status forgets it.          *)
RoutesRemoved ==
  /\ Doing("routes", "none")
  /\ \E left \in SUBSET Covered : LeaveRoutes(left)
  /\ script' = [NoScript EXCEPT !.stage = "want"]
  /\ UNCHANGED <<progress, known>> /\ RoutesStep

(* Cut short, it leaves routes behind, and the status names none. *)
RemovalFails ==
  /\ Doing("routes", "none") /\ known.targets # {}
  /\ \E left \in SUBSET Covered : LeaveRoutes(left)
  /\ known' = NoRoutes
  /\ StepEnds(TRUE)
  /\ RoutesStep

(* Nothing is wanted, or nothing is known to make a route to. *)
NoRoutesNeeded ==
  /\ Doing("routes", "want") /\ (~WantsRoutes \/ (policy.named /\ policy.targets = {}))
  /\ known' = NoRoutes
  /\ StepEnds(FALSE)
  /\ UNCHANGED table /\ RoutesStep

NoRouteAdapter ==
  /\ Doing("routes", "want") /\ WantsRoutes /\ ~policy.named
  /\ known' = NoRoutes
  /\ StepEnds(TRUE)
  /\ UNCHANGED table /\ RoutesStep

(* The script adds a route to each target, those of the settings and those   *)
(* the upstream proxy is seen to talk to, through the adapter's gateway.  It *)
(* first removes what else leads to that target, as far as that goes.        *)
RoutesBegin(targets, g) ==
  /\ Doing("routes", "want") /\ WantsRoutes /\ policy.named
  /\ policy.targets \subseteq targets /\ targets # {}
  /\ script' = [stage |-> "route", targets |-> targets, left |-> targets, gateway |-> g]
  /\ UNCHANGED <<progress, table, known>> /\ RoutesStep

Route(t) == <<t, script.gateway>>
Stale(t) == {r \in routes : r[1] = t} \ {Route(t)}

RouteAddsBeside(t) ==
  /\ Doing("routes", "route") /\ t \in script.left
  /\ routes' = routes \cup {<<t, script.gateway>>}
  /\ script' = [script EXCEPT !.left = @ \ {t}]
  /\ UNCHANGED <<progress, known, lost, stuckRoutes>> /\ RoutesStep

RouteAdds(t) ==
  /\ Doing("routes", "route") /\ t \in script.left
  /\ \E left \in SUBSET Stale(t) :
       /\ routes' = (routes \ Stale(t)) \cup left \cup {Route(t)}
       /\ stuckRoutes' = (stuckRoutes \ (Stale(t) \cup {Route(t)})) \cup left
  /\ lost' = (lost \cap routes') \ {Route(t)}
  /\ script' = [script EXCEPT !.left = @ \ {t}]
  /\ UNCHANGED <<progress, known>> /\ RoutesStep

RoutesApplied ==
  /\ Doing("routes", "route") /\ script.left = {}
  /\ known' = [targets |-> script.targets, gateway |-> script.gateway]
  /\ StepEnds(FALSE)
  /\ UNCHANGED table /\ RoutesStep

FailureForgets ==
  /\ Doing("routes", "route")
  /\ known' = NoRoutes
  /\ StepEnds(TRUE)
  /\ UNCHANGED table /\ RoutesStep

(* Cut short, the status still names the targets, without a gateway. *)
RoutesScriptFails ==
  /\ Doing("routes", "route")
  /\ known' = [NoRoutes EXCEPT !.targets = script.targets]
  /\ StepEnds(TRUE)
  /\ UNCHANGED table /\ RoutesStep

-----------------------------------------------------------------------------
(* The program ends and is started again.  What it remembered of the routes  *)
(* is gone; the file has the settings, or earlier ones when a save failed.   *)
Restart ==
  /\ Boots
  /\ lost' = routes /\ stuckRoutes' = {}
  /\ policy' \in Settings \cup {policy}
  /\ UNCHANGED <<up, routes, firewall>>

Exit == Doing("exit", "none") /\ Restart /\ UNCHANGED crashes
Crash == crashes < MaxCrashes /\ crashes' = crashes + 1 /\ Restart

GuardNext ==
  \/ GuardRemoved \/ GuardRemovalFails \/ PrepareFails \/ GuardRefuses
  \/ GuardClears \/ GuardApplied \/ GuardScriptFails
  \/ \E found \in SUBSET Program : PrepareFinds(found) \/ PrepareUnsaved(found)
  \/ \E p \in Program : GuardBlocks(p)

RoutesNext ==
  \/ RoutesRemoved \/ RemovalFails \/ NoRoutesNeeded \/ NoRouteAdapter
  \/ RoutesApplied \/ RoutesScriptFails
  \/ \E targets \in SUBSET Target, g \in Gateway : RoutesBegin(targets, g)
  \/ \E t \in Target : RouteAdds(t)

FewStuck == Cardinality(stuckRules') + Cardinality(stuckRoutes') <= MaxStuck
Steps == (GuardNext \/ RoutesNext) /\ FewStuck

Calls ==
  \/ \E s \in Settings : SaveSettings(s) \/ SaveFails(s) \/ ImportConfig(s)
  \/ PauseTrafficRouting \/ RefreshStatus \/ Shutdown \/ OtherCall
  \/ \E a \in Adapter : SetNetworkAdapterEnabled(a)

Next == Calls \/ StartFails \/ StopFails \/ Steps \/ Exit \/ Crash

Spec == Init /\ [][Next]_vars
-----------------------------------------------------------------------------
TypeOK ==
  /\ policy \in [guard : BOOLEAN, programs : SUBSET Program, allowed : Adapter \cup {NoAdapter},
                 route : BOOLEAN, named : BOOLEAN, targets : SUBSET Target]
  /\ up \subseteq Adapter
  /\ call \in {"none", "startup", "save", "pause", "refresh", "import", "adapter", "quit"}
  /\ todo \in Seq({"guard", "routes", "exit"})
  /\ failed \in BOOLEAN
  /\ returned \in {"none", "startup", "save", "pause", "refresh", "import", "adapter", "quit"}
  /\ script \in [stage : {"none", "block", "want", "route"}, targets : SUBSET Target,
                 left : SUBSET (Program \cup Target), gateway : Gateway \cup {NoGateway}]
  /\ rules \subseteq Program \X SUBSET Adapter /\ stuckRules \subseteq rules
  /\ shown \in [applied : BOOLEAN, programs : SUBSET Program, blocked : SUBSET Adapter]
  /\ routes \subseteq Target \X Gateway /\ lost \subseteq routes /\ stuckRoutes \subseteq routes
  /\ known \in [targets : SUBSET Target, gateway : Gateway \cup {NoGateway}]
  /\ crashes \in Nat

(* No route of PRM's stays in the system's table unless the status names it: *)
(* the next reconcile, whatever it is for, removes it, or the script that    *)
(* adds it is still running.  Excepted are the routes the code forgets: by a *)
(* removal cut short, by a crash, and by a removal whose failure the script  *)
(* passes over.                                                              *)
RoutesKnown ==
  \A r \in routes \ lost :
    Removes(r) \/ (script.stage = "route" /\ r \in script.targets \X {script.gateway})

(* When the window shows the guard as applied, each of the programs it       *)
(* counts is kept off the adapters it counts, and no other rule of PRM's is  *)
(* there but those the last removal passed over, unless a script is at work  *)
(* on the rules.                                                             *)
InForce(made) == made \subseteq rules /\ rules \subseteq made \cup stuckRules
GuardShownIsReal ==
  shown.applied /\ script.stage # "block" => InForce(RulesFor(shown.programs, shown.blocked))

(* A call that has returned without an error has made every rule and route   *)
(* it was asked to make, over whatever calls that failed half-way have left, *)
(* and has left none beside them whose removal has not failed unseen.        *)
GuardInEffect == InForce(IF policy.guard THEN RulesFor(policy.programs, Blocked) ELSE {})
RoutesInEffect ==
  IF policy.route
  THEN /\ policy.targets \subseteq known.targets
       /\ {r \in routes \ stuckRoutes : r[1] \in known.targets} = known.targets \X {known.gateway}
  ELSE routes \subseteq lost

ReturnedIsDone ==
  /\ returned \in {"save", "startup"} => GuardInEffect /\ RoutesInEffect
  /\ returned \in {"import", "adapter"} => GuardInEffect
  /\ returned = "refresh" => RoutesInEffect
  /\ returned = "pause" => rules \subseteq stuckRules /\ routes \subseteq lost

(* What makes them inductive: the steps a call still has to do, what each    *)
(* stage of a script has made so far, and what the earlier step of a call    *)
(* has left for the later one.                                               *)
Plan == [none |-> {<< >>},
         startup |-> {<<"guard", "routes">>, <<"routes">>},
         save |-> {<<"guard", "routes">>, <<"routes">>},
         pause |-> {<<"routes", "guard">>, <<"guard">>},
         refresh |-> {<<"routes">>},
         import |-> {<<"guard">>}, adapter |-> {<<"guard">>},
         quit |-> {<<"routes", "exit">>, <<"exit">>}]

InPlan ==
  /\ todo \in Plan[call]
  /\ script.stage = "block" => todo # << >> /\ Head(todo) = "guard"
  /\ script.stage \in {"want", "route"} => todo # << >> /\ Head(todo) = "routes"
  /\ returned # "none" => call = "none"

RoutesSoFar ==
  /\ script.stage \in {"none", "block"} => \A r \in routes \ lost : Removes(r)
  /\ script.stage = "want" => routes \subseteq lost
  /\ script.stage = "route" =>
       /\ WantsRoutes /\ policy.targets \subseteq script.targets
       /\ script.left \subseteq script.targets /\ script.gateway \in Gateway
       /\ routes \ lost \subseteq script.targets \X {script.gateway}
       /\ \A t \in script.targets \ script.left :
            /\ Route(t) \in routes \ stuckRoutes
            /\ \A r \in routes \ stuckRoutes : r[1] = t => r = Route(t)

GuardSoFar ==
  /\ GuardShownIsReal
  /\ script.stage = "block" =>
       /\ WantsGuard /\ script.left \subseteq policy.programs
       /\ InForce(RulesFor(policy.programs \ script.left, Blocked))

CallSoFar ==
  ~failed =>
    /\ call \in {"save", "startup"} /\ todo = <<"routes">> => GuardInEffect
    /\ call = "pause" /\ todo = <<"guard">> => routes \subseteq lost

OutboundInv == TypeOK /\ InPlan /\ RoutesSoFar /\ GuardSoFar /\ CallSoFar /\ ReturnedIsDone
=============================================================================
