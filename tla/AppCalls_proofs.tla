--------------------------- MODULE AppCalls_proofs ---------------------------
(* The App's calls make of firewall and routes what Outbound allows, and so  *)
(* have its properties, for any server, settings and number of calls.        *)
EXTENDS AppCalls, TLAPS

(* Every step of the App is one of Outbound's, or none of its business. *)
LEMMA AppInitRefines == AppInit => Out!Init
  BY DEF AppInit

LEMMA AppStepRefines == [AppNext]_<<vars, outside>> => [Out!Next]_Out!vars
<1> SUFFICES ASSUME [AppNext]_<<vars, outside>> PROVE Out!Next \/ UNCHANGED outside
  BY DEF outside, Out!vars, Out!progress, Out!firewall, Out!table, Out!memory
<1>1. CASE WindowCalls
  BY <1>1 DEF WindowCalls, StartService, StopService, PauseTrafficRouting, OutsideCall, SaveAll,
       SaveAllFails, ImportAll, Out!Next, Out!Calls
<1>2. CASE ServerSteps
  BY <1>2 DEF ServerSteps, StartEnds, StopGivesUp, Out!Next
<1>3. CASE OutsideSteps \/ PacFails
  BY <1>3 DEF OutsideSteps, PacFails, Out!Next
<1>4. CASE AppRestart
  BY <1>4 DEF AppRestart, Out!Next
<1>5. CASE UNCHANGED <<vars, outside>>
  BY <1>5
<1>. QED  BY <1>1, <1>2, <1>3, <1>4, <1>5 DEF AppNext

(* The composition does no step outside that Outbound alone could not do.    *)
THEOREM AppStaysOutbound == AppSpec => OutsideIsOutbound
  BY AppInitRefines, AppStepRefines, PTL DEF AppSpec, OutsideIsOutbound, Out!Spec
-----------------------------------------------------------------------------
(* Outbound by itself keeps its invariant: for any policies, programs,       *)
(* adapters, nodes and gateways, and any number of calls and crashes.        *)
OutPolicy == [guard : BOOLEAN, programs : SUBSET Program, allowed : Adapter \cup {NoAdapter},
           route : BOOLEAN, named : BOOLEAN, targets : SUBSET Target]
OutCall == {"none", "startup", "save", "pause", "refresh", "import", "adapter", "quit"}

(* The steps of a call, and what is left of them after each. *)
LEMMA Steps0 ==
  /\ \A a, b \in {"guard", "routes", "exit"} :
       /\ <<a, b>> # << >> /\ Head(<<a, b>>) = a /\ Tail(<<a, b>>) = <<b>>
       /\ <<a, b>> \in Seq({"guard", "routes", "exit"})
  /\ \A a \in {"guard", "routes", "exit"} :
       /\ <<a>> # << >> /\ Head(<<a>>) = a /\ Tail(<<a>>) = << >>
       /\ <<a>> \in Seq({"guard", "routes", "exit"})
  /\ << >> \in Seq({"guard", "routes", "exit"})
  OBVIOUS

LEMMA Different ==
  /\ <<"guard", "routes">> # <<"routes">> /\ <<"routes", "guard">> # <<"guard">>
  /\ <<"routes">> # <<"guard">> /\ <<"routes", "exit">> # <<"exit">>
  OBVIOUS

LEMMA Plans ==
  /\ Out!Plan["none"] = {<< >>}
  /\ Out!Plan["startup"] = {<<"guard", "routes">>, <<"routes">>}
  /\ Out!Plan["save"] = {<<"guard", "routes">>, <<"routes">>}
  /\ Out!Plan["pause"] = {<<"routes", "guard">>, <<"guard">>}
  /\ Out!Plan["refresh"] = {<<"routes">>}
  /\ Out!Plan["import"] = {<<"guard">>} /\ Out!Plan["adapter"] = {<<"guard">>}
  /\ Out!Plan["quit"] = {<<"routes", "exit">>, <<"exit">>}
  BY DEF Out!Plan

(* What a step leaves to do is in the plan of the call. *)
LEMMA Ends ==
  ASSUME Out!InPlan, Out!TypeOK, NEW err \in BOOLEAN, Out!StepEnds(err), todo # << >>, Head(todo) # "exit"
  PROVE  /\ call' \in OutCall /\ todo' \in Out!Plan[call'] /\ todo' \in Seq({"guard", "routes", "exit"})
         /\ failed' \in BOOLEAN /\ returned' \in OutCall /\ script' = Out!NoScript
         /\ returned' # "none" => call' = "none" /\ ~failed /\ ~err /\ returned' = call
         /\ returned' = call => Tail(todo) = << >>
         /\ call' \in {"none", call}
         /\ failed \/ err => failed' \/ call' = "none"
<1> DEFINE rest == IF err /\ call \in Out!Strict THEN << >> ELSE Tail(todo)
<1>1. call \in OutCall \ {"none"} /\ todo \in Out!Plan[call]
  BY DEF Out!InPlan, Out!TypeOK, Out!Plan, OutCall
<1>2. Tail(todo) = << >> \/ Tail(todo) \in Out!Plan[call]
  <2>1. CASE call = "startup" \/ call = "save"
    <3>1. todo \in {<<"guard", "routes">>, <<"routes">>} /\ Out!Plan[call] = {<<"guard", "routes">>, <<"routes">>}
      BY <1>1, <2>1, Plans
    <3>. QED  BY <3>1, Steps0
  <2>2. CASE call = "pause"
    BY <1>1, <2>2, Steps0, Plans
  <2>3. CASE call = "refresh" \/ call = "import" \/ call = "adapter"
    BY <1>1, <2>3, Steps0, Plans
  <2>4. CASE call = "quit"
    BY <1>1, <2>4, Steps0, Plans
  <2>. QED  BY <1>1, <2>1, <2>2, <2>3, <2>4 DEF OutCall
<1>3. rest = << >> \/ rest \in Out!Plan[call]
  BY <1>2
<1>4. \A c \in OutCall : Out!Plan[c] \subseteq Seq({"guard", "routes", "exit"})
  BY Steps0, Plans DEF OutCall
<1>5. << >> \in Out!Plan["none"]
  BY Plans
<1> HIDE DEF rest
<1>6. /\ script' = Out!NoScript /\ todo' = rest
      /\ call' = IF rest = << >> THEN "none" ELSE call
      /\ failed' = (rest # << >> /\ (failed \/ err))
      /\ returned' = IF rest = << >> /\ ~failed /\ ~err THEN call ELSE "none"
  BY DEF Out!StepEnds, rest
<1>7. ~err => rest = Tail(todo)
  BY DEF rest
<1>. QED
  BY <1>1, <1>3, <1>4, <1>5, <1>6, <1>7 DEF OutCall
-----------------------------------------------------------------------------
LEMMA OutInitInv == Out!OutboundConstants /\ Out!Init => Out!OutboundInv
<1> SUFFICES ASSUME Out!OutboundConstants, Out!Init PROVE Out!OutboundInv
  OBVIOUS
<1>1. Out!TypeOK
  BY Steps0 DEF Out!OutboundConstants, Out!Init, Out!TypeOK, Out!NoScript, Out!NotApplied,
       Out!NoRoutes
<1>2. Out!InPlan
  BY Plans DEF Out!Init, Out!InPlan, Out!NoScript
<1>3. Out!RoutesSoFar /\ Out!GuardSoFar
  BY DEF Out!Init, Out!RoutesSoFar, Out!GuardSoFar, Out!GuardShownIsReal, Out!NoScript,
       Out!NotApplied
<1>4. Out!CallSoFar /\ Out!ReturnedIsDone
  BY Different DEF Out!Init, Out!CallSoFar, Out!ReturnedIsDone
<1>. QED  BY <1>1, <1>2, <1>3, <1>4 DEF Out!OutboundInv

(* Between calls no script is under way. *)
LEMMA Between == Out!InPlan /\ Out!TypeOK /\ call = "none" => todo = << >> /\ script.stage = "none"
  BY Plans DEF Out!InPlan, Out!TypeOK

(* A call begins, or one that leaves firewall and routes alone is made. *)
LEMMA CallKeeps ==
  ASSUME Out!OutboundConstants, Out!OutboundInv, Out!Calls
  PROVE  Out!OutboundInv'
<1>0. Out!TypeOK /\ call = "none" /\ script.stage = "none" /\ todo = << >>
  BY Between DEF Out!OutboundInv, Out!Calls, Out!SaveSettings, Out!SaveFails, Out!ImportConfig,
       Out!PauseTrafficRouting,
       Out!RefreshStatus, Out!Shutdown, Out!OtherCall, Out!SetNetworkAdapterEnabled, Out!Begin
<1>1. /\ UNCHANGED <<script, rules, stuckRules, routes, lost, stuckRoutes, shown, known, crashes>>
      /\ returned' = "none" /\ policy' \in OutPolicy /\ up' \subseteq Adapter
  BY <1>0 DEF Out!Calls, Out!SaveSettings, Out!SaveFails, Out!ImportConfig,
       Out!PauseTrafficRouting, Out!RefreshStatus,
       Out!Shutdown, Out!OtherCall, Out!SetNetworkAdapterEnabled, Out!Begin, Out!firewall,
       Out!table, Out!memory, Out!OutboundConstants,
       OutPolicy, Out!TypeOK
<1>2. /\ call' \in OutCall /\ todo' \in Out!Plan[call'] /\ todo' \in Seq({"guard", "routes", "exit"})
      /\ failed' \in BOOLEAN
      /\ call' \in {"save", "startup"} => todo' # <<"routes">>
      /\ call' = "pause" => todo' # <<"guard">>
  BY <1>0, Plans, Steps0, Different DEF Out!Calls, Out!SaveSettings, Out!SaveFails,
       Out!ImportConfig,
       Out!PauseTrafficRouting, Out!RefreshStatus, Out!Shutdown, Out!OtherCall,
       Out!SetNetworkAdapterEnabled, Out!Begin,
       OutCall, Out!TypeOK
<1>3. Out!TypeOK'
  BY <1>0, <1>1, <1>2 DEF Out!TypeOK, OutPolicy, OutCall
<1>4. Out!InPlan'
  BY <1>0, <1>1, <1>2 DEF Out!InPlan
<1>5. Out!RoutesSoFar' /\ Out!GuardSoFar'
  BY <1>0, <1>1 DEF Out!OutboundInv, Out!RoutesSoFar, Out!GuardSoFar, Out!GuardShownIsReal,
       Out!InForce, Out!Removes
<1>6. Out!CallSoFar' /\ Out!ReturnedIsDone'
  BY <1>1, <1>2 DEF Out!CallSoFar, Out!ReturnedIsDone
<1>. QED  BY <1>3, <1>4, <1>5, <1>6 DEF Out!OutboundInv

(* Something fails before the steps of a call. *)
LEMMA EarlyFailureKeeps ==
  ASSUME Out!OutboundInv, Out!StartFails \/ Out!StopFails
  PROVE  Out!OutboundInv'
<1>0. Out!TypeOK /\ script = Out!NoScript /\ script.stage = "none" /\ returned = "none"
  BY DEF Out!OutboundInv, Out!StartFails, Out!StopFails, Out!NoScript, Out!InPlan
<1>1. /\ UNCHANGED <<policy, up, returned, script, rules, stuckRules, routes, lost, stuckRoutes, shown, known, crashes>>
      /\ \/ call' = "none" /\ todo' = << >> /\ failed' = failed
         \/ call' = "pause" /\ todo' = todo /\ todo \in Out!Plan["pause"] /\ failed' = TRUE
  BY DEF Out!StartFails, Out!StopFails, Out!firewall, Out!table, Out!memory, Out!OutboundInv, Out!InPlan
<1>2. Out!TypeOK'
  BY <1>0, <1>1, Steps0 DEF Out!TypeOK
<1>3. Out!InPlan'
  BY <1>0, <1>1, Plans DEF Out!InPlan
<1>4. Out!RoutesSoFar' /\ Out!GuardSoFar'
  BY <1>0, <1>1 DEF Out!OutboundInv, Out!RoutesSoFar, Out!GuardSoFar, Out!GuardShownIsReal,
       Out!InForce, Out!Removes
<1>5. Out!CallSoFar' /\ Out!ReturnedIsDone'
  BY <1>0, <1>1 DEF Out!CallSoFar, Out!ReturnedIsDone
<1>. QED  BY <1>2, <1>3, <1>4, <1>5 DEF Out!OutboundInv

(* The program ends and starts again. *)
LEMMA RestartKeeps ==
  ASSUME Out!OutboundConstants, Out!OutboundInv, Out!Restart, crashes' \in Nat
  PROVE  Out!OutboundInv'
<1>0. Out!TypeOK
  BY DEF Out!OutboundInv
<1>1. policy' \in OutPolicy
  BY <1>0 DEF Out!Restart, Out!OutboundConstants, Out!TypeOK, OutPolicy
<1>2. Out!TypeOK'
  BY <1>0, <1>1, Steps0 DEF Out!Restart, Out!Boots, Out!firewall, Out!TypeOK, OutPolicy,
       Out!NoScript, Out!NotApplied, Out!NoRoutes
<1>3. Out!InPlan'
  BY Plans DEF Out!Restart, Out!Boots, Out!InPlan, Out!NoScript
<1>4. Out!RoutesSoFar' /\ Out!GuardSoFar'
  BY DEF Out!Restart, Out!Boots, Out!firewall, Out!RoutesSoFar, Out!GuardSoFar,
       Out!GuardShownIsReal, Out!NoScript, Out!NotApplied
<1>5. Out!CallSoFar' /\ Out!ReturnedIsDone'
  BY Different DEF Out!Restart, Out!Boots, Out!CallSoFar, Out!ReturnedIsDone
<1>. QED  BY <1>2, <1>3, <1>4, <1>5 DEF Out!OutboundInv
-----------------------------------------------------------------------------
(* Which calls are at their firewall step, and which at their routes. *)
LEMMA AtGuard ==
  ASSUME Out!InPlan, Out!TypeOK, todo # << >>, Head(todo) = "guard"
  PROVE  \/ call \in {"save", "startup"} /\ todo = <<"guard", "routes">>
         \/ call \in {"pause", "import", "adapter"} /\ todo = <<"guard">>
<1>1. call \in OutCall \ {"none"} /\ todo \in Out!Plan[call]
  BY Plans DEF Out!InPlan, Out!TypeOK, OutCall
<1>. QED  BY <1>1, Plans, Steps0 DEF OutCall

LEMMA AtRoutes ==
  ASSUME Out!InPlan, Out!TypeOK, todo # << >>, Head(todo) = "routes"
  PROVE  \/ call \in {"save", "startup", "refresh"} /\ todo = <<"routes">>
         \/ call = "pause" /\ todo = <<"routes", "guard">>
         \/ call = "quit" /\ todo = <<"routes", "exit">>
<1>1. call \in OutCall \ {"none"} /\ todo \in Out!Plan[call]
  BY Plans DEF Out!InPlan, Out!TypeOK, OutCall
<1>. QED  BY <1>1, Plans, Steps0 DEF OutCall

(* After a step the rules are those made, beside what was passed over. *)
RulesThen(made) == made \subseteq rules' /\ rules' \subseteq made \cup stuckRules'

(* The firewall step ends: without an error the rules are those asked for.   *)
LEMMA GuardEnds ==
  ASSUME Out!OutboundInv, NEW stage \in {"none", "block"}, Out!Doing("guard", stage),
         NEW err \in BOOLEAN, Out!StepEnds(err),
         UNCHANGED <<up, Out!table, known, crashes>>, policy' \in OutPolicy,
         rules' \subseteq Program \X SUBSET Adapter, stuckRules' \subseteq rules',
         shown' \in [applied : BOOLEAN, programs : SUBSET Program, blocked : SUBSET Adapter],
         shown'.applied => RulesThen(Out!RulesFor(shown'.programs, shown'.blocked)),
         ~err => /\ policy' = policy
                 /\ RulesThen(IF Out!WantsGuard THEN Out!RulesFor(policy.programs, Out!Blocked) ELSE {})
  PROVE  Out!OutboundInv'
<1>0. Out!TypeOK /\ Out!InPlan /\ todo # << >> /\ Head(todo) = "guard" /\ script.stage = stage
  BY DEF Out!OutboundInv, Out!Doing
<1>1. /\ call' \in OutCall /\ todo' \in Out!Plan[call'] /\ todo' \in Seq({"guard", "routes", "exit"})
      /\ failed' \in BOOLEAN /\ returned' \in OutCall /\ script' = Out!NoScript
      /\ returned' # "none" => call' = "none" /\ ~failed /\ ~err /\ returned' = call
      /\ returned' = call => Tail(todo) = << >>
      /\ call' \in {"none", call}
      /\ failed \/ err => failed' \/ call' = "none"
  BY <1>0, Ends
<1>2. \/ call \in {"save", "startup"} /\ todo = <<"guard", "routes">>
      \/ call \in {"pause", "import", "adapter"} /\ todo = <<"guard">>
  BY <1>0, AtGuard
<1>3. Out!TypeOK'
  BY <1>0, <1>1 DEF Out!table, Out!TypeOK, Out!NoScript, OutCall, OutPolicy
<1>4. Out!InPlan'
  BY <1>1 DEF Out!InPlan, Out!NoScript
<1>5. Out!RoutesSoFar'
  BY <1>0, <1>1 DEF Out!table, Out!OutboundInv, Out!RoutesSoFar, Out!Removes, Out!NoScript
<1>6. Out!GuardSoFar'
  BY <1>1 DEF Out!GuardSoFar, Out!GuardShownIsReal, Out!NoScript, Out!InForce, RulesThen, Out!RulesFor
<1>7. ~err /\ call # "pause" => Out!GuardInEffect'
  <2>1. ~err => Out!Blocked' = Out!Blocked
    BY DEF Out!Blocked
  <2>. QED  BY <2>1 DEF Out!GuardInEffect, Out!WantsGuard, Out!InForce, RulesThen, Out!RulesFor
<1>8. Out!CallSoFar'
  <2>1. ~failed' /\ call' = "pause" /\ todo' = <<"guard">> => FALSE
    BY <1>0, <1>1, <1>2, Steps0 DEF Out!StepEnds, Out!Strict
  <2>. QED  BY <1>1, <1>2, <1>7, <2>1 DEF Out!CallSoFar
<1>9. Out!ReturnedIsDone'
  <2>1. returned' # "none" => returned' \in {"pause", "import", "adapter"} /\ ~failed /\ ~err
    BY <1>1, <1>2, Steps0
  <2>2. returned' = "pause" => routes \subseteq lost /\ rules' \subseteq stuckRules'
    BY <1>1, <1>2, <2>1 DEF Out!OutboundInv, Out!CallSoFar, Out!WantsGuard, RulesThen
  <2>. QED  BY <1>1, <1>7, <2>1, <2>2 DEF Out!ReturnedIsDone, Out!table
<1>. QED  BY <1>3, <1>4, <1>5, <1>6, <1>8, <1>9 DEF Out!OutboundInv

(* A script is at work on the rules. *)
LEMMA GuardWorks ==
  ASSUME Out!OutboundInv, UNCHANGED <<Out!progress, up, Out!table, known, crashes, shown>>,
         Out!Doing("guard", script.stage), script.stage \in {"none", "block"},
         policy' \in OutPolicy, policy'.guard = policy.guard,
         policy' # policy => script.stage = "none" /\ script' = script,
         rules' \subseteq Program \X SUBSET Adapter, stuckRules' \subseteq rules',
         script' = script => UNCHANGED Out!firewall,
         script' # script =>
           /\ Out!WantsGuard
           /\ script' \in [stage : {"block"}, targets : SUBSET Target,
                           left : SUBSET policy.programs, gateway : Gateway \cup {NoGateway}]
           /\ RulesThen(Out!RulesFor(policy.programs \ script'.left, Out!Blocked))
  PROVE  Out!OutboundInv'
<1>0. Out!TypeOK /\ Out!InPlan /\ todo # << >> /\ Head(todo) = "guard"
  BY DEF Out!OutboundInv, Out!Doing
<1>1. /\ call # "none" /\ returned = "none"
      /\ todo # <<"routes">> /\ (call = "pause" => todo = <<"guard">>)
  BY <1>0, AtGuard, Steps0, Different DEF Out!InPlan
<1>2. Out!TypeOK'
  BY <1>0 DEF Out!progress, Out!table, Out!TypeOK, OutPolicy
<1>3. script'.stage \in {"none", "block"}
  OBVIOUS
<1>4. Out!InPlan'
  BY <1>0, <1>3 DEF Out!progress, Out!InPlan
<1>5. Out!RoutesSoFar'
  BY <1>3 DEF Out!table, Out!OutboundInv, Out!RoutesSoFar, Out!Removes
<1>6. (Out!Blocked' = Out!Blocked /\ Out!WantsGuard' = Out!WantsGuard) \/ policy' # policy
  BY DEF Out!Blocked, Out!WantsGuard, Out!progress
<1>7. Out!GuardSoFar'
  BY <1>6 DEF Out!OutboundInv, Out!GuardSoFar, Out!GuardShownIsReal, Out!firewall, Out!InForce,
       RulesThen, Out!RulesFor
<1>8. Out!CallSoFar' /\ Out!ReturnedIsDone'
  BY <1>1 DEF Out!OutboundInv, Out!progress, Out!table, Out!CallSoFar, Out!ReturnedIsDone
<1>. QED  BY <1>2, <1>4, <1>5, <1>7, <1>8 DEF Out!OutboundInv

LEMMA GuardKeeps ==
  ASSUME Out!OutboundConstants, Out!OutboundInv, Out!GuardNext
  PROVE  Out!OutboundInv'
<1>0. Out!TypeOK /\ Out!GuardSoFar /\ policy \in OutPolicy
  BY DEF Out!OutboundInv, Out!TypeOK, OutPolicy
<1> USE DEF Out!GuardStep, Out!firewall
<1>1. CASE Out!GuardRemoved
  <2>1. rules' \subseteq rules /\ stuckRules' = rules'
    BY <1>1 DEF Out!GuardRemoved, Out!ClearRules
  <2>2. RulesThen({})
    BY <2>1 DEF RulesThen
  <2>. QED  BY <1>0, <1>1, <2>1, <2>2, GuardEnds DEF Out!GuardRemoved, Out!NotApplied, Out!TypeOK
<1>2. CASE Out!GuardRemovalFails
  <2>1. rules' \subseteq rules /\ stuckRules' \subseteq rules'
    BY <1>2 DEF Out!GuardRemovalFails
  <2>. QED  BY <1>0, <1>2, <2>1, GuardEnds DEF Out!GuardRemovalFails, Out!NotApplied, Out!TypeOK
<1>3. ASSUME Out!PrepareFails \/ \E found \in SUBSET Program : Out!PrepareUnsaved(found)
      PROVE  Out!OutboundInv'
  <2>1. /\ Out!Doing("guard", "none") /\ Out!StepEnds(TRUE) /\ policy' \in OutPolicy
        /\ UNCHANGED <<up, Out!table, known, crashes, rules, stuckRules, shown>>
    BY <1>0, <1>3 DEF Out!PrepareFails, Out!PrepareUnsaved, OutPolicy
  <2>2. script.stage = "none"
    BY <2>1 DEF Out!Doing
  <2>3. shown'.applied => RulesThen(Out!RulesFor(shown'.programs, shown'.blocked))
    BY <1>0, <2>1, <2>2 DEF Out!GuardSoFar, Out!GuardShownIsReal, Out!InForce, RulesThen
  <2>. QED  BY <1>0, <2>1, <2>3, GuardEnds DEF Out!TypeOK
<1>4. CASE Out!GuardRefuses
  BY <1>0, <1>4, GuardEnds DEF Out!GuardRefuses, Out!NotApplied, Out!TypeOK
<1>5. CASE Out!GuardApplied
  <2>1. script.stage = "block" /\ script.left = {} /\ UNCHANGED <<rules, stuckRules>>
    BY <1>5 DEF Out!GuardApplied, Out!Doing
  <2>2. Out!InForce(Out!RulesFor(policy.programs, Out!Blocked)) /\ Out!WantsGuard
    BY <1>0, <2>1 DEF Out!GuardSoFar
  <2>3. RulesThen(Out!RulesFor(policy.programs, Out!Blocked))
    BY <2>1, <2>2 DEF Out!InForce, RulesThen
  <2>4. Out!Blocked \subseteq Adapter
    BY <1>0 DEF Out!TypeOK, Out!Blocked
  <2>. QED  BY <1>0, <1>5, <2>2, <2>3, <2>4, GuardEnds DEF Out!GuardApplied, Out!TypeOK
<1>6. CASE Out!GuardScriptFails
  BY <1>0, <1>6, GuardEnds DEF Out!GuardScriptFails, Out!NotApplied, Out!TypeOK
<1>7. ASSUME NEW found \in SUBSET Program, Out!PrepareFinds(found) PROVE Out!OutboundInv'
  <2>1. policy' \in OutPolicy /\ policy'.guard = policy.guard
    BY <1>0, <1>7 DEF Out!PrepareFinds, OutPolicy
  <2>. QED  BY <1>0, <1>7, <2>1, GuardWorks DEF Out!PrepareFinds, Out!Doing, Out!TypeOK
<1>8. CASE Out!GuardClears
  <2>1. script' = [stage |-> "block", targets |-> {}, left |-> policy.programs, gateway |-> NoGateway]
    BY <1>8 DEF Out!GuardClears, Out!NoScript
  <2>2. script.stage = "none" /\ script' # script
    BY <1>8, <2>1 DEF Out!GuardClears, Out!Doing
  <2>3. RulesThen(Out!RulesFor(policy.programs \ script'.left, Out!Blocked))
    BY <1>8, <2>1 DEF Out!GuardClears, Out!ClearRules, Out!RulesFor, RulesThen
  <2>4. script' \in [stage : {"block"}, targets : SUBSET Target,
                     left : SUBSET policy.programs, gateway : Gateway \cup {NoGateway}]
    BY <2>1
  <2>5. rules' \subseteq Program \X SUBSET Adapter /\ stuckRules' \subseteq rules'
    BY <1>0, <1>8 DEF Out!GuardClears, Out!ClearRules, Out!TypeOK
  <2>6. Out!WantsGuard /\ Out!Doing("guard", script.stage) /\ UNCHANGED <<Out!progress, policy, up, Out!table, known, crashes, shown>>
    BY <1>8, <2>2 DEF Out!GuardClears, Out!Doing
  <2>. QED  BY <1>0, <2>2, <2>3, <2>4, <2>5, <2>6, GuardWorks
<1>9. ASSUME NEW p \in Program, Out!GuardBlocks(p) PROVE Out!OutboundInv'
  <2>1. /\ script' = [script EXCEPT !.left = script.left \ {p}] /\ p \in script.left
        /\ script.stage = "block" /\ Out!Doing("guard", "block")
    BY <1>9 DEF Out!GuardBlocks, Out!Doing
  <2>2. script' # script
    BY <1>0, <2>1 DEF Out!TypeOK
  <2>3. /\ Out!WantsGuard /\ script.left \subseteq policy.programs
        /\ Out!InForce(Out!RulesFor(policy.programs \ script.left, Out!Blocked))
    BY <1>0, <2>1 DEF Out!GuardSoFar
  <2>4. script'.left = script.left \ {p} /\ p \in policy.programs
    BY <1>0, <2>1, <2>3 DEF Out!TypeOK
  <2>5. rules' = rules \cup Out!RulesFor({p}, Out!Blocked) /\ stuckRules' = stuckRules
    BY <1>9 DEF Out!GuardBlocks
  <2>6. RulesThen(Out!RulesFor(policy.programs \ script'.left, Out!Blocked))
    <3>1. policy.programs \ script'.left = (policy.programs \ script.left) \cup {p}
      BY <2>1, <2>4
    <3>2. Out!RulesFor(policy.programs \ script'.left, Out!Blocked)
            = Out!RulesFor(policy.programs \ script.left, Out!Blocked) \cup Out!RulesFor({p}, Out!Blocked)
      BY <3>1 DEF Out!RulesFor
    <3>. QED  BY <2>3, <2>5, <3>2 DEF Out!InForce, RulesThen
  <2>7. rules' \subseteq Program \X SUBSET Adapter /\ stuckRules' \subseteq rules'
    BY <1>0, <2>5 DEF Out!TypeOK, Out!Blocked, Out!RulesFor
  <2>8. script' \in [stage : {"block"}, targets : SUBSET Target,
                     left : SUBSET policy.programs, gateway : Gateway \cup {NoGateway}]
    BY <1>0, <2>1, <2>3 DEF Out!TypeOK
  <2>9. UNCHANGED <<Out!progress, policy, up, Out!table, known, crashes, shown>>
    BY <1>9 DEF Out!GuardBlocks
  <2>. QED  BY <1>0, <2>1, <2>2, <2>3, <2>6, <2>7, <2>8, <2>9, GuardWorks
<1>. QED  BY <1>1, <1>2, <1>3, <1>4, <1>5, <1>6, <1>7, <1>8, <1>9 DEF Out!GuardNext
-----------------------------------------------------------------------------
(* The routes step ends: what the status names covers all that is not lost,  *)
(* and without an error the routes are those asked for.                      *)
LEMMA RoutesEnd ==
  ASSUME Out!OutboundInv, NEW stage \in {"none", "want", "route"}, Out!Doing("routes", stage),
         NEW err \in BOOLEAN, Out!StepEnds(err), Out!RoutesStep,
         routes' \subseteq Target \X Gateway, lost' \subseteq routes', stuckRoutes' \subseteq routes',
         known' \in [targets : SUBSET Target, gateway : Gateway \cup {NoGateway}],
         \A r \in routes' \ lost' : Out!Removes(r)',
         ~err => IF Out!WantsRoutes THEN Out!RoutesInEffect' ELSE routes' \subseteq lost'
  PROVE  Out!OutboundInv'
<1>0. Out!TypeOK /\ Out!InPlan /\ todo # << >> /\ Head(todo) = "routes" /\ script.stage = stage
  BY DEF Out!OutboundInv, Out!Doing
<1>1. /\ call' \in OutCall /\ todo' \in Out!Plan[call'] /\ todo' \in Seq({"guard", "routes", "exit"})
      /\ failed' \in BOOLEAN /\ returned' \in OutCall /\ script' = Out!NoScript
      /\ returned' # "none" => call' = "none" /\ ~failed /\ ~err /\ returned' = call
      /\ returned' = call => Tail(todo) = << >>
      /\ call' \in {"none", call}
      /\ failed \/ err => failed' \/ call' = "none"
  BY <1>0, Ends
<1>2. \/ call \in {"save", "startup", "refresh"} /\ todo = <<"routes">>
      \/ call = "pause" /\ todo = <<"routes", "guard">>
      \/ call = "quit" /\ todo = <<"routes", "exit">>
  BY <1>0, AtRoutes
<1>3. Out!TypeOK'
  BY <1>0, <1>1 DEF Out!RoutesStep, Out!firewall, Out!TypeOK, Out!NoScript, OutCall
<1>4. Out!InPlan'
  BY <1>1 DEF Out!InPlan, Out!NoScript
<1>5. Out!RoutesSoFar'
  BY <1>1 DEF Out!RoutesSoFar, Out!NoScript
<1>6. Out!GuardSoFar'
  BY <1>0, <1>1 DEF Out!RoutesStep, Out!firewall, Out!OutboundInv, Out!GuardSoFar,
       Out!GuardShownIsReal, Out!InForce, Out!RulesFor, Out!NoScript
<1>7. ~err /\ call \notin {"pause", "quit"} => Out!RoutesInEffect'
  BY DEF Out!RoutesStep, Out!WantsRoutes, Out!RoutesInEffect
<1>8. Out!GuardInEffect' = Out!GuardInEffect
  BY DEF Out!RoutesStep, Out!firewall, Out!GuardInEffect, Out!InForce, Out!RulesFor, Out!Blocked
<1>9. Out!CallSoFar'
  <2>1. ~failed' /\ call' \in {"save", "startup"} => FALSE
    BY <1>0, <1>1, <1>2, Steps0 DEF Out!StepEnds
  <2>2. ~failed' /\ call' = "pause" => routes' \subseteq lost'
    BY <1>1, <1>2 DEF Out!WantsRoutes
  <2>. QED  BY <2>1, <2>2 DEF Out!CallSoFar
<1>10. Out!ReturnedIsDone'
  <2>1. returned' # "none" => returned' \in {"save", "startup", "refresh"} /\ ~failed /\ ~err
    BY <1>1, <1>2, Steps0
  <2>2. returned' \in {"save", "startup"} => Out!GuardInEffect'
    BY <1>1, <1>2, <1>8, <2>1, Steps0 DEF Out!OutboundInv, Out!CallSoFar
  <2>. QED  BY <1>1, <1>7, <2>1, <2>2 DEF Out!ReturnedIsDone
<1>. QED  BY <1>3, <1>4, <1>5, <1>6, <1>9, <1>10 DEF Out!OutboundInv

(* A script is at work on the routes. *)
LEMMA RoutesWork ==
  ASSUME Out!OutboundInv, UNCHANGED <<Out!progress, known>>, Out!RoutesStep,
         Out!Doing("routes", script.stage), script'.stage \in {"want", "route"}, script.stage # "block",
         routes' \subseteq Target \X Gateway, lost' \subseteq routes', stuckRoutes' \subseteq routes',
         script' \in [stage : {"want", "route"}, targets : SUBSET Target,
                      left : SUBSET Target, gateway : Gateway \cup {NoGateway}],
         Out!RoutesSoFar'
  PROVE  Out!OutboundInv'
<1>0. Out!TypeOK /\ Out!InPlan /\ todo # << >> /\ Head(todo) = "routes"
  BY DEF Out!OutboundInv, Out!Doing
<1>1. returned = "none" /\ (call = "pause" => todo # <<"guard">>)
  BY <1>0, AtRoutes, Different, Plans, Steps0 DEF Out!InPlan
<1>2. Out!TypeOK'
  BY <1>0 DEF Out!progress, Out!RoutesStep, Out!firewall, Out!TypeOK
<1>3. Out!InPlan'
  BY <1>0 DEF Out!progress, Out!InPlan
<1>4. Out!GuardSoFar'
  BY DEF Out!RoutesStep, Out!firewall, Out!OutboundInv, Out!GuardSoFar, Out!GuardShownIsReal,
       Out!InForce
<1>5. Out!CallSoFar' /\ Out!ReturnedIsDone'
  <2>1. Out!GuardInEffect' = Out!GuardInEffect
    BY DEF Out!RoutesStep, Out!firewall, Out!GuardInEffect, Out!InForce, Out!RulesFor, Out!Blocked
  <2>. QED  BY <1>1, <2>1 DEF Out!progress, Out!OutboundInv, Out!CallSoFar, Out!ReturnedIsDone
<1>. QED  BY <1>2, <1>3, <1>4, <1>5 DEF Out!OutboundInv

LEMMA RoutesKeep ==
  ASSUME Out!OutboundConstants, Out!OutboundInv, Out!RoutesNext
  PROVE  Out!OutboundInv'
<1>0. Out!TypeOK /\ Out!RoutesSoFar
  BY DEF Out!OutboundInv
<1>1. CASE Out!RoutesRemoved
  <2>1. script.stage = "none" /\ script' = [stage |-> "want", targets |-> {}, left |-> {}, gateway |-> NoGateway]
    BY <1>1 DEF Out!RoutesRemoved, Out!Doing, Out!NoScript
  <2>2. routes \ lost \subseteq Out!Covered
    BY <1>0, <2>1 DEF Out!RoutesSoFar, Out!Covered
  <2>3. /\ routes' \subseteq lost' /\ lost' \subseteq routes' /\ routes' \subseteq Target \X Gateway
        /\ stuckRoutes' \subseteq routes'
    BY <1>0, <1>1, <2>2 DEF Out!RoutesRemoved, Out!LeaveRoutes, Out!Covered, Out!TypeOK
  <2>4. Out!RoutesSoFar'
    BY <2>1, <2>3 DEF Out!RoutesSoFar
  <2>5. Out!Doing("routes", script.stage) /\ UNCHANGED <<Out!progress, known>> /\ Out!RoutesStep
    BY <1>1, <2>1 DEF Out!RoutesRemoved
  <2>6. script' \in [stage : {"want", "route"}, targets : SUBSET Target,
                     left : SUBSET Target, gateway : Gateway \cup {NoGateway}]
    BY <2>1
  <2>. QED  BY <2>1, <2>3, <2>4, <2>5, <2>6, RoutesWork
<1>2. CASE Out!RemovalFails
  <2>1. PICK left \in SUBSET Out!Covered : Out!LeaveRoutes(left)
    BY <1>2 DEF Out!RemovalFails
  <2>2. script.stage = "none" /\ Out!Doing("routes", "none") /\ Out!StepEnds(TRUE) /\ Out!RoutesStep
    BY <1>2 DEF Out!RemovalFails, Out!Doing
  <2>3. routes \ lost \subseteq Out!Covered /\ Out!Covered \subseteq routes
    BY <1>0, <2>2 DEF Out!RoutesSoFar, Out!Covered
  <2>4. /\ routes' \subseteq lost' /\ lost' \subseteq routes' /\ routes' \subseteq Target \X Gateway
        /\ stuckRoutes' \subseteq routes'
    BY <1>0, <2>1, <2>3 DEF Out!LeaveRoutes, Out!TypeOK
  <2>5. known' \in [targets : SUBSET Target, gateway : Gateway \cup {NoGateway}]
    BY <1>2 DEF Out!RemovalFails, Out!NoRoutes
  <2>. QED  BY <2>2, <2>4, <2>5, RoutesEnd
<1>3. CASE Out!NoRoutesNeeded \/ Out!NoRouteAdapter
  <2>1. PICK err \in BOOLEAN : /\ Out!StepEnds(err)
                               /\ ~err => ~Out!WantsRoutes \/ policy.targets = {}
    BY <1>3 DEF Out!NoRoutesNeeded, Out!NoRouteAdapter
  <2>2. /\ Out!Doing("routes", "want") /\ Out!RoutesStep /\ UNCHANGED <<routes, lost, stuckRoutes>>
        /\ known' = [targets |-> {}, gateway |-> NoGateway]
    BY <1>3 DEF Out!NoRoutesNeeded, Out!NoRouteAdapter, Out!NoRoutes, Out!table
  <2>3. /\ routes' \subseteq lost' /\ lost' \subseteq routes' /\ routes' \subseteq Target \X Gateway
        /\ stuckRoutes' \subseteq routes'
    BY <1>0, <2>2 DEF Out!Doing, Out!RoutesSoFar, Out!TypeOK
  <2>4. policy.targets = {} => Out!RoutesInEffect'
    BY <2>2, <2>3 DEF Out!RoutesInEffect, Out!RoutesStep
  <2>. QED  BY <2>1, <2>2, <2>3, <2>4, RoutesEnd
<1>4. CASE Out!RoutesApplied
  <2>0. script.stage = "route" /\ Out!Doing("routes", "route") /\ Out!StepEnds(FALSE) /\ Out!RoutesStep /\ UNCHANGED <<routes, lost, stuckRoutes>>
    BY <1>4 DEF Out!RoutesApplied, Out!Doing, Out!table
  <2>1. /\ known' = [targets |-> script.targets, gateway |-> script.gateway]
        /\ script.left = {} /\ script.targets \subseteq Target /\ script.gateway \in Gateway
    BY <1>0, <1>4, <2>0 DEF Out!RoutesApplied, Out!TypeOK, Out!RoutesSoFar
  <2>2. \A r \in routes' \ lost' : Out!Removes(r)'
    BY <1>0, <2>0, <2>1 DEF Out!RoutesSoFar, Out!Removes
  <2>3. {r \in routes \ stuckRoutes : r[1] \in script.targets} = script.targets \X {script.gateway}
    <3>1. ASSUME NEW r \in routes \ stuckRoutes, r[1] \in script.targets
          PROVE  r \in script.targets \X {script.gateway}
      <4>1. \A t \in script.targets : \A q \in routes \ stuckRoutes : q[1] = t => q = Out!Route(t)
        BY <1>0, <2>0, <2>1 DEF Out!RoutesSoFar
      <4>2. r = Out!Route(r[1])
        BY <3>1, <4>1
      <4>. QED  BY <3>1, <4>2 DEF Out!Route
    <3>2. ASSUME NEW t \in script.targets PROVE <<t, script.gateway>> \in routes \ stuckRoutes
      BY <1>0, <2>0, <2>1, <3>2 DEF Out!RoutesSoFar, Out!Route
    <3>. QED  BY <3>1, <3>2
  <2>4. Out!WantsRoutes /\ policy.targets \subseteq script.targets
    BY <1>0, <2>0 DEF Out!RoutesSoFar
  <2>5. Out!RoutesInEffect'
    BY <2>0, <2>1, <2>3, <2>4 DEF Out!RoutesInEffect, Out!RoutesStep, Out!WantsRoutes
  <2>. QED  BY <1>0, <2>0, <2>1, <2>2, <2>5, <2>4, RoutesEnd DEF Out!TypeOK
<1>5. CASE Out!RoutesScriptFails
  <2>0. script.stage = "route" /\ Out!Doing("routes", "route") /\ Out!StepEnds(TRUE) /\ Out!RoutesStep /\ UNCHANGED <<routes, lost, stuckRoutes>>
    BY <1>5 DEF Out!RoutesScriptFails, Out!Doing, Out!table
  <2>1. known' = [targets |-> script.targets, gateway |-> NoGateway] /\ script.targets \subseteq Target
    BY <1>0, <1>5 DEF Out!RoutesScriptFails, Out!NoRoutes, Out!TypeOK
  <2>2. \A r \in routes' \ lost' : Out!Removes(r)'
    BY <1>0, <2>0, <2>1 DEF Out!RoutesSoFar, Out!Removes
  <2>. QED  BY <1>0, <2>0, <2>1, <2>2, RoutesEnd DEF Out!TypeOK
<1>6. ASSUME NEW targets \in SUBSET Target, NEW g \in Gateway, Out!RoutesBegin(targets, g)
      PROVE  Out!OutboundInv'
  <2>1. /\ script.stage = "want" /\ Out!Doing("routes", "want") /\ Out!RoutesStep /\ UNCHANGED <<Out!progress, routes, known, lost, stuckRoutes>>
        /\ script' = [stage |-> "route", targets |-> targets, left |-> targets, gateway |-> g]
        /\ Out!WantsRoutes /\ policy.targets \subseteq targets
    BY <1>6 DEF Out!RoutesBegin, Out!Doing, Out!table
  <2>2. Out!RoutesSoFar'
    BY <1>0, <2>1 DEF Out!RoutesSoFar, Out!WantsRoutes, Out!RoutesStep, Out!progress
  <2>. QED  BY <1>0, <2>1, <2>2, RoutesWork DEF Out!TypeOK
<1>7. ASSUME NEW t \in Target, Out!RouteAdds(t) PROVE Out!OutboundInv'
  <2>1. /\ script.stage = "route" /\ Out!Doing("routes", "route") /\ Out!RoutesStep /\ UNCHANGED <<Out!progress, known>>
        /\ script' = [script EXCEPT !.left = script.left \ {t}] /\ t \in script.left
        /\ \E left \in SUBSET Out!Stale(t) :
             /\ routes' = (routes \ Out!Stale(t)) \cup left \cup {Out!Route(t)}
             /\ stuckRoutes' = (stuckRoutes \ (Out!Stale(t) \cup {Out!Route(t)})) \cup left
        /\ lost' = (lost \cap routes') \ {Out!Route(t)}
    BY <1>7 DEF Out!RouteAdds, Out!Doing
  <2>2. /\ script'.stage = "route" /\ script'.targets = script.targets /\ script'.left = script.left \ {t}
        /\ script'.gateway = script.gateway
    BY <1>0, <2>1 DEF Out!TypeOK
  <2>3. /\ Out!WantsRoutes /\ policy.targets \subseteq script.targets
        /\ script.left \subseteq script.targets /\ script.gateway \in Gateway /\ script.targets \subseteq Target
        /\ routes \ lost \subseteq script.targets \X {script.gateway}
        /\ \A u \in script.targets \ script.left :
             /\ Out!Route(u) \in routes \ stuckRoutes
             /\ \A r \in routes \ stuckRoutes : r[1] = u => r = Out!Route(u)
    BY <1>0, <2>1 DEF Out!RoutesSoFar, Out!TypeOK
  <2>r. \A u : Out!Route(u) = <<u, script.gateway>>
    BY DEF Out!Route
  <2>s. Out!Stale(t) = {r \in routes : r[1] = t} \ {Out!Route(t)}
    BY DEF Out!Stale
  <2>4. routes' \ lost' \subseteq script.targets \X {script.gateway}
    BY <2>1, <2>3, <2>r, <2>s
  <2>5. ASSUME NEW u \in script.targets \ script'.left
        PROVE  /\ Out!Route(u) \in routes' \ stuckRoutes'
               /\ \A r \in routes' \ stuckRoutes' : r[1] = u => r = Out!Route(u)
    <3>1. CASE u = t
      BY <2>1, <2>s, <3>1
    <3>2. CASE u # t
      BY <2>1, <2>2, <2>3, <2>r, <2>s, <3>2
    <3>. QED  BY <3>1, <3>2
  <2>6. Out!RoutesSoFar'
    BY <2>1, <2>2, <2>3, <2>4, <2>5 DEF Out!RoutesSoFar, Out!WantsRoutes, Out!RoutesStep,
         Out!Route, Out!progress
  <2>7. routes' \subseteq Target \X Gateway /\ lost' \subseteq routes' /\ stuckRoutes' \subseteq routes'
    BY <1>0, <2>1, <2>3, <2>r, <2>s DEF Out!TypeOK
  <2>8. script' \in [stage : {"want", "route"}, targets : SUBSET Target,
                     left : SUBSET Target, gateway : Gateway \cup {NoGateway}]
    BY <1>0, <2>1, <2>3 DEF Out!TypeOK
  <2>. QED  BY <2>1, <2>2, <2>6, <2>7, <2>8, RoutesWork
<1>. QED  BY <1>1, <1>2, <1>3, <1>4, <1>5, <1>6, <1>7 DEF Out!RoutesNext

-----------------------------------------------------------------------------
LEMMA OutNextKeeps == Out!OutboundConstants /\ Out!OutboundInv /\ [Out!Next]_Out!vars => Out!OutboundInv'
<1> SUFFICES ASSUME Out!OutboundConstants, Out!OutboundInv, [Out!Next]_Out!vars PROVE Out!OutboundInv'
  OBVIOUS
<1>1. CASE UNCHANGED Out!vars
  BY <1>1 DEF Out!vars, Out!progress, Out!firewall, Out!table, Out!memory, Out!OutboundInv, Out!TypeOK,
       Out!InPlan, Out!RoutesSoFar, Out!GuardSoFar,
       Out!CallSoFar, Out!ReturnedIsDone, Out!GuardShownIsReal, Out!GuardInEffect,
       Out!RoutesInEffect, Out!Removes, Out!Blocked, Out!InForce, Out!RulesFor, Out!Route,
       Out!WantsGuard, Out!WantsRoutes
<1>2. CASE Out!Exit \/ Out!Crash
  <2>1. Out!Restart /\ crashes' \in Nat
    BY <1>2 DEF Out!Exit, Out!Crash, Out!OutboundInv, Out!TypeOK
  <2>. QED  BY <2>1, RestartKeeps
<1>. QED
  BY <1>1, <1>2, CallKeeps, EarlyFailureKeeps, GuardKeeps, RoutesKeep DEF Out!Next, Out!Steps

(* The inductive invariant, for any settings, programs, adapters, nodes and  *)
(* gateways, with crashes and failures at every step.                        *)
THEOREM OutboundInvariance == Out!OutboundConstants => (Out!Spec => []Out!OutboundInv)
<1> SUFFICES ASSUME Out!OutboundConstants PROVE Out!Spec => []Out!OutboundInv
  OBVIOUS
<1>1. Out!Init => Out!OutboundInv
  BY OutInitInv
<1>2. Out!OutboundInv /\ [Out!Next]_Out!vars => Out!OutboundInv'
  BY OutNextKeeps
<1>. QED  BY <1>1, <1>2, PTL DEF Out!Spec

LEMMA InvImplies == Out!OutboundInv => Out!RoutesKnown /\ Out!GuardShownIsReal /\ Out!ReturnedIsDone
<1> SUFFICES ASSUME Out!OutboundInv PROVE Out!RoutesKnown
  BY DEF Out!OutboundInv, Out!GuardSoFar
<1>1. Out!TypeOK /\ Out!RoutesSoFar
  BY DEF Out!OutboundInv
<1>2. script.stage \in {"none", "block", "want", "route"}
  BY <1>1 DEF Out!TypeOK
<1>. QED  BY <1>1, <1>2 DEF Out!RoutesSoFar, Out!RoutesKnown

-----------------------------------------------------------------------------
LEMMA OutsideInvariant == AppSpec => []Out!OutboundInv
<1>1. Out!Spec => []Out!OutboundInv
  BY AppCallsAssumption, OutboundInvariance
<1>. QED  BY <1>1, AppInitRefines, AppStepRefines, PTL DEF AppSpec, Out!Spec

(* No route of PRM's is left in the system's table that no status names,     *)
(* save those a removal cut short or not carried out, or a crash, has made   *)
(* it forget.                                                                *)
THEOREM RoutesStayKnown == AppSpec => []RoutesKnown
<1>1. Out!OutboundInv => RoutesKnown
  BY InvImplies DEF RoutesKnown
<1>. QED  BY <1>1, OutsideInvariant, PTL

(* A guard shown as applied has all its rules in the firewall, and there are *)
(* no others but those its own script was to remove and passed over.         *)
THEOREM GuardStaysReal == AppSpec => []GuardShownIsReal
<1>1. Out!OutboundInv => GuardShownIsReal
  BY InvImplies DEF GuardShownIsReal
<1>. QED  BY <1>1, OutsideInvariant, PTL
-----------------------------------------------------------------------------
LEMMA PauseInit == AppInit => PauseSoFar
  BY AppCallsAssumption DEF AppInit, Init, Out!Init, PauseSoFar

(* What a step outside does to the progress of a call. *)
LEMMA OutsideProgress ==
  /\ Out!Steps => /\ returned' \in {"none", returned, call} /\ call' \in {"none", call}
                  /\ returned' = "pause" => returned = "pause" \/ (call = "pause" /\ ~failed)
                  /\ call' = "pause" /\ ~failed' => ~failed
  /\ Out!Calls => returned' = "none"
<1>1. ASSUME NEW err \in BOOLEAN, Out!StepEnds(err)
      PROVE  /\ returned' \in {"none", call} /\ call' \in {"none", call}
             /\ returned' = "pause" => call = "pause" /\ ~failed
             /\ call' = "pause" /\ ~failed' => ~failed
  BY <1>1 DEF Out!StepEnds
<1>2. Out!GuardNext => (\E err \in BOOLEAN : Out!StepEnds(err)) \/ UNCHANGED Out!progress
  BY DEF Out!GuardNext, Out!GuardRemoved, Out!GuardRemovalFails, Out!PrepareFails, Out!GuardRefuses,
       Out!GuardClears, Out!GuardApplied, Out!GuardScriptFails, Out!PrepareFinds, Out!PrepareUnsaved,
       Out!GuardBlocks
<1>3. Out!RoutesNext => (\E err \in BOOLEAN : Out!StepEnds(err)) \/ UNCHANGED Out!progress
  BY DEF Out!RoutesNext, Out!RoutesRemoved, Out!RemovalFails, Out!NoRoutesNeeded,
       Out!NoRouteAdapter,
       Out!RoutesApplied, Out!RoutesScriptFails, Out!RoutesBegin, Out!RouteAdds
<1>4. Out!Calls => returned' = "none"
  BY DEF Out!Calls, Out!SaveSettings, Out!SaveFails, Out!ImportConfig, Out!PauseTrafficRouting,
       Out!RefreshStatus, Out!Shutdown, Out!OtherCall, Out!SetNetworkAdapterEnabled, Out!Begin
<1>. QED  BY <1>1, <1>2, <1>3, <1>4 DEF Out!Steps, Out!progress

LEMMA PauseStep == PauseSoFar /\ [AppNext]_<<vars, outside>> => PauseSoFar'
<1> SUFFICES ASSUME PauseSoFar, [AppNext]_<<vars, outside>> PROVE PauseSoFar'
  OBVIOUS
<1> USE DEF PauseSoFar, Goto
<1>0. Callers = {"ui"}
  BY AppCallsAssumption
<1>1. ASSUME WindowCalls PROVE PauseSoFar'
  <2>1. returned' = "none" /\ call = "none" /\ pc["ui"] = "idle" /\ ~restart
    BY <1>1, OutsideProgress DEF WindowCalls, StartService, StopService, PauseTrafficRouting,
         OutsideCall, Elsewhere, SaveAll, SaveAllFails, ImportAll, CallStart, CallStop, SaveSettings, SaveFails,
         ImportConfig, Drift, Call, Out!Calls, Out!SaveSettings, Out!SaveFails, Out!ImportConfig,
         Out!PauseTrafficRouting, Out!RefreshStatus, Out!Shutdown, Out!OtherCall,
         Out!SetNetworkAdapterEnabled, Out!Begin
  <2>2. CASE StartService \/ StopService
    BY <1>0, <2>1, <2>2 DEF StartService, StopService, CallStart, CallStop, Out!OtherCall
  <2>3. CASE PauseTrafficRouting
    BY <1>0, <2>1, <2>3 DEF PauseTrafficRouting, CallStop, Elsewhere, servers,
         Out!PauseTrafficRouting, Out!Begin
  <2>4. CASE OutsideCall
    BY <2>1, <2>4 DEF OutsideCall, Elsewhere, servers, Out!RefreshStatus, Out!Shutdown,
         Out!SetNetworkAdapterEnabled, Out!Begin
  <2>5. ASSUME NEW s \in Settings, SaveAll(s) PROVE PauseSoFar'
    BY <1>0, <2>1, <2>5 DEF SaveAll, SaveSettings, Out!SaveSettings, Out!Begin
  <2>6. ASSUME NEW s \in Settings, SaveAllFails(s) \/ ImportAll(s) PROVE PauseSoFar'
    BY <2>1, <2>6 DEF SaveAllFails, ImportAll, SaveFails, ImportConfig, Drift, Out!SaveFails,
         Out!ImportConfig, Out!Begin
  <2>. QED  BY <1>1, <2>2, <2>3, <2>4, <2>5, <2>6 DEF WindowCalls
<1>2. ASSUME ServerSteps PROVE PauseSoFar'
  <2>1. CASE StartEnds
    <3>1. call' \in {"none", call} /\ (call # "save" => call' = call) /\ failed' = failed /\ returned' = returned
      BY <2>1 DEF StartEnds, Out!StartFails, outside
    <3>. QED  BY <1>0, <2>1, <3>1 DEF StartEnds, Listen
  <2>2. CASE StopGivesUp
    <3>1. call' = call /\ returned' = returned /\ (call = "pause" => failed')
      BY <2>2 DEF StopGivesUp, Out!StopFails, outside
    <3>. QED  BY <1>0, <2>2, <3>1 DEF StopGivesUp, StopTimesOut, Leave
  <2>3. CASE UNCHANGED outside
    <3>1. UNCHANGED <<call, failed, returned>>
      BY <2>3 DEF outside
    <3>2. CASE \E i \in DOMAIN socks : Serve(i)
      BY <3>1, <3>2 DEF Serve
    <3>3. CASE StartFinds("ui") \/ StartResets("ui") \/ StartBegins("ui") \/ MakeHttp("ui") \/ StartReturns("ui")
      <4>1. /\ pc["ui"] \in {"start", "make", "mark"} /\ UNCHANGED restart
            /\ \E l \in {"idle", "make", "listen"} : pc' = [pc EXCEPT !["ui"] = l]
        BY <3>3 DEF StartFinds, StartResets, StartBegins, MakeHttp, StartReturns
      <4>. QED  BY <1>0, <3>1, <4>1
    <3>4. CASE StopCloses("ui") \/ StopWaits("ui")
      BY <1>0, <3>1, <3>4 DEF StopCloses, StopWaits
    <3>5. CASE StopReturns("ui")
      BY <1>0, <3>1, <3>5 DEF StopReturns, Leave
    <3>6. CASE Rebuild("ui")
      BY <1>0, <3>1, <3>6 DEF Rebuild
    <3>7. CASE StartEnds \/ StopGivesUp
      BY <2>1, <2>2, <3>7
    <3>. QED  BY <1>2, <3>2, <3>3, <3>4, <3>5, <3>6, <3>7 DEF ServerSteps
  <2>. QED  BY <1>2, <2>1, <2>2, <2>3 DEF ServerSteps
<1>3. CASE OutsideSteps
  <2>1. pc["ui"] = "idle" /\ UNCHANGED <<pc, restart, running>> /\ Out!Steps
    BY <1>3 DEF OutsideSteps, servers
  <2>. QED  BY <2>1, OutsideProgress
<1>4. CASE PacFails
  BY <1>4 DEF PacFails, servers, Out!StartFails
<1>5. CASE AppRestart
  <2>1. call' = "startup" /\ returned' = "none"
    BY <1>5 DEF AppRestart, Out!Exit, Out!Crash, Out!Restart, Out!Boots
  <2>2. pc' = [c \in Callers |-> "idle"] /\ restart' = FALSE
    BY <1>5 DEF AppRestart, ServersRestart
  <2>. QED  BY <1>0, <2>1, <2>2
<1>6. CASE UNCHANGED <<vars, outside>>
  BY <1>6 DEF vars, outside
<1>. QED  BY <1>1, <1>2, <1>3, <1>4, <1>5, <1>6 DEF AppNext

LEMMA PauseInvariant == AppSpec => []PauseSoFar
  BY PauseInit, PauseStep, PTL DEF AppSpec

(* A call that returned no error has made all it was asked to, over whatever *)
(* calls that failed half-way have left, and has left of the rest only what  *)
(* the scripts failed to remove without an error.                            *)
THEOREM ReturnedStaysDone == AppSpec => []ReturnedIsDone
<1>1. Out!OutboundInv /\ PauseSoFar => ReturnedIsDone
  BY InvImplies DEF ReturnedIsDone, PauseSoFar
<1>. QED  BY <1>1, PauseInvariant, OutsideInvariant, PTL
-----------------------------------------------------------------------------
(* The servers under one caller: a new Server object, a listener forgotten   *)
(* and a server shut down are what the steps are made of.                    *)

(* An element of a sequence. *)
LEMMA ElementOf == ASSUME NEW S, NEW s \in Seq(S), NEW k \in DOMAIN s PROVE s[k] \in S
  OBVIOUS

(* One element of a sequence replaced. *)
LEMMA ReplaceOne ==
  ASSUME NEW S, NEW s \in Seq(S), NEW k \in DOMAIN s, NEW x \in S, NEW t, t = [s EXCEPT ![k] = x]
  PROVE  /\ s[k] \in S /\ t \in Seq(S) /\ Len(t) = Len(s) /\ DOMAIN t = DOMAIN s
         /\ t[k] = x /\ \A j \in DOMAIN s : j # k => t[j] = s[j]
  OBVIOUS

(* A new Server object leaves the sockets and their goroutines alone. *)
Added(a) ==
  /\ objs' \in Seq([addr : Addresses, http : Nat, listener : Nat])
  /\ Current' = Current + 1 /\ Current \in Nat /\ DOMAIN objs' = 1..Current' /\ DOMAIN objs = 1..Current
  /\ objs'[Current'].addr = a /\ objs'[Current'].http = 0 /\ objs'[Current'].listener = 0
  /\ \A o \in DOMAIN objs : o \in DOMAIN objs' /\ objs'[o] = objs[o] /\ o # Current'
  /\ \A o \in DOMAIN objs' : objs'[o].http \in 0..Len(https)
  /\ \A i \in DOMAIN socks : Live(i)' = Live(i)

LEMMA NewServerKeeps ==
  ASSUME ServerTypes, NEW a \in Addresses, objs' = Append(objs, NewServer(a)), UNCHANGED <<https, socks>>
  PROVE  Added(a)
<1>1. Len(objs) \in Nat /\ DOMAIN objs = 1..Len(objs)
  BY DEF ServerTypes
<1>2. NewServer(a) \in [addr : Addresses, http : Nat, listener : Nat]
      /\ NewServer(a).http = 0 /\ NewServer(a).addr = a /\ NewServer(a).listener = 0
  BY DEF NewServer
<1>3. /\ objs' \in Seq([addr : Addresses, http : Nat, listener : Nat])
      /\ Len(objs') = Len(objs) + 1 /\ objs'[Len(objs) + 1] = NewServer(a) /\ DOMAIN objs' = 1..(Len(objs) + 1)
      /\ \A o \in DOMAIN objs : objs'[o] = objs[o]
  BY <1>1, <1>2 DEF ServerTypes
<1>4. \A o \in DOMAIN objs' : objs'[o].http \in 0..Len(https)
  BY <1>1, <1>2, <1>3 DEF ServerTypes
<1>5. \A o \in DOMAIN objs : o \in DOMAIN objs' /\ objs'[o] = objs[o] /\ o # Current'
  BY <1>1, <1>3 DEF Current
<1>6. \A i \in DOMAIN socks : Live(i)' = Live(i)
  BY <1>5 DEF Live, ServerTypes
<1>. QED  BY <1>1, <1>2, <1>3, <1>4, <1>5, <1>6 DEF Current, Added

(* The types of what is no sequence. *)
PlainTypes ==
  /\ cfg \in Addresses /\ running \in BOOLEAN /\ timedOut \in BOOLEAN /\ drifted \in {"no", "address", "object"}
  /\ mine \in [Callers -> Nat]

LEMMA AddedTypes ==
  ASSUME ServerTypes, NEW a \in Addresses, Added(a), UNCHANGED <<https, socks>>, PlainTypes'
  PROVE  ServerTypes'
<1>1. https' \in Seq(BOOLEAN) /\ socks' \in Seq([addr : Addresses, obj : Nat, open : BOOLEAN, http : Nat])
  BY DEF ServerTypes
<1>2. Current' # 0 /\ (\A o \in DOMAIN objs' : objs'[o].http \in 0..Len(https'))
  BY DEF Added
<1>3. \A i \in DOMAIN socks' : socks'[i].obj \in DOMAIN objs'
  BY DEF Added, ServerTypes
<1>. QED  BY <1>1, <1>2, <1>3 DEF ServerTypes, Added, PlainTypes

LEMMA SameObjects ==
  ASSUME UNCHANGED <<objs, https, socks>>
  PROVE  /\ Current' = Current /\ Listens(Current)' = Listens(Current)
         /\ \A i \in DOMAIN socks : Live(i)' = Live(i)
         /\ ServerTypes /\ PlainTypes' => ServerTypes'
         /\ ServedByTheirOwn => ServedByTheirOwn'
  BY DEF Current, Listens, Live, ServerTypes, PlainTypes, ServedByTheirOwn

ObjectRecord == [addr : Addresses, http : Nat, listener : Nat]
SocketRecord == [addr : Addresses, obj : Nat, open : BOOLEAN, http : Nat]

(* A listener forgotten. *)
LEMMA ForgetKeeps ==
  ASSUME ServerTypes, NEW k \in DOMAIN objs, NEW f, f = Forget(k)
  PROVE  /\ f \in Seq(ObjectRecord) /\ Len(f) = Len(objs) /\ DOMAIN f = DOMAIN objs
         /\ \A o \in DOMAIN objs : f[o].http = objs[o].http /\ f[o].addr = objs[o].addr
<1>1. objs \in Seq(ObjectRecord)
  BY DEF ServerTypes, ObjectRecord
<1>2. objs[k] \in ObjectRecord
  BY ONLY <1>1, k \in DOMAIN objs, ElementOf
<1>3. PICK r : r = [objs[k] EXCEPT !.listener = 0]
  OBVIOUS
<1>4. r \in ObjectRecord /\ r.http = objs[k].http /\ r.addr = objs[k].addr
  BY ONLY <1>2, <1>3 DEF ObjectRecord
<1>5. f = [objs EXCEPT ![k] = r]
  BY <1>3 DEF Forget
<1>. QED  BY ONLY <1>1, <1>4, <1>5, k \in DOMAIN objs, ReplaceOne

(* What shutting a server down, or doing nothing without a listener, leaves  *)
(* of the sockets.                                                           *)
Stopped ==
  /\ https' \in Seq(BOOLEAN) /\ Len(https') = Len(https)
  /\ socks' \in Seq(SocketRecord) /\ DOMAIN socks' = DOMAIN socks
  /\ \A i \in DOMAIN socks :
       /\ socks'[i].obj = socks[i].obj /\ socks'[i].http = socks[i].http
       /\ socks'[i].open =>
            /\ socks[i].open
            /\ socks[i].http # 0 => ~https'[objs[socks[i].obj].http]
            /\ drifted # "object" => https'[objs[socks[i].obj].http]

LEMMA StopServerKeeps ==
  ASSUME ServersSoFar, StopServer(Current)
  PROVE  Stopped
<1>1. ServerTypes /\ ServedByTheirOwn /\ OnlyTheCurrent
  BY DEF ServersSoFar
<1>2. /\ https \in Seq(BOOLEAN) /\ socks \in Seq(SocketRecord) /\ Len(https) \in Nat
      /\ Current \in DOMAIN objs /\ objs[Current].http \in 0..Len(https)
  BY <1>1 DEF ServerTypes, SocketRecord, Current
<1>3. CASE objs[Current].listener = 0
  <2>1. UNCHANGED <<https, socks>>
    BY <1>3 DEF StopServer
  <2>2. \A i \in DOMAIN socks : i # 0
    BY <1>2
  <2>. QED  BY <1>1, <1>2, <1>3, <2>1, <2>2 DEF Stopped, ServedByTheirOwn, OnlyTheCurrent, Live
<1>4. CASE objs[Current].listener # 0
  <2>1. PICK h : h = objs[Current].http
    OBVIOUS
  <2>2. Shut(h)
    BY <1>4, <2>1 DEF StopServer
  <2>3. /\ https' \in Seq(BOOLEAN) /\ Len(https') = Len(https)
        /\ h \in 1..Len(https) => https'[h]
        /\ \A g \in 1..Len(https) : g # h => https'[g] = https[g]
    <3>0. DOMAIN https = 1..Len(https) /\ TRUE \in BOOLEAN
      BY <1>2
    <3>1. https' = [https EXCEPT ![h] = TRUE]
      BY <2>2 DEF Shut
    <3>2. CASE h \in DOMAIN https
      <4>1. /\ https' \in Seq(BOOLEAN) /\ Len(https') = Len(https) /\ https'[h] = TRUE
            /\ \A g \in DOMAIN https : g # h => https'[g] = https[g]
        BY ONLY <1>2, <3>0, <3>1, <3>2, ReplaceOne
      <4>. QED  BY <3>0, <4>1
    <3>3. CASE h \notin DOMAIN https
      <4>1. https' = https
        BY ONLY <1>2, <3>1, <3>3
      <4>. QED  BY <1>2, <3>0, <3>3, <4>1
    <3>. QED  BY <3>2, <3>3
  <2>4. \A i \in DOMAIN socks : socks[i] \in SocketRecord
    BY <1>2, ElementOf
  <2>5. ASSUME NEW i \in DOMAIN socks
        PROVE  /\ socks'[i] \in SocketRecord
               /\ socks'[i].obj = socks[i].obj /\ socks'[i].http = socks[i].http
               /\ socks'[i].open => socks[i].open /\ socks[i].http # h
    <3>1. socks'[i] = IF socks[i].http = h THEN [socks[i] EXCEPT !.open = FALSE] ELSE socks[i]
      BY <2>2 DEF Shut
    <3>. QED  BY <2>4, <3>1 DEF SocketRecord
  <2>6. DOMAIN socks' = DOMAIN socks /\ socks' \in Seq(SocketRecord)
    <3>1. DOMAIN socks' = DOMAIN socks /\ socks' = [i \in DOMAIN socks |-> socks'[i]]
      BY <2>2 DEF Shut
    <3>2. DOMAIN socks = 1..Len(socks) /\ Len(socks) \in Nat
      BY <1>2
    <3>. QED  BY <2>5, <3>1, <3>2
  <2>7. \A i \in DOMAIN socks : objs[socks[i].obj].http \in 0..Len(https)
    BY <1>1 DEF ServerTypes
  <2>8. ASSUME NEW i \in DOMAIN socks, socks'[i].open
        PROVE  /\ socks[i].http # 0 => ~https'[objs[socks[i].obj].http]
               /\ drifted # "object" => https'[objs[socks[i].obj].http]
    <3>1. socks[i].open /\ objs[socks[i].obj].http \in 1..Len(https) /\ socks[i].http # h
      BY <1>1, <1>2, <2>5, <2>7, <2>8 DEF ServedByTheirOwn
    <3>2. CASE https[objs[socks[i].obj].http]
      BY <1>1, <2>3, <3>1, <3>2 DEF ServedByTheirOwn, Live
    <3>3. CASE ~https[objs[socks[i].obj].http]
      BY <1>1, <2>1, <2>3, <3>1, <3>3 DEF ServedByTheirOwn, OnlyTheCurrent, Live
    <3>. QED  BY <3>2, <3>3
  <2>. QED  BY <2>3, <2>5, <2>6, <2>8 DEF Stopped
<1>. QED  BY <1>3, <1>4

(* Each step of the one caller, and of the goroutines, keeps the invariant.  *)
LEMMA ServerActions ==
  ASSUME PauseSoFar, ServersSoFar
  PROVE  /\ CallStart("ui") \/ CallStop => ServersSoFar'
         /\ \A a \in Addresses : SaveSettings(a) \/ SaveFails(a) \/ ImportConfig(a) => ServersSoFar'
         /\ StartFinds("ui") \/ StartResets("ui") \/ StartBegins("ui") \/ MakeHttp("ui") \/ Listen("ui")
              \/ StartReturns("ui") => ServersSoFar'
         /\ StopCloses("ui") \/ StopWaits("ui") \/ StopTimesOut("ui") \/ StopReturns("ui") \/ Rebuild("ui")
              => ServersSoFar'
         /\ (\E i \in DOMAIN socks : Serve(i)) => ServersSoFar'
<1>0. Callers = {"ui"}
  BY AppCallsAssumption
<1>1. ServerTypes /\ ServedByTheirOwn /\ OnlyTheCurrent /\ CurrentIsUsed /\ ConfiguredIsCurrent /\ PlainTypes
  BY DEF ServersSoFar, ServerTypes, PlainTypes
<1>2. pc \in [Callers -> {"idle", "start", "make", "listen", "mark", "stop", "wait", "drop", "rebuild"}]
      /\ (restart => pc["ui"] \in {"stop", "wait", "drop", "rebuild"})
  BY DEF PauseSoFar
<1>3. \A l : Goto("ui", l) => pc'["ui"] = l
  BY <1>0, <1>2 DEF Goto
<1>4. ASSUME StopReturns("ui") PROVE ServersSoFar'
  <2>1. /\ pc["ui"] = "drop" /\ running' = FALSE /\ objs' = Append(objs, NewServer(cfg)) /\ cfg \in Addresses
        /\ UNCHANGED <<cfg, https, socks, mine, restart, timedOut, drifted>>
    BY <1>1, <1>4 DEF StopReturns, ServerTypes
  <2>2. pc'["ui"] = IF restart THEN "rebuild" ELSE "idle"
    BY <1>3, <1>4 DEF StopReturns, Leave
  <2>3. Added(cfg)
    BY <1>1, <2>1, NewServerKeeps
  <2>4. ServerTypes'
    BY <1>1, <2>1, <2>3, AddedTypes DEF PlainTypes
  <2>5. ServedByTheirOwn'
    BY <1>1, <2>1, <2>3 DEF ServerTypes, ServedByTheirOwn, Added
  <2>6. OnlyTheCurrent'
    BY <1>1, <2>1, <2>3 DEF OnlyTheCurrent, Added
  <2>7. CurrentIsUsed'
    BY <1>1, <2>1, <2>2, <2>3 DEF CurrentIsUsed, ServerTypes, Added
  <2>8. ConfiguredIsCurrent'
    BY <2>1, <2>2, <2>3 DEF ConfiguredIsCurrent, Added
  <2>. QED  BY <2>4, <2>5, <2>6, <2>7, <2>8 DEF ServersSoFar
<1>5. ASSUME Rebuild("ui") PROVE ServersSoFar'
  <2>1. /\ pc["ui"] = "rebuild" /\ restart' = FALSE /\ objs' = Append(objs, NewServer(cfg)) /\ cfg \in Addresses
        /\ UNCHANGED <<cfg, running, https, socks, mine, timedOut, drifted>>
    BY <1>1, <1>5 DEF Rebuild, ServerTypes
  <2>2. pc'["ui"] \in {"start", "idle"}
    BY <1>3, <1>5 DEF Rebuild
  <2>3. Added(cfg)
    BY <1>1, <2>1, NewServerKeeps
  <2>4. ServerTypes'
    BY <1>1, <2>1, <2>3, AddedTypes DEF PlainTypes
  <2>5. ServedByTheirOwn'
    BY <1>1, <2>1, <2>3 DEF ServerTypes, ServedByTheirOwn, Added
  <2>6. OnlyTheCurrent'
    BY <1>1, <2>1, <2>3 DEF OnlyTheCurrent, Added
  <2>7. CurrentIsUsed'
    BY <1>1, <2>1, <2>2, <2>3 DEF CurrentIsUsed, ServerTypes, Added
  <2>8. ConfiguredIsCurrent'
    BY <1>1, <2>1, <2>2, <2>3 DEF ConfiguredIsCurrent, Added
  <2>. QED  BY <2>4, <2>5, <2>6, <2>7, <2>8 DEF ServersSoFar
<1>6. ASSUME NEW a \in Addresses, ImportConfig(a) PROVE ServersSoFar'
  <2>1. /\ pc["ui"] = "idle" /\ cfg' = a /\ objs' = Append(objs, NewServer(a))
        /\ drifted' = IF running THEN "object" ELSE drifted
        /\ UNCHANGED <<pc, running, https, socks, mine, restart, timedOut>>
    BY <1>6 DEF ImportConfig, Drift, Call
  <2>3. Added(a)
    BY <1>1, <2>1, NewServerKeeps
  <2>4. ServerTypes'
    <3>1. PlainTypes'
      BY <1>1, <2>1 DEF PlainTypes
    <3>. QED  BY <1>1, <2>1, <2>3, <3>1, AddedTypes
  <2>5. ServedByTheirOwn'
    BY <1>1, <2>1, <2>3 DEF ServerTypes, ServedByTheirOwn, Added
  <2>6. OnlyTheCurrent'
    BY <1>1, <2>1, <2>3 DEF OnlyTheCurrent, Added
  <2>7. CurrentIsUsed'
    BY <1>1, <2>1, <2>3 DEF CurrentIsUsed, ServerTypes, Added
  <2>8. ConfiguredIsCurrent'
    BY <1>1, <2>1, <2>3 DEF ConfiguredIsCurrent, Added
  <2>. QED  BY <2>4, <2>5, <2>6, <2>7, <2>8 DEF ServersSoFar
<1>7. ASSUME StartFinds("ui") \/ StartBegins("ui") \/ StartReturns("ui") \/ CallStart("ui") \/ CallStop
      PROVE ServersSoFar'
  <2>1. UNCHANGED <<cfg, objs, https, socks, restart, drifted>>
    BY <1>7 DEF StartFinds, StartBegins, StartReturns, CallStart, CallStop
  <2>2. PlainTypes'
    <3>1. mine' \in [Callers -> Nat]
      <4>1. mine' = mine \/ mine' = [mine EXCEPT !["ui"] = Current]
        BY <1>7 DEF StartFinds, StartBegins, StartReturns, CallStart, CallStop
      <4>2. Current \in Nat /\ mine \in [Callers -> Nat]
        BY <1>1 DEF ServerTypes, Current
      <4>. QED  BY <4>1, <4>2
    <3>2. running' \in BOOLEAN /\ timedOut' \in BOOLEAN
      BY <1>1, <1>7 DEF PlainTypes, StartFinds, StartBegins, StartReturns, CallStart, CallStop
    <3>. QED  BY <1>1, <2>1, <3>1, <3>2 DEF PlainTypes
  <2>3. ServerTypes' /\ ServedByTheirOwn'
    BY <1>1, <2>1, <2>2, SameObjects
  <2>4. CASE StartFinds("ui") \/ CallStart("ui") \/ CallStop
    <3>1. pc["ui"] \in {"idle", "start"} /\ pc'["ui"] \in {"idle", "start", "stop"}
          /\ (CallStart("ui") \/ running) /\ UNCHANGED <<running, mine, timedOut>>
      BY <1>3, <2>4 DEF StartFinds, CallStart, CallStop, Call
    <3>2. OnlyTheCurrent'
      BY <1>1, <2>1, <3>1, SameObjects DEF OnlyTheCurrent
    <3>3. CurrentIsUsed'
      BY <1>1, <2>1, <3>1, SameObjects DEF CurrentIsUsed
    <3>4. ConfiguredIsCurrent'
      BY <1>1, <2>1, <3>1, SameObjects DEF ConfiguredIsCurrent
    <3>. QED  BY <2>3, <3>2, <3>3, <3>4 DEF ServersSoFar
  <2>5. CASE StartBegins("ui")
    <3>1. pc["ui"] = "start" /\ pc'["ui"] = "make" /\ ~running /\ mine'["ui"] = Current
          /\ UNCHANGED <<running, timedOut>>
      BY <1>0, <1>1, <1>3, <2>5 DEF StartBegins, PlainTypes
    <3>2. OnlyTheCurrent'
      BY <1>1, <2>1, <3>1, SameObjects DEF OnlyTheCurrent
    <3>3. CurrentIsUsed'
      BY <1>1, <2>1, <3>1, SameObjects DEF CurrentIsUsed
    <3>4. ConfiguredIsCurrent'
      BY <1>1, <2>1, <3>1, SameObjects DEF ConfiguredIsCurrent
    <3>. QED  BY <2>3, <3>2, <3>3, <3>4 DEF ServersSoFar
  <2>6. CASE StartReturns("ui")
    <3>1. pc["ui"] = "mark" /\ pc'["ui"] = "idle" /\ running' /\ ~timedOut' /\ mine' = mine
      BY <1>3, <2>6 DEF StartReturns
    <3>2. OnlyTheCurrent'
      BY <1>1, <2>1, <3>1, SameObjects DEF OnlyTheCurrent
    <3>3. CurrentIsUsed'
      BY <1>1, <2>1, <3>1, SameObjects DEF CurrentIsUsed
    <3>4. ConfiguredIsCurrent'
      BY <1>1, <2>1, <3>1, SameObjects DEF ConfiguredIsCurrent, CurrentIsUsed
    <3>. QED  BY <2>3, <3>2, <3>3, <3>4 DEF ServersSoFar
  <2>. QED  BY <1>7, <2>4, <2>5, <2>6
<1>8. ASSUME NEW a \in Addresses, SaveSettings(a) \/ SaveFails(a) PROVE ServersSoFar'
  <2>1. /\ UNCHANGED <<running, objs, https, socks, mine, timedOut>> /\ cfg' = a
        /\ pc["ui"] = "idle" /\ drifted' \in {drifted, "address"}
    BY <1>8 DEF SaveSettings, SaveFails, Drift, Call
  <2>2. ServerTypes' /\ ServedByTheirOwn'
    BY <1>1, <2>1, SameObjects DEF PlainTypes
  <2>3. CASE SaveSettings(a)
    <3>1. restart' = running /\ pc'["ui"] = (IF running THEN "stop" ELSE "rebuild") /\ drifted' = drifted
      BY <1>3, <2>3 DEF SaveSettings
    <3>2. OnlyTheCurrent'
      BY <1>1, <2>1, <3>1, SameObjects DEF OnlyTheCurrent
    <3>3. CurrentIsUsed'
      BY <1>1, <2>1, <3>1, SameObjects DEF CurrentIsUsed
    <3>4. ConfiguredIsCurrent'
      BY <1>1, <2>1, <3>1, SameObjects DEF ConfiguredIsCurrent
    <3>. QED  BY <2>2, <3>2, <3>3, <3>4 DEF ServersSoFar
  <2>4. CASE SaveFails(a)
    <3>1. UNCHANGED <<pc, restart>> /\ drifted' # "no" /\ (drifted' # "object" => drifted # "object")
      BY <2>4 DEF SaveFails, Drift
    <3>2. OnlyTheCurrent'
      BY <1>1, <2>1, <3>1, SameObjects DEF OnlyTheCurrent
    <3>3. CurrentIsUsed'
      BY <1>1, <2>1, <3>1, SameObjects DEF CurrentIsUsed
    <3>4. ConfiguredIsCurrent'
      BY <3>1 DEF ConfiguredIsCurrent
    <3>. QED  BY <2>2, <3>2, <3>3, <3>4 DEF ServersSoFar
  <2>. QED  BY <1>8, <2>3, <2>4
<1>9. ASSUME MakeHttp("ui") PROVE ServersSoFar'
  <2>1. /\ pc["ui"] = "make" /\ pc'["ui"] = "listen" /\ mine["ui"] = Current /\ ~running
        /\ UNCHANGED <<cfg, running, socks, mine, restart, timedOut, drifted>>
        /\ https' = Append(https, FALSE) /\ objs' = [objs EXCEPT ![Current].http = Len(https')]
    BY <1>1, <1>3, <1>9 DEF MakeHttp, CurrentIsUsed
  <2>2. /\ Len(https) \in Nat /\ Len(https') = Len(https) + 1 /\ https' \in Seq(BOOLEAN) /\ ~https'[Len(https')]
        /\ \A h \in 1..Len(https) : https'[h] = https[h]
    BY <1>1, <2>1 DEF ServerTypes
  <2>3. /\ DOMAIN objs' = DOMAIN objs /\ Current' = Current /\ Current \in DOMAIN objs
        /\ objs' \in Seq([addr : Addresses, http : Nat, listener : Nat])
        /\ objs'[Current].http = Len(https') /\ objs'[Current].addr = objs[Current].addr
        /\ \A o \in DOMAIN objs : o # Current => objs'[o] = objs[o]
    <3>1. Current \in DOMAIN objs /\ Len(https') \in Nat
      BY <1>1, <2>2 DEF ServerTypes, Current
    <3>2. objs \in Seq([addr : Addresses, http : Nat, listener : Nat])
      BY <1>1 DEF ServerTypes
    <3>3. objs[Current] \in [addr : Addresses, http : Nat, listener : Nat]
      BY ONLY <3>1, <3>2, ElementOf
    <3>4. PICK r : r = [objs[Current] EXCEPT !.http = Len(https')]
      OBVIOUS
    <3>5. r \in [addr : Addresses, http : Nat, listener : Nat] /\ r.http = Len(https') /\ r.addr = objs[Current].addr
      BY <3>1, <3>3, <3>4
    <3>6. objs' = [objs EXCEPT ![Current] = r]
      BY <2>1, <3>4
    <3>. QED  BY ONLY <3>1, <3>5, <3>6, <3>2, ReplaceOne DEF Current
  <2>4. \A i \in DOMAIN socks : socks[i].open => socks[i].obj # Current
    BY <1>1, <2>1 DEF CurrentIsUsed
  <2>5. \A i \in DOMAIN socks : socks[i].open => objs'[socks[i].obj] = objs[socks[i].obj] /\ Live(i)' = Live(i)
    <3>1. \A i \in DOMAIN socks : socks[i].open => objs[socks[i].obj].http \in 1..Len(https)
      <4>1. \A i \in DOMAIN socks : objs[socks[i].obj].http \in 0..Len(https)
        BY <1>1 DEF ServerTypes
      <4>2. \A i \in DOMAIN socks : socks[i].open => objs[socks[i].obj].http # 0
        BY <1>1 DEF ServedByTheirOwn
      <4>. QED  BY <2>2, <4>1, <4>2
    <3>. QED  BY <1>1, <2>1, <2>2, <2>3, <2>4, <3>1 DEF ServerTypes, Live
  <2>6. ServerTypes'
    <3>1. \A o \in DOMAIN objs' : objs'[o].http \in 0..Len(https')
      <4>1. \A o \in DOMAIN objs : objs[o].http \in 0..Len(https)
        BY <1>1 DEF ServerTypes
      <4>. QED  BY <2>2, <2>3, <4>1
    <3>. QED  BY <1>1, <2>1, <2>2, <2>3, <3>1 DEF ServerTypes
  <2>7. ServedByTheirOwn'
    BY <1>1, <2>1, <2>5 DEF ServedByTheirOwn
  <2>8. OnlyTheCurrent'
    BY <1>1, <2>1, <2>4, <2>5 DEF OnlyTheCurrent, Live
  <2>9. CurrentIsUsed'
    <3>1. objs'[Current'].http # 0 /\ ~https'[objs'[Current'].http]
      BY <2>2, <2>3
    <3>. QED  BY <2>1, <2>3, <2>4, <3>1 DEF CurrentIsUsed
  <2>10. ConfiguredIsCurrent'
    BY <1>1, <1>2, <2>1, <2>3 DEF ConfiguredIsCurrent
  <2>. QED  BY <2>6, <2>7, <2>8, <2>9, <2>10 DEF ServersSoFar
<1>10. ASSUME StopWaits("ui") \/ StopTimesOut("ui") PROVE ServersSoFar'
  <2>1. /\ pc["ui"] = "wait" /\ mine["ui"] = Current /\ objs' = Forget(Current)
        /\ UNCHANGED <<cfg, running, https, socks, mine, restart, drifted>>
        /\ timedOut' \in {timedOut, TRUE}
    BY <1>1, <1>10 DEF StopWaits, StopTimesOut, CurrentIsUsed
  <2>2. \/ pc'["ui"] = "drop"
        \/ timedOut' /\ pc'["ui"] = IF restart THEN "rebuild" ELSE "idle"
    BY <1>3, <1>10 DEF StopWaits, StopTimesOut, Leave
  <2>3. Current \in DOMAIN objs
    BY <1>1 DEF ServerTypes, Current
  <2>4. /\ objs' \in Seq(ObjectRecord) /\ Current' = Current /\ DOMAIN objs' = DOMAIN objs
        /\ \A o \in DOMAIN objs : objs'[o].http = objs[o].http /\ objs'[o].addr = objs[o].addr
    BY <1>1, <2>1, <2>3, ForgetKeeps DEF Current
  <2>5. ServerTypes'
    BY <1>1, <2>1, <2>4 DEF ServerTypes, ObjectRecord
  <2>6. \A i \in DOMAIN socks : Live(i)' = Live(i)
    BY <1>1, <2>1, <2>4 DEF ServerTypes, Live
  <2>7. ServedByTheirOwn'
    BY <1>1, <2>1, <2>4, <2>6 DEF ServerTypes, ServedByTheirOwn
  <2>8. OnlyTheCurrent'
    BY <1>1, <2>1, <2>6 DEF OnlyTheCurrent
  <2>9. CurrentIsUsed'
    BY <1>1, <2>1, <2>2, <2>4 DEF CurrentIsUsed
  <2>10. ConfiguredIsCurrent'
    BY <1>1, <2>1, <2>2, <2>3, <2>4 DEF ConfiguredIsCurrent
  <2>. QED  BY <2>5, <2>7, <2>8, <2>9, <2>10 DEF ServersSoFar
<1>11. ASSUME StopCloses("ui") PROVE ServersSoFar'
  <2>1. /\ pc["ui"] = "stop" /\ pc'["ui"] \in {"drop", "wait"} /\ mine' = [mine EXCEPT !["ui"] = Current]
        /\ UNCHANGED <<cfg, running, objs, restart, timedOut, drifted>>
    BY <1>3, <1>11 DEF StopCloses
  <2>2. Stopped
    BY <1>11, StopServerKeeps DEF StopCloses
  <2>3. Current' = Current /\ Current \in Nat /\ mine' \in [Callers -> Nat] /\ mine'["ui"] = Current
    BY <1>0, <1>1, <2>1 DEF ServerTypes, Current
  <2>4. ServerTypes'
    BY <1>1, <2>1, <2>2, <2>3 DEF ServerTypes, Stopped, SocketRecord
  <2>5. ServedByTheirOwn'
    BY <1>1, <2>1, <2>2 DEF ServedByTheirOwn, Stopped, Live
  <2>6. OnlyTheCurrent'
    BY <2>1, <2>2 DEF OnlyTheCurrent, Stopped, Live
  <2>7. CurrentIsUsed'
    BY <1>1, <2>1, <2>2, <2>3 DEF CurrentIsUsed, Stopped
  <2>8. ConfiguredIsCurrent'
    BY <1>1, <2>1, <2>3 DEF ConfiguredIsCurrent
  <2>. QED  BY <2>4, <2>5, <2>6, <2>7, <2>8 DEF ServersSoFar
<1>12. ASSUME StartResets("ui") PROVE ServersSoFar'
  <2>1. /\ pc["ui"] = "start" /\ pc'["ui"] = "make" /\ running' = FALSE
        /\ objs' = Append(Forget(Current), NewServer(cfg)) /\ mine' = [mine EXCEPT !["ui"] = Len(objs')]
        /\ UNCHANGED <<cfg, restart, timedOut, drifted>>
    BY <1>3, <1>12 DEF StartResets
  <2>2. Stopped
    BY <1>12, StopServerKeeps DEF StartResets
  <2>3. Current \in DOMAIN objs
    BY <1>1 DEF ServerTypes, Current
  <2>4. PICK f : f = Forget(Current)
    OBVIOUS
  <2>5. /\ f \in Seq(ObjectRecord) /\ Len(f) = Len(objs) /\ DOMAIN f = DOMAIN objs
        /\ \A o \in DOMAIN objs : f[o].http = objs[o].http
    BY <1>1, <2>3, <2>4, ForgetKeeps
  <2>6. NewServer(cfg) \in ObjectRecord /\ NewServer(cfg).http = 0 /\ NewServer(cfg).addr = cfg
    BY <1>1 DEF NewServer, ServerTypes, ObjectRecord
  <2>7. /\ objs' \in Seq(ObjectRecord) /\ Current' = Len(objs) + 1 /\ Len(objs) \in Nat
        /\ objs'[Current'].http = 0 /\ objs'[Current'].addr = cfg
        /\ DOMAIN objs' = 1..(Len(objs) + 1) /\ DOMAIN objs = 1..Len(objs)
        /\ \A o \in DOMAIN objs : o \in DOMAIN objs' /\ o # Current' /\ objs'[o].http = objs[o].http
    BY <2>1, <2>4, <2>5, <2>6 DEF Current
  <2>8. mine' \in [Callers -> Nat] /\ mine'["ui"] = Current'
    BY <1>0, <1>1, <2>1, <2>7 DEF ServerTypes, Current
  <2>9. ServerTypes'
    <3>1. \A o \in DOMAIN objs' : objs'[o].http \in 0..Len(https')
      <4>1. Len(https') = Len(https) /\ Len(https) \in Nat /\ \A o \in DOMAIN objs : objs[o].http \in 0..Len(https)
        BY <1>1, <2>2 DEF ServerTypes, Stopped
      <4>2. ASSUME NEW o \in DOMAIN objs', o # Current' PROVE o \in DOMAIN objs
        BY <2>7, <4>2
      <4>. QED  BY <2>7, <4>1, <4>2
    <3>2. \A i \in DOMAIN socks' : socks'[i].obj \in DOMAIN objs'
      BY <1>1, <2>2, <2>7 DEF ServerTypes, Stopped
    <3>3. PlainTypes' /\ Current' # 0
      <4>1. cfg' \in Addresses /\ running' \in BOOLEAN /\ timedOut' \in BOOLEAN /\ drifted' \in {"no", "address", "object"}
        BY <1>1, <2>1 DEF PlainTypes
      <4>. QED  BY <2>7, <2>8, <4>1 DEF PlainTypes
    <3>. QED  BY <2>2, <2>7, <3>1, <3>2, <3>3 DEF ServerTypes, PlainTypes, Stopped, SocketRecord, ObjectRecord
  <2>10. \A i \in DOMAIN socks : objs'[socks[i].obj].http = objs[socks[i].obj].http /\ socks[i].obj # Current'
    BY <1>1, <2>7 DEF ServerTypes
  <2>11. ServedByTheirOwn'
    BY <1>1, <2>2, <2>10 DEF ServedByTheirOwn, Stopped, Live
  <2>12. OnlyTheCurrent'
    BY <2>1, <2>2, <2>10 DEF OnlyTheCurrent, Stopped, Live
  <2>13. CurrentIsUsed'
    BY <2>1, <2>2, <2>8, <2>10 DEF CurrentIsUsed, Stopped
  <2>14. ConfiguredIsCurrent'
    BY <2>1, <2>7 DEF ConfiguredIsCurrent
  <2>. QED  BY <2>9, <2>11, <2>12, <2>13, <2>14 DEF ServersSoFar
<1>13. ASSUME NEW i \in DOMAIN socks, Serve(i) PROVE ServersSoFar'
  <2>1. PICK h : h = objs[socks[i].obj].http
    OBVIOUS
  <2>2. /\ socks[i].open /\ socks[i].http = 0
        /\ socks' = [socks EXCEPT ![i] = [socks[i] EXCEPT !.http = h, !.open = ~https[h]]]
        /\ UNCHANGED <<cfg, running, objs, https, pc, mine, restart, timedOut, drifted>>
    BY <1>13, <2>1 DEF Serve
  <2>3. /\ socks \in Seq(SocketRecord) /\ https \in Seq(BOOLEAN) /\ h \in 1..Len(https) /\ DOMAIN https = 1..Len(https)
        /\ \A j \in DOMAIN socks : socks[j].obj \in DOMAIN objs
    <3>1. socks \in Seq(SocketRecord) /\ https \in Seq(BOOLEAN) /\ DOMAIN https = 1..Len(https) /\ Len(https) \in Nat
      BY <1>1 DEF ServerTypes, SocketRecord
    <3>2. \A j \in DOMAIN socks : socks[j].obj \in DOMAIN objs /\ objs[socks[j].obj].http \in 0..Len(https)
      BY <1>1 DEF ServerTypes
    <3>3. h # 0
      BY <1>1, <2>1, <2>2 DEF ServedByTheirOwn
    <3>. QED  BY <2>1, <3>1, <3>2, <3>3
  <2>4. PICK r : r = [socks[i] EXCEPT !.http = h, !.open = ~https[h]]
    OBVIOUS
  <2>5. r \in SocketRecord /\ r.http = h /\ (r.open <=> ~https[h]) /\ r.obj = socks[i].obj /\ r.addr = socks[i].addr
    <3>1. socks[i] \in SocketRecord /\ https[h] \in BOOLEAN /\ h \in Nat
      BY <2>3, ElementOf
    <3>. QED  BY ONLY <2>4, <3>1 DEF SocketRecord
  <2>6. /\ socks' \in Seq(SocketRecord) /\ DOMAIN socks' = DOMAIN socks /\ socks'[i] = r
        /\ \A j \in DOMAIN socks : j # i => socks'[j] = socks[j]
    <3>1. socks' = [socks EXCEPT ![i] = r]
      BY <2>2, <2>4
    <3>. QED  BY ONLY <2>3, <2>5, <3>1, i \in DOMAIN socks, ReplaceOne
  <2>7. \A j \in DOMAIN socks :
          /\ socks'[j].obj = socks[j].obj /\ socks'[j].addr = socks[j].addr
          /\ (socks'[j].open => socks[j].open) /\ Live(j)' = Live(j)
          /\ j # i => socks'[j].http = socks[j].http
    <3>1. Live(i)' <=> Live(i)
      BY <2>1, <2>2, <2>5, <2>6 DEF Live
    <3>2. ASSUME NEW j \in DOMAIN socks, j # i PROVE Live(j)' <=> Live(j)
      BY <2>2, <2>6, <3>2 DEF Live
    <3>3. \A j \in DOMAIN socks : Live(j)' = Live(j)
      BY <3>1, <3>2 DEF Live
    <3>. QED  BY <2>2, <2>5, <2>6, <3>3
  <2>8. ServerTypes'
    <3>1. \A j \in DOMAIN socks' : socks'[j].obj \in DOMAIN objs'
      BY <2>2, <2>3, <2>6, <2>7
    <3>2. UNCHANGED <<cfg, running, objs, https, mine, timedOut, drifted>>
      BY <2>2
    <3>3. socks' \in Seq(SocketRecord)
      BY <2>6
    <3>. QED  BY <1>1, <3>1, <3>2, <3>3 DEF ServerTypes, SocketRecord, Current
  <2>9. ServedByTheirOwn'
    <3>1. ASSUME NEW j \in DOMAIN socks, socks'[j].open
          PROVE  objs[socks[j].obj].http # 0
                 /\ (socks'[j].http # 0 => socks'[j].http = objs[socks[j].obj].http /\ Live(j)')
      <4>1. CASE j = i
        <5>1. objs[socks[j].obj].http = h /\ h # 0 /\ socks'[j].http = h
          BY <2>1, <2>3, <2>5, <2>6, <4>1
        <5>2. Live(j)'
          <6>1. ~https[h]
            BY <2>5, <2>6, <3>1, <4>1
          <6>. QED  BY <2>2, <2>6, <2>7, <3>1, <4>1, <5>1, <6>1 DEF Live
        <5>. QED  BY <5>1, <5>2
      <4>2. CASE j # i
        BY <1>1, <2>7, <3>1, <4>2 DEF ServedByTheirOwn
      <4>. QED  BY <4>1, <4>2
    <3>. QED  BY <2>2, <2>6, <2>7, <3>1 DEF ServedByTheirOwn
  <2>10. OnlyTheCurrent'
    BY <1>1, <2>2, <2>6, <2>7 DEF OnlyTheCurrent, Current
  <2>11. Listens(Current)' = Listens(Current) /\ Current' = Current
    BY <2>2, <2>6, <2>7 DEF Listens, Current
  <2>12. CurrentIsUsed'
    BY <1>1, <2>2, <2>6, <2>7, <2>11 DEF CurrentIsUsed
  <2>13. ConfiguredIsCurrent'
    BY <1>1, <2>2, <2>11 DEF ConfiguredIsCurrent
  <2>. QED  BY <2>8, <2>9, <2>10, <2>12, <2>13 DEF ServersSoFar
<1>14. ASSUME Listen("ui") PROVE ServersSoFar'
  <2>1. /\ pc["ui"] = "listen" /\ mine["ui"] = Current /\ ~running
        /\ objs[Current].http # 0 /\ ~https[objs[Current].http]
        /\ UNCHANGED <<cfg, running, https, mine, restart, timedOut, drifted>>
    BY <1>1, <1>14 DEF Listen, CurrentIsUsed
  <2>2. CASE pc'["ui"] = "idle" /\ UNCHANGED <<objs, socks>>
    <3>1. ServerTypes' /\ ServedByTheirOwn'
      BY <1>1, <2>1, <2>2, SameObjects DEF PlainTypes
    <3>2. OnlyTheCurrent'
      BY <1>1, <2>1, <2>2, SameObjects DEF OnlyTheCurrent
    <3>3. CurrentIsUsed'
      BY <1>1, <2>1, <2>2, SameObjects DEF CurrentIsUsed
    <3>4. ConfiguredIsCurrent'
      BY <1>1, <1>2, <2>1, <2>2, SameObjects DEF ConfiguredIsCurrent
    <3>. QED  BY <3>1, <3>2, <3>3, <3>4 DEF ServersSoFar
  <2>3. CASE pc'["ui"] = "mark"
    <3>1. /\ socks' = Append(socks, [addr |-> objs[Current].addr, obj |-> Current, open |-> TRUE, http |-> 0])
          /\ objs' = [objs EXCEPT ![Current].listener = Len(socks')]
      BY <1>3, <1>14, <2>1, <2>3 DEF Listen
    <3>2. /\ Current \in DOMAIN objs /\ Current \in Nat /\ DOMAIN socks = 1..Len(socks) /\ Len(socks) \in Nat
          /\ socks \in Seq(SocketRecord) /\ objs \in Seq(ObjectRecord)
      BY <1>1 DEF ServerTypes, SocketRecord, ObjectRecord, Current
    <3>3. objs[Current] \in ObjectRecord
      BY ONLY <3>2, ElementOf
    <3>4. PICK new : new = [addr |-> objs[Current].addr, obj |-> Current, open |-> TRUE, http |-> 0]
      OBVIOUS
    <3>5. new \in SocketRecord /\ new.addr = objs[Current].addr /\ new.obj = Current /\ new.open /\ new.http = 0
      BY ONLY <3>2, <3>3, <3>4 DEF SocketRecord, ObjectRecord
    <3>6. PICK n : n = Len(socks')
      OBVIOUS
    <3>7. /\ socks' \in Seq(SocketRecord) /\ n = Len(socks) + 1 /\ socks'[n] = new
          /\ DOMAIN socks' = 1..(Len(socks) + 1) /\ \A i \in DOMAIN socks : socks'[i] = socks[i]
      BY <3>6, <3>1, <3>2, <3>4, <3>5
    <3>8. PICK r : r = [objs[Current] EXCEPT !.listener = n]
      OBVIOUS
    <3>9. /\ r \in ObjectRecord /\ r.http = objs[Current].http /\ r.addr = objs[Current].addr
          /\ r.listener = n
      <4>1. n \in Nat
        BY <3>2, <3>7
      <4>. QED  BY ONLY <3>3, <3>8, <4>1 DEF ObjectRecord
    <3>10. /\ objs' \in Seq(ObjectRecord) /\ Current' = Current /\ DOMAIN objs' = DOMAIN objs /\ objs'[Current] = r
          /\ \A o \in DOMAIN objs : o # Current => objs'[o] = objs[o]
      <4>1. objs' = [objs EXCEPT ![Current] = r]
        BY <3>6, <3>1, <3>8
      <4>. QED  BY ONLY <3>2, <3>9, <4>1, ReplaceOne DEF Current
    <3>11. \A o \in DOMAIN objs : objs'[o].http = objs[o].http /\ objs'[o].addr = objs[o].addr
      BY <3>9, <3>10
    <3>12. \A i \in DOMAIN socks' : i \in DOMAIN socks \/ (i = n /\ i \notin DOMAIN socks)
      BY <3>2, <3>7
    <3>13. ServerTypes'
      <4>1. ASSUME NEW i \in DOMAIN socks' PROVE socks'[i].obj \in DOMAIN objs'
        <5>1. CASE i \in DOMAIN socks
          BY <1>1, <3>7, <3>10, <5>1 DEF ServerTypes
        <5>2. CASE i = n
          BY <3>2, <3>5, <3>7, <3>10, <5>2
        <5>. QED  BY <3>12, <5>1, <5>2
      <4>. QED  BY <1>1, <2>1, <3>7, <3>10, <3>11, <4>1 DEF ServerTypes, ObjectRecord, SocketRecord
    <3>14. Live(n)' /\ \A i \in DOMAIN socks : Live(i)' = Live(i)
      <4>1. Live(n)'
        BY <2>1, <3>2, <3>5, <3>7, <3>11 DEF Live
      <4>2. ASSUME NEW i \in DOMAIN socks PROVE Live(i)' = Live(i)
        <5>1. socks'[i] = socks[i] /\ objs'[socks[i].obj].http = objs[socks[i].obj].http
          BY <1>1, <3>7, <3>11 DEF ServerTypes
        <5>. QED  BY <2>1, <5>1 DEF Live
      <4>. QED  BY <4>1, <4>2
    <3>15. ServedByTheirOwn'
      <4>1. ASSUME NEW i \in DOMAIN socks', socks'[i].open
            PROVE  objs'[socks'[i].obj].http # 0
                   /\ (socks'[i].http # 0 => socks'[i].http = objs'[socks'[i].obj].http /\ Live(i)')
        <5>1. CASE i \in DOMAIN socks
          <6>1. socks'[i] = socks[i] /\ objs'[socks[i].obj].http = objs[socks[i].obj].http /\ Live(i)' = Live(i)
            BY <1>1, <3>7, <3>11, <3>14, <5>1 DEF ServerTypes
          <6>. QED  BY <1>1, <4>1, <5>1, <6>1 DEF ServedByTheirOwn
        <5>2. CASE i = n
          BY <2>1, <3>2, <3>5, <3>7, <3>11, <5>2
        <5>. QED  BY <3>12, <5>1, <5>2
      <4>. QED  BY <4>1 DEF ServedByTheirOwn
    <3>16. OnlyTheCurrent'
      BY <1>1, <2>1, <2>3, <3>5, <3>7, <3>9, <3>10, <3>12, <3>14 DEF OnlyTheCurrent
    <3>17. Listens(Current)'
      <4>1. n \in DOMAIN socks'
        BY <3>2, <3>7
      <4>. QED  BY <3>5, <3>7, <3>9, <3>10, <3>14, <4>1 DEF Listens
    <3>18. CurrentIsUsed'
      BY <2>1, <2>3, <3>10, <3>11, <3>17, <3>2 DEF CurrentIsUsed
    <3>19. ConfiguredIsCurrent'
      BY <1>1, <1>2, <2>1, <2>3, <3>2, <3>10, <3>11 DEF ConfiguredIsCurrent
    <3>. QED  BY <3>13, <3>15, <3>16, <3>18, <3>19 DEF ServersSoFar
  <2>. QED  BY <1>3, <1>14, <2>2, <2>3 DEF Listen
<1>. QED  BY <1>4, <1>5, <1>6, <1>7, <1>8, <1>9, <1>10, <1>11, <1>12, <1>13, <1>14

LEMMA ServersInit == AppInit => ServersSoFar
<1> SUFFICES ASSUME AppInit PROVE ServersSoFar
  OBVIOUS
<1>1. /\ cfg \in Addresses /\ running = FALSE /\ objs = <<NewServer(cfg)>> /\ https = << >> /\ socks = << >>
      /\ pc["ui"] = "idle" /\ mine \in [Callers -> Nat] /\ restart = FALSE /\ timedOut = FALSE /\ drifted = "no"
  BY AppCallsAssumption DEF AppInit, Init
<1>2. /\ NewServer(cfg) \in ObjectRecord /\ NewServer(cfg).http = 0 /\ NewServer(cfg).addr = cfg
  BY <1>1 DEF NewServer, ObjectRecord
<1>3. /\ objs \in Seq(ObjectRecord) /\ Current = 1 /\ DOMAIN objs = {1} /\ objs[1] = NewServer(cfg)
      /\ DOMAIN socks = {} /\ https \in Seq(BOOLEAN) /\ Len(https) = 0 /\ socks \in Seq(SocketRecord)
  BY <1>1, <1>2 DEF Current
<1>4. ServerTypes
  <2>1. \A o \in DOMAIN objs : objs[o].http \in 0..Len(https)
    BY <1>2, <1>3
  <2>2. running \in BOOLEAN /\ timedOut \in BOOLEAN
    BY <1>1
  <2>. QED  BY <1>1, <1>3, <2>1, <2>2 DEF ServerTypes, ObjectRecord, SocketRecord
<1>5. ServedByTheirOwn /\ OnlyTheCurrent /\ CurrentIsUsed /\ ConfiguredIsCurrent
  BY <1>1, <1>2, <1>3 DEF ServedByTheirOwn, OnlyTheCurrent, CurrentIsUsed, ConfiguredIsCurrent
<1>. QED  BY <1>4, <1>5 DEF ServersSoFar

LEMMA ServersStep == PauseSoFar /\ ServersSoFar /\ [AppNext]_<<vars, outside>> => ServersSoFar'
<1> SUFFICES ASSUME PauseSoFar, ServersSoFar, [AppNext]_<<vars, outside>> PROVE ServersSoFar'
  OBVIOUS
<1>1. CASE UNCHANGED <<servers>>
  BY <1>1 DEF servers, ServersSoFar, ServerTypes, ServedByTheirOwn, OnlyTheCurrent, CurrentIsUsed,
       ConfiguredIsCurrent, Current, Live, Listens
<1>2. CASE WindowCalls
  <2>1. \A s \in Settings : AddressIn(s) \in Addresses
    BY AppCallsAssumption
  <2>2. CASE StartService \/ StopService \/ PauseTrafficRouting \/ OutsideCall
    BY <1>1, <2>2, ServerActions DEF StartService, StopService, PauseTrafficRouting, OutsideCall, Elsewhere
  <2>3. ASSUME NEW s \in Settings, SaveAll(s) \/ SaveAllFails(s) \/ ImportAll(s) PROVE ServersSoFar'
    BY <2>1, <2>3, ServerActions DEF SaveAll, SaveAllFails, ImportAll
  <2>. QED  BY <1>2, <2>2, <2>3 DEF WindowCalls
<1>3. CASE ServerSteps
  BY <1>3, ServerActions DEF ServerSteps, StartEnds, StopGivesUp
<1>4. CASE OutsideSteps \/ PacFails
  BY <1>1, <1>4 DEF OutsideSteps, PacFails
<1>5. CASE AppRestart
  <2>1. /\ cfg' \in Addresses /\ running' = FALSE /\ objs' = <<NewServer(cfg')>> /\ https' = << >> /\ socks' = << >>
        /\ pc'["ui"] = "idle" /\ mine' \in [Callers -> Nat] /\ restart' = FALSE /\ timedOut' = FALSE
        /\ drifted' = "no"
    BY <1>5, AppCallsAssumption DEF AppRestart, ServersRestart, ServersSoFar, ServerTypes
  <2>2. PICK n : n = NewServer(cfg')
    OBVIOUS
  <2>3. n \in ObjectRecord /\ n.http = 0 /\ n.addr = cfg'
    BY <2>1, <2>2 DEF NewServer, ObjectRecord
  <2>4. /\ objs' \in Seq(ObjectRecord) /\ Current' = 1 /\ DOMAIN objs' = {1} /\ objs'[1] = n
        /\ DOMAIN socks' = {} /\ https' \in Seq(BOOLEAN) /\ Len(https') = 0 /\ socks' \in Seq(SocketRecord)
    BY <2>1, <2>2, <2>3 DEF Current
  <2>5. ServerTypes'
    <3>1. \A o \in DOMAIN objs' : objs'[o].http \in 0..Len(https')
      BY <2>3, <2>4
    <3>2. running' \in BOOLEAN /\ timedOut' \in BOOLEAN
      BY <2>1
    <3>. QED  BY <2>1, <2>4, <3>1, <3>2 DEF ServerTypes, ObjectRecord, SocketRecord
  <2>6. ServedByTheirOwn' /\ OnlyTheCurrent' /\ CurrentIsUsed' /\ ConfiguredIsCurrent'
    BY <2>1, <2>3, <2>4 DEF ServedByTheirOwn, OnlyTheCurrent, CurrentIsUsed, ConfiguredIsCurrent
  <2>. QED  BY <2>5, <2>6 DEF ServersSoFar
<1>6. CASE UNCHANGED <<vars, outside>>
  BY <1>1, <1>6 DEF vars, servers
<1>. QED  BY <1>2, <1>3, <1>4, <1>5, <1>6 DEF AppNext

LEMMA ServersInvariant == AppSpec => []ServersSoFar
  BY ServersInit, ServersStep, PauseInit, PauseStep, PTL DEF AppSpec

(* A service shown as running serves the configured address, whatever calls, *)
(* resets, time-outs and restarts of the program came before.                *)
THEOREM RunningServesConfigured == AppSpec => []ServesConfigured
<1>1. ServersSoFar /\ PauseSoFar => ServesConfigured
  <2> SUFFICES ASSUME ServersSoFar, PauseSoFar, Quiet, running, ~timedOut, drifted = "no" PROVE Serving(cfg)
    BY DEF ServesConfigured
  <2>1. pc["ui"] = "idle"
    BY AppCallsAssumption DEF Quiet
  <2>2. Listens(Current)
    BY <2>1 DEF ServersSoFar, ConfiguredIsCurrent
  <2>3. objs[Current].addr = cfg
    BY <2>1 DEF ServersSoFar, ConfiguredIsCurrent, PauseSoFar
  <2>. QED  BY <2>2, <2>3 DEF Listens, Live, Serving, Quiet
<1>. QED  BY <1>1, PauseInvariant, ServersInvariant, PTL

(* A service shown as stopped has no open socket left. *)
THEOREM StoppedLeavesNothing == AppSpec => []StoppedIsClosed
<1>1. ServersSoFar => StoppedIsClosed
  <2> SUFFICES ASSUME ServersSoFar, Quiet, ~running, drifted # "object", NEW i \in DOMAIN socks, socks[i].open
               PROVE FALSE
    BY DEF StoppedIsClosed
  <2>1. pc["ui"] = "idle" /\ socks[i].http # 0
    BY AppCallsAssumption DEF Quiet
  <2>2. Live(i)
    BY <2>1 DEF ServersSoFar, ServedByTheirOwn
  <2>. QED  BY <2>1, <2>2 DEF ServersSoFar, OnlyTheCurrent
<1>. QED  BY <1>1, ServersInvariant, PTL
=============================================================================
