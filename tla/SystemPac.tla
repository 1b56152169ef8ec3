------------------------------ MODULE SystemPac ------------------------------
(***************************************************************************)
(* Who owns the Windows proxy settings: EnableSystemPac, DisableSystemPac, *)
(* PauseTrafficRouting, the settings form, startup, shutdown and the       *)
(* 3-second ownership guard of app.go, with the registry writes of         *)
(* internal/winproxy and the two places the user's own settings are saved  *)
(* (the configuration in memory and its file).                             *)
(*                                                                         *)
(* Two threads run them: "ui", the calls of the window one after another,  *)
(* and "guard".  Each registry value is written by a call of its own.      *)
(***************************************************************************)
EXTENDS Naturals

CONSTANTS UserSettings,    \* what the user or another program sets up itself
          AutoValues,      \* values the user gives AutoEnableSystemPac
          Imports,         \* what the configurations he imports have of all this
          RestoreOnExit,   \* DisableSystemPacOnExit
          MayFail,         \* what may fail: "read" and "write" the registry, "save" the file
          MaxChanges,      \* bound on changes made outside the program
          MaxCrashes       \* bound on crashes

NoSettings == [url |-> "absent", enable |-> FALSE, server |-> "none"]

(* A configuration as its file holds it, and a file that is empty or garbled. *)
Config(s, a) == [saved |-> s, auto |-> a, whole |-> TRUE]
NoConfig == Config(NoSettings, FALSE)
Torn == [NoConfig EXCEPT !.whole = FALSE]

(* What ApplyPAC writes. *)
Own == [url |-> "prm", enable |-> FALSE, server |-> "none"]

Settings == [url : {"none", "corp", "prm"}, enable : BOOLEAN, server : {"none", "corp"}]

ASSUME UserSettingsAssumption ==
  /\ UserSettings # {} /\ \A u \in UserSettings : u \in Settings /\ u.url # "prm"
  /\ AutoValues \subseteq BOOLEAN /\ AutoValues # {}
  /\ Imports \subseteq [saved : Settings \cup {NoSettings}, auto : BOOLEAN]
  /\ RestoreOnExit \in BOOLEAN /\ MayFail \subseteq {"read", "write", "save"}
  /\ MaxChanges \in Nat /\ MaxCrashes \in Nat

VARIABLES
  reg,       \* the three registry values
  saved,     \* SavedWindowsProxy in memory
  auto,      \* AutoEnableSystemPac
  file,      \* both, as the configuration file has them
  chainUp,   \* the PAC server and the local proxy are serving
  app,       \* "up", "exiting" or "down"
  pc,        \* control state of the two threads
  held,      \* the settings a thread works with: SavedWindowsProxy as it read it,
             \* the ones it is about to save, the ones it is writing
  snap,      \* the configuration a Save has read and not yet written
  after,     \* what a thread does when its current piece is done
  user,      \* history: what the user last set up himself
  paused,    \* history: PauseTrafficRouting was the last switch used
  dropped,   \* history: an import took the user's own settings away while PRM's
             \* PAC was applied, or brought PRM's PAC as his settings
  changes, crashes

config == <<saved, auto>>
locals == <<held, snap, after>>
history == <<user, paused, dropped, changes, crashes>>
vars == <<reg, config, file, chainUp, app, pc, locals, history>>

Thread == {"ui", "guard"}
Writing == {"url", "enable", "server"}

Goto(t, l) == pc' = [pc EXCEPT ![t] = l]

(* The thread returns to its loop; its locals are gone. *)
Done(t) ==
  /\ Goto(t, "idle")
  /\ held' = [held EXCEPT ![t] = NoSettings]
  /\ after' = [after EXCEPT ![t] = "return"]

Init ==
  /\ reg \in UserSettings
  /\ user = reg
  /\ saved = NoSettings
  /\ auto \in AutoValues
  /\ file = Config(saved, auto)
  /\ chainUp = FALSE
  /\ app = "up"
  /\ pc = [t \in Thread |-> "idle"]
  /\ held = [t \in Thread |-> NoSettings]
  /\ snap = [t \in Thread |-> NoConfig]
  /\ after = [t \in Thread |-> "return"]
  /\ paused = FALSE /\ dropped = FALSE
  /\ changes = 0
  /\ crashes = 0

-----------------------------------------------------------------------------
(* EnableSystemPac reads the configuration first. *)
BeginEnable(t) ==
  /\ held' = [held EXCEPT ![t] = saved]
  /\ Goto(t, "chain")

(* ensurePacProxyChainReady: both servers are started; then the probes, of   *)
(* the upstream proxy too, pass or fail.                                     *)
ChainReady(t) ==
  /\ pc[t] \in {"chain", "guardChain"}
  /\ chainUp' = TRUE
  /\ Goto(t, IF pc[t] = "chain" THEN "read" ELSE "check")
  /\ UNCHANGED <<reg, config, file, app, locals, history>>

ChainFails(t) ==
  /\ pc[t] \in {"chain", "guardChain"}
  /\ chainUp' \in {chainUp, TRUE}
  /\ Done(t)
  /\ UNCHANGED <<reg, config, file, app, snap, history>>

(* ReadCurrentConfig, then the current settings are saved, once. *)
ReadNoSave(t) ==
  /\ pc[t] = "read"
  /\ held' = [held EXCEPT ![t] = Own]
  /\ Goto(t, "url")
  /\ UNCHANGED <<reg, config, file, chainUp, app, snap, after, history>>

ReadAlwaysSaves(t) ==
  /\ pc[t] = "read"
  /\ held' = [held EXCEPT ![t] = reg]
  /\ Goto(t, "update")
  /\ UNCHANGED <<reg, config, file, chainUp, app, snap, after, history>>

ReadCurrent(t) ==
  /\ pc[t] = "read"
  /\ held' = [held EXCEPT ![t] = IF held[t] = NoSettings THEN reg ELSE Own]
  /\ Goto(t, IF held[t] = NoSettings THEN "update" ELSE "url")
  /\ UNCHANGED <<reg, config, file, chainUp, app, snap, after, history>>

(* Without the current settings nothing is saved, and the PAC applied.       *)
ReadFails(t) ==
  /\ "read" \in MayFail
  /\ pc[t] = "read"
  /\ held' = [held EXCEPT ![t] = Own]
  /\ Goto(t, "url")
  /\ UNCHANGED <<reg, config, file, chainUp, app, snap, after, history>>

UpdateSaved(t) ==
  /\ pc[t] = "update"
  /\ saved' = held[t]
  /\ held' = [held EXCEPT ![t] = Own]
  /\ after' = [after EXCEPT ![t] = "apply"]
  /\ Goto(t, "snapshot")
  /\ UNCHANGED <<reg, auto, file, chainUp, app, snap, history>>

(* config.Save: the configuration is read, then written to the file, which   *)
(* is emptied first.  What another thread has written since stands beyond    *)
(* the end of a shorter text.                                                *)
SaveSnapshot(t) ==
  /\ pc[t] = "snapshot"
  /\ snap' = [snap EXCEPT ![t] = Config(saved, auto)]
  /\ Goto(t, "open")
  /\ UNCHANGED <<reg, config, file, chainUp, app, held, after, history>>

SaveTruncate(t) ==
  /\ pc[t] = "open"
  /\ file' = Torn
  /\ Goto(t, "write")
  /\ UNCHANGED <<reg, config, chainUp, app, locals, history>>

(* After a save EnableSystemPac applies, SaveSettings enables if so set, and *)
(* ImportConfig has done all that concerns the PAC.                          *)
SaveWrite(t) ==
  /\ pc[t] = "write"
  /\ file' \in {snap[t]} \cup (IF file.whole THEN {Torn} ELSE {})
  /\ snap' = [snap EXCEPT ![t] = NoConfig]
  /\ after' = [after EXCEPT ![t] = "return"]
  /\ \/ after[t] = "apply" /\ Goto(t, "url") /\ UNCHANGED held
     \/ after[t] = "settings" /\ snap[t].auto /\ BeginEnable(t)
     \/ after[t] = "settings" /\ ~snap[t].auto /\ Goto(t, "idle") /\ UNCHANGED held
     \/ after[t] = "import" /\ Goto(t, "idle") /\ UNCHANGED held
  /\ UNCHANGED <<reg, config, chainUp, app, history>>

(* EnableSystemPac ignores a failed save, the others return it. *)
SaveFails(t) ==
  /\ "save" \in MayFail
  /\ pc[t] = "open"
  /\ snap' = [snap EXCEPT ![t] = NoConfig]
  /\ after' = [after EXCEPT ![t] = "return"]
  /\ Goto(t, IF after[t] = "apply" THEN "url" ELSE "idle")
  /\ UNCHANGED <<reg, config, file, chainUp, app, held, history>>

-----------------------------------------------------------------------------
(* ApplyPAC and Restore write the three values one by one; an error returns. *)
Written(t) ==
  \/ after[t] = "return" /\ Done(t)
  \/ after[t] = "pause" /\ Goto(t, "stop") /\ UNCHANGED <<held, after>>
  \/ after[t] = "exit" /\ Goto(t, "exit") /\ UNCHANGED <<held, after>>

WriteValue(t) ==
  /\ \/ /\ pc[t] = "url"
        /\ reg' = [reg EXCEPT !.url = held[t].url]
        /\ Goto(t, "enable") /\ UNCHANGED <<held, after>>
     \/ /\ pc[t] = "enable"
        /\ reg' = [reg EXCEPT !.enable = held[t].enable]
        /\ Goto(t, "server") /\ UNCHANGED <<held, after>>
     \/ /\ pc[t] = "server"
        /\ reg' = [reg EXCEPT !.server = held[t].server]
        /\ Written(t)
  /\ UNCHANGED <<config, file, chainUp, app, snap, history>>

WriteFails(t) ==
  /\ "write" \in MayFail
  /\ pc[t] \in Writing
  /\ Written(t)
  /\ UNCHANGED <<reg, config, file, chainUp, app, snap, history>>

(* Restore of the saved settings, then l; nothing to restore goes to skip. *)
BeginRestore(l, skip) ==
  /\ held' = [held EXCEPT !["ui"] = saved]
  /\ after' = [after EXCEPT !["ui"] = l]
  /\ Goto("ui", IF saved = NoSettings THEN skip ELSE "url")

-----------------------------------------------------------------------------
UiIdle == app = "up" /\ pc["ui"] = "idle"

EnableSystemPac ==
  /\ UiIdle
  /\ BeginEnable("ui")
  /\ after' = [after EXCEPT !["ui"] = "return"]
  /\ paused' = FALSE
  /\ UNCHANGED <<reg, config, file, chainUp, app, snap, user, dropped, changes, crashes>>

DisableSystemPac ==
  /\ UiIdle
  /\ BeginRestore("return", "idle")
  /\ UNCHANGED <<reg, config, file, chainUp, app, snap, history>>

(* PauseTrafficRouting: DisableSystemPac, then the servers are stopped. *)
PauseTrafficRouting ==
  /\ UiIdle
  /\ BeginRestore("pause", "stop")
  /\ UNCHANGED <<reg, config, file, chainUp, app, snap, history>>

PauseStops ==
  /\ pc["ui"] = "stop"
  /\ chainUp' = FALSE
  /\ paused' = TRUE
  /\ Done("ui")
  /\ UNCHANGED <<reg, config, file, app, snap, user, dropped, changes, crashes>>

(* SaveSettings, as far as AutoEnableSystemPac is concerned. *)
SaveSettings(b) ==
  /\ UiIdle
  /\ auto' = b
  /\ after' = [after EXCEPT !["ui"] = "settings"]
  /\ paused' = (paused /\ ~b)
  /\ Goto("ui", "snapshot")
  /\ UNCHANGED <<reg, saved, file, chainUp, app, held, snap, user, dropped, changes, crashes>>

(* ImportConfig replaces the whole configuration, the settings to restore    *)
(* with it, and saves it; it enables nothing.                                *)
ImportConfig(s) ==
  /\ UiIdle
  /\ saved' = s.saved /\ auto' = s.auto
  /\ after' = [after EXCEPT !["ui"] = "import"]
  /\ paused' = (paused /\ ~s.auto)
  /\ dropped' = (dropped \/ s.saved.url = "prm" \/ (s.saved = NoSettings /\ reg.url = "prm"))
  /\ Goto("ui", "snapshot")
  /\ UNCHANGED <<reg, file, chainUp, app, held, snap, user, changes, crashes>>

(* The guard goroutine: a tick of ensureSystemPacOwnership. *)
GuardTick ==
  /\ app = "up"
  /\ pc["guard"] = "idle"
  /\ auto
  /\ Goto("guard", "guardChain")
  /\ UNCHANGED <<reg, config, file, chainUp, app, locals, history>>

OwnedLoosely == reg.url = "prm"
Owned == reg = Own

GuardCheck ==
  /\ pc["guard"] = "check"
  /\ IF Owned THEN Goto("guard", "idle") /\ UNCHANGED held ELSE BeginEnable("guard")
  /\ UNCHANGED <<reg, config, file, chainUp, app, snap, after, history>>

GuardReadFails ==
  /\ "read" \in MayFail
  /\ pc["guard"] = "check"
  /\ Goto("guard", "idle")
  /\ UNCHANGED <<reg, config, file, chainUp, app, locals, history>>

(* shutdown: the guard gets no further tick, but one under way goes on.      *)
Shutdown ==
  /\ UiIdle
  /\ app' = "exiting"
  /\ IF RestoreOnExit
     THEN BeginRestore("exit", "exit")
     ELSE Goto("ui", "exit") /\ UNCHANGED <<held, after>>
  /\ UNCHANGED <<reg, config, file, chainUp, snap, history>>

(* The process is gone: its servers and threads with it. *)
Gone ==
  /\ app' = "down"
  /\ chainUp' = FALSE
  /\ pc' = [t \in Thread |-> "idle"]
  /\ held' = [t \in Thread |-> NoSettings]
  /\ snap' = [t \in Thread |-> NoConfig]
  /\ after' = [t \in Thread |-> "return"]
  /\ UNCHANGED <<reg, config, file, user, paused, dropped, changes>>

Exit == pc["ui"] = "exit" /\ Gone /\ UNCHANGED crashes

Crash ==
  /\ app # "down"
  /\ crashes < MaxCrashes
  /\ crashes' = crashes + 1
  /\ Gone

(* startup: the configuration is loaded; AutoEnableSystemPac enables.  With a *)
(* file that does not parse the program has no configuration to work on.     *)
Startup ==
  /\ app = "down"
  /\ file.whole
  /\ app' = "up"
  /\ saved' = file.saved
  /\ auto' = file.auto
  /\ paused' = FALSE
  /\ held' = IF auto' THEN [held EXCEPT !["ui"] = saved'] ELSE held
  /\ Goto("ui", IF auto' THEN "chain" ELSE "idle")
  /\ UNCHANGED <<reg, file, chainUp, snap, after, user, dropped, changes, crashes>>

(* The user, or another program, sets the proxy settings up; not within the  *)
(* instant the program writes them.                                          *)
OutsideChange(c) ==
  /\ \A t \in Thread : pc[t] \notin Writing
  /\ changes < MaxChanges
  /\ changes' = changes + 1
  /\ reg' = c
  /\ user' = c
  /\ UNCHANGED <<config, file, chainUp, app, pc, locals, paused, dropped, crashes>>

-----------------------------------------------------------------------------
Step(t) ==
  \/ ChainReady(t) \/ ChainFails(t)
  \/ ReadCurrent(t) \/ ReadFails(t) \/ UpdateSaved(t)
  \/ SaveSnapshot(t) \/ SaveTruncate(t) \/ SaveWrite(t) \/ SaveFails(t)
  \/ WriteValue(t) \/ WriteFails(t)

Ui ==
  \/ EnableSystemPac \/ DisableSystemPac \/ PauseTrafficRouting
  \/ \E b \in AutoValues : SaveSettings(b)
  \/ \E s \in Imports : ImportConfig(s)
  \/ Shutdown

Next ==
  \/ \E t \in Thread : Step(t)
  \/ Ui \/ PauseStops \/ Exit
  \/ GuardTick \/ GuardCheck \/ GuardReadFails
  \/ Crash \/ Startup
  \/ \E c \in UserSettings : OutsideChange(c)

Spec == Init /\ [][Next]_vars

(* The guard ticks and runs, and a probe or a registry call that can succeed *)
(* succeeds when it is tried again and again.  Nothing is asked of the       *)
(* window.                                                                   *)
FairSpec ==
  /\ Spec
  /\ WF_vars(GuardTick) /\ SF_vars(GuardCheck)
  /\ WF_vars(Step("guard")) /\ SF_vars(WriteValue("guard"))
  /\ \A l \in {"chain", "guardChain"} : SF_vars(pc["guard"] = l /\ ChainReady("guard"))

-----------------------------------------------------------------------------
TypeOK ==
  /\ reg \in Settings
  /\ saved \in Settings \cup {NoSettings}
  /\ auto \in BOOLEAN /\ chainUp \in BOOLEAN
  /\ paused \in BOOLEAN /\ dropped \in BOOLEAN
  /\ app \in {"up", "exiting", "down"}
  /\ pc \in [Thread -> {"idle", "chain", "guardChain", "check", "read", "update", "snapshot",
                        "open", "write", "stop", "exit"} \cup Writing]
  /\ after \in [Thread -> {"return", "apply", "settings", "import", "pause", "exit"}]
  /\ user \in UserSettings
  /\ changes \in 0..MaxChanges /\ crashes \in 0..MaxCrashes

(* Whenever the registry names PRM's PAC file, the configuration file has    *)
(* the settings to put back, so a crash at any point can be undone:          *)
(* EnableSystemPac saves before it applies.  Only a crash while the file is  *)
(* written leaves nothing, and an import without settings to restore, made   *)
(* while PRM's PAC is applied.                                               *)
WriteAhead == reg.url = "prm" /\ file.whole /\ ~dropped => file.saved # NoSettings

(* What is saved as the user's settings is never PRM's own PAC, unless such  *)
(* an import has left PRM nothing but its PAC to save, or brought it.        *)
SavedIsUsers == ~dropped => saved.url # "prm"

(* With AutoEnableSystemPac on and the window left alone, the guard makes    *)
(* the registry PRM's and its servers run, for good, after any outside       *)
(* change and any mixture that two writers left.                             *)
GuardHeals == <>[](auto /\ UiIdle) => <>[](reg = Own /\ chainUp)

(* The pause button: PRM's PAC is off until a switch turns it on again.      *)
PauseSticks == paused /\ pc["ui"] = "idle" => reg.url # "prm"

(* DisableSystemPacOnExit: after the program has exited its PAC is off.      *)
ExitDisables == app = "down" /\ crashes = 0 /\ saved # NoSettings => reg.url # "prm"

(* Disabling brings back what the user had: between operations the settings  *)
(* are PRM's or the ones he last set up.                                     *)
RestoreExact == UiIdle /\ pc["guard"] = "idle" => reg \in {Own, user}
-----------------------------------------------------------------------------
Files == [saved : Settings \cup {NoSettings}, auto : BOOLEAN, whole : BOOLEAN]

(* What makes TypeOK inductive: a thread that writes has settings to write.  *)
TypeInv ==
  /\ TypeOK
  /\ held \in [Thread -> Settings \cup {NoSettings}]
  /\ \A t \in Thread : app = "down" => pc[t] = "idle"
  /\ \A t \in Thread : pc[t] \in Writing \cup {"update"} => held[t] \in Settings
  /\ \A t \in Thread : after[t] = "apply" => held[t] = Own /\ pc[t] \in {"snapshot", "open", "write"}
  /\ file \in Files
  /\ snap \in [Thread -> Files]

(* What makes WriteAhead and SavedIsUsers inductive when the user never asks *)
(* for AutoEnableSystemPac, nor imports it: the window is alone...           *)
Alone ==
  /\ ~auto /\ ~file.auto /\ pc["guard"] = "idle"
  /\ pc["ui"] \notin {"guardChain", "check"}
  /\ \A t \in Thread : ~snap[t].auto

(* ...what it works with is what is saved...                                 *)
InHand ==
  /\ pc["ui"] \in {"chain", "read"} => held["ui"] = saved
  /\ pc["ui"] = "update" => saved = NoSettings /\ held["ui"].url # "prm"
  /\ pc["ui"] \in Writing => saved # NoSettings /\ held["ui"] \in {saved, Own}
  /\ pc["ui"] \in {"open", "write"} => snap["ui"] = Config(saved, FALSE)
  /\ after["ui"] = "apply" => saved # NoSettings
  /\ after["ui"] = "import" => pc["ui"] \in {"snapshot", "open", "write"}
  /\ app # "down" => (file.whole <=> pc["ui"] # "write")

(* ...nothing saved is PRM's own, and nothing of PRM's is in the registry    *)
(* before it has been saved, in memory and then in the file.                 *)
SavedFirst ==
  /\ saved.url # "prm" /\ file.saved.url # "prm"
  /\ app # "down" /\ saved = NoSettings => reg.url # "prm"
  /\ app # "down" /\ file.whole /\ file.saved = NoSettings =>
       saved = NoSettings \/ (after["ui"] \in {"apply", "import"} /\ reg.url # "prm")
  /\ WriteAhead

ManualInv == TypeInv /\ Alone /\ (~dropped => InHand /\ SavedFirst)
=============================================================================
