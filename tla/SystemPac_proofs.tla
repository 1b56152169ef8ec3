-------------------------- MODULE SystemPac_proofs --------------------------
(***************************************************************************)
(* Proofs about SystemPac: its variables keep their types for any settings *)
(* and any failures, and, without AutoEnableSystemPac, what the user had   *)
(* is saved before it is replaced.                                         *)
(***************************************************************************)
EXTENDS SystemPac, TLAPS

LEMMA Constants ==
  /\ Own \in Settings /\ NoSettings \notin Settings
  /\ \A u \in UserSettings : u \in Settings /\ u.url # "prm"
BY UserSettingsAssumption DEF Own, NoSettings, Settings

LEMMA FileTypes ==
  /\ NoConfig \in Files /\ Torn \in Files
  /\ \A s \in Settings \cup {NoSettings}, a \in BOOLEAN : Config(s, a) \in Files
BY DEF NoConfig, Torn, Config, Files

(* Bare types and the settings a writing thread holds, from the start... *)
LEMMA TypeInit == Init => TypeInv
<1> SUFFICES ASSUME Init PROVE TypeInv
  OBVIOUS
<1> USE Constants, UserSettingsAssumption DEF Init
<1>1. auto \in BOOLEAN /\ reg \in Settings /\ saved = NoSettings
  OBVIOUS
<1>2. file \in Files /\ snap \in [Thread -> Files]
  BY <1>1, FileTypes
<1>3. chainUp \in BOOLEAN /\ paused \in BOOLEAN /\ dropped \in BOOLEAN /\ app \in {"up", "exiting", "down"}
  OBVIOUS
<1>4. user \in UserSettings /\ changes \in 0..MaxChanges /\ crashes \in 0..MaxCrashes
  OBVIOUS
<1>5. TypeOK
  BY <1>1, <1>3, <1>4 DEF TypeOK, Thread
<1> QED
  BY <1>1, <1>2, <1>5 DEF TypeInv, Writing

(* ...and by every step, of either thread. *)
LEMMA TypeStep == TypeInv /\ [Next]_vars => TypeInv'
<1> SUFFICES ASSUME TypeInv, [Next]_vars PROVE TypeInv'
  OBVIOUS
<1> USE Constants, FileTypes, UserSettingsAssumption DEF TypeInv, TypeOK, Thread, Writing, config, locals, history
<1>1. ASSUME NEW t \in Thread, ChainReady(t) PROVE TypeInv'
  BY <1>1 DEF ChainReady, Goto
<1>2. ASSUME NEW t \in Thread, ChainFails(t) PROVE TypeInv'
  BY <1>2 DEF ChainFails, Done, Goto
<1>3. ASSUME NEW t \in Thread, ReadCurrent(t) PROVE TypeInv'
  BY <1>3 DEF ReadCurrent, Goto
<1>4. ASSUME NEW t \in Thread, ReadFails(t) PROVE TypeInv'
  BY <1>4 DEF ReadFails, Goto
<1>5. ASSUME NEW t \in Thread, UpdateSaved(t) PROVE TypeInv'
  BY <1>5 DEF UpdateSaved, Goto
<1>6. ASSUME NEW t \in Thread, SaveSnapshot(t) PROVE TypeInv'
  BY <1>6 DEF SaveSnapshot, Goto
<1>7. ASSUME NEW t \in Thread, SaveTruncate(t) PROVE TypeInv'
  BY <1>7 DEF SaveTruncate, Goto
<1>8. ASSUME NEW t \in Thread, SaveWrite(t) PROVE TypeInv'
  BY <1>8 DEF SaveWrite, Goto, BeginEnable
<1>9. ASSUME NEW t \in Thread, SaveFails(t) PROVE TypeInv'
  BY <1>9 DEF SaveFails, Goto
<1>10. ASSUME NEW t \in Thread, WriteValue(t) PROVE TypeInv'
  <2>1. pc[t] \in Writing => held[t].url \in {"none", "corp", "prm"} /\ held[t].enable \in BOOLEAN
                               /\ held[t].server \in {"none", "corp"}
    BY <1>10 DEF Settings
  <2>2. reg' \in Settings
    BY <1>10, <2>1 DEF WriteValue, Settings
  <2> QED
    BY <1>10, <2>2 DEF WriteValue, Written, Done, Goto
<1>11. ASSUME NEW t \in Thread, WriteFails(t) PROVE TypeInv'
  BY <1>11 DEF WriteFails, Written, Done, Goto
<1>12. CASE EnableSystemPac
  BY <1>12 DEF EnableSystemPac, UiIdle, BeginEnable, Goto
<1>13. CASE DisableSystemPac
  BY <1>13 DEF DisableSystemPac, UiIdle, BeginRestore, Goto
<1>14. CASE PauseTrafficRouting
  BY <1>14 DEF PauseTrafficRouting, UiIdle, BeginRestore, Goto
<1>15. ASSUME NEW b \in AutoValues, SaveSettings(b) PROVE TypeInv'
  BY <1>15 DEF SaveSettings, UiIdle, Goto
<1>16. CASE Shutdown
  BY <1>16 DEF Shutdown, UiIdle, BeginRestore, Goto
<1>17. CASE PauseStops
  BY <1>17 DEF PauseStops, Done, Goto
<1>18. CASE Exit
  BY <1>18 DEF Exit, Gone
<1>19. CASE GuardTick
  BY <1>19 DEF GuardTick, Goto
<1>20. CASE GuardCheck
  BY <1>20 DEF GuardCheck, BeginEnable, Goto
<1>21. CASE GuardReadFails
  BY <1>21 DEF GuardReadFails, Goto
<1>22. CASE Crash
  <2>1. crashes' \in 0..MaxCrashes
    BY <1>22 DEF Crash
  <2> QED
    BY <1>22, <2>1 DEF Crash, Gone
<1>23. CASE Startup
  <2>1. saved' \in Settings \cup {NoSettings} /\ auto' \in BOOLEAN
    BY <1>23 DEF Startup, Files
  <2>2. held' \in [Thread -> Settings \cup {NoSettings}]
    BY <1>23, <2>1 DEF Startup
  <2>3. \A t \in Thread : pc'[t] \in {"idle", "chain", pc[t]} /\ after'[t] = after[t]
    BY <1>23 DEF Startup, Goto
  <2>4. \A t \in Thread : after'[t] # "apply"
    BY <1>23, <2>3 DEF Startup
  <2>5. pc' \in [Thread -> {"idle", "chain", "guardChain", "check", "read", "update", "snapshot",
                           "open", "write", "stop", "exit"} \cup Writing]
    BY <1>23 DEF Startup, Goto
  <2> QED
    BY <1>23, <2>1, <2>2, <2>3, <2>4, <2>5 DEF Startup
<1>24. ASSUME NEW c \in UserSettings, OutsideChange(c) PROVE TypeInv'
  BY <1>24 DEF OutsideChange
<1>25. ASSUME NEW s \in Imports, ImportConfig(s) PROVE TypeInv'
  <2>1. s.saved \in Settings \cup {NoSettings} /\ s.auto \in BOOLEAN
    BY DEF UserSettingsAssumption
  <2> QED
    BY <1>25, <2>1 DEF ImportConfig, UiIdle, Goto
<1>26. CASE UNCHANGED vars
  BY <1>26 DEF vars
<1> QED
  BY <1>1, <1>2, <1>3, <1>4, <1>5, <1>6, <1>7, <1>8, <1>9, <1>10, <1>11, <1>12, <1>13, <1>14, <1>15, <1>16, <1>17, <1>18, <1>19, <1>20, <1>21, <1>22, <1>23, <1>24, <1>25, <1>26 DEF Next, Step, Ui

(* The variables of the program have their types in every state. *)
THEOREM TypeCorrect == Spec => []TypeOK
<1>1. TypeInv => TypeOK
  BY DEF TypeInv
<1> QED
  BY TypeInit, TypeStep, <1>1, PTL DEF Spec
-----------------------------------------------------------------------------
(* AutoEnableSystemPac is never asked for, nor imported, and only registry   *)
(* writes fail.                                                              *)
ManualUse ==
  /\ AutoValues = {FALSE} /\ \A s \in Imports : ~s.auto
  /\ MayFail \subseteq {"write"}

LEMMA ManualInit == ManualUse /\ Init => ManualInv
<1> SUFFICES ASSUME ManualUse, Init PROVE ManualInv
  OBVIOUS
<1>1. TypeInv
  BY TypeInit
<1>2. reg.url # "prm"
  BY Constants DEF Init
<1> QED
  BY <1>1, <1>2 DEF Init, ManualUse, ManualInv, Alone, InHand, SavedFirst, WriteAhead,
                    Config, NoConfig, NoSettings, Thread, Writing

(* What an import has taken away stays away. *)
LEMMA DroppedStays == [Next]_vars /\ dropped => dropped'
  BY DEF Next, Step, Ui, vars, config, locals, history, ChainReady, ChainFails, ReadCurrent, ReadFails,
       UpdateSaved, SaveSnapshot, SaveTruncate, SaveWrite, SaveFails, WriteValue, WriteFails,
       EnableSystemPac, DisableSystemPac, PauseTrafficRouting, SaveSettings, ImportConfig, Shutdown,
       PauseStops, Exit, GuardTick, GuardCheck, GuardReadFails, Crash, Gone, Startup, OutsideChange

(* Whatever was imported, the guard does nothing. *)
LEMMA AloneStep == ManualUse /\ TypeInv /\ Alone /\ [Next]_vars => Alone'
<1> SUFFICES ASSUME ManualUse, TypeInv, Alone, [Next]_vars PROVE Alone'
  OBVIOUS
<1> USE DEF Alone, TypeInv, TypeOK, Thread, Writing, config, locals, history, Goto
<1>1. ASSUME NEW t \in Thread, Step(t) PROVE Alone'
  <2>1. t = "ui" /\ pc["ui"] # "guardChain"
    BY <1>1 DEF Step, ChainReady, ChainFails, ReadCurrent, ReadFails, UpdateSaved, SaveSnapshot, SaveTruncate,
         SaveWrite, SaveFails, WriteValue, WriteFails
  <2>2. CASE ChainReady(t)
    BY <2>1, <2>2 DEF ChainReady
  <2>8. CASE ChainFails(t)
    BY <2>1, <2>8 DEF ChainFails, Done
  <2>6. CASE ReadCurrent(t) \/ ReadFails(t)
    BY <2>1, <2>6 DEF ReadCurrent, ReadFails
  <2>7. CASE UpdateSaved(t)
    BY <2>1, <2>7 DEF UpdateSaved
  <2>3. CASE SaveSnapshot(t) \/ SaveTruncate(t)
    BY <2>1, <2>3 DEF SaveSnapshot, SaveTruncate, Config, NoConfig, Torn
  <2>4. CASE SaveWrite(t) \/ SaveFails(t)
    BY <2>1, <2>4 DEF SaveWrite, SaveFails, BeginEnable, Config, NoConfig, Torn
  <2>5. CASE WriteValue(t) \/ WriteFails(t)
    BY <2>1, <2>5 DEF WriteValue, WriteFails, Written, Done
  <2> QED
    BY <1>1, <2>2, <2>3, <2>4, <2>5, <2>6, <2>7, <2>8 DEF Step
<1>2. CASE EnableSystemPac \/ DisableSystemPac \/ PauseTrafficRouting \/ Shutdown
  BY <1>2 DEF EnableSystemPac, DisableSystemPac, PauseTrafficRouting, Shutdown, UiIdle, BeginEnable, BeginRestore
<1>3. CASE (\E b \in AutoValues : SaveSettings(b)) \/ \E s \in Imports : ImportConfig(s)
  BY <1>3 DEF ManualUse, SaveSettings, ImportConfig, UiIdle
<1>4. CASE PauseStops \/ Exit \/ GuardTick \/ GuardCheck \/ GuardReadFails
  BY <1>4 DEF PauseStops, Done, Exit, Gone, Config, NoConfig, GuardTick, GuardCheck, GuardReadFails
<1>5. CASE Crash \/ Startup \/ (\E c \in UserSettings : OutsideChange(c)) \/ UNCHANGED vars
  BY <1>5 DEF Crash, Gone, Config, NoConfig, Startup, OutsideChange, vars
<1> QED
  BY <1>1, <1>2, <1>3, <1>4, <1>5 DEF Next, Ui

(* Before an import takes the settings away, one step keeps the rest: only   *)
(* the window's calls have cases of their own.                               *)
LEMMA SavedStep ==
  ASSUME ManualUse, ManualInv, [Next]_vars, ~dropped'
  PROVE  InHand' /\ SavedFirst'
<1>d. ~dropped
  BY DroppedStays
<1>0. TypeInv /\ TypeInv'
  BY TypeStep DEF ManualInv
<1> DEFINE Inv == Alone /\ InHand /\ SavedFirst
<1>i. Inv
  BY <1>d DEF ManualInv
<1>t. TypeOK /\ TypeOK' /\ held \in [Thread -> Settings \cup {NoSettings}]
  BY <1>0 DEF TypeInv
<1> USE <1>i, <1>d, Constants DEF Alone, InHand, SavedFirst, WriteAhead, Thread, Writing, config, locals, history
<1>1. ASSUME NEW t \in Thread, ChainReady(t) PROVE Inv'
  <2>1. t = "ui"
    BY <1>1 DEF ChainReady
  <2> QED
    BY <1>1, <1>0, <2>1 DEF ChainReady, Goto, TypeInv, TypeOK
<1>2. ASSUME NEW t \in Thread, ChainFails(t) PROVE Inv'
  <2>1. t = "ui"
    BY <1>2 DEF ChainFails
  <2> QED
    BY <1>2, <1>0, <2>1 DEF ChainFails, Done, Goto, TypeInv, TypeOK
<1>3. ASSUME NEW t \in Thread, ReadCurrent(t) PROVE Inv'
  <2>1. t = "ui"
    BY <1>3 DEF ReadCurrent
  <2> QED
    BY <1>3, <1>0, <2>1 DEF ReadCurrent, Goto, TypeInv, TypeOK
<1>4. ASSUME NEW t \in Thread, UpdateSaved(t) PROVE Inv'
  <2>1. t = "ui"
    BY <1>4 DEF UpdateSaved
  <2> QED
    BY <1>4, <1>0, <2>1 DEF UpdateSaved, Goto, TypeInv, TypeOK
<1>5. ASSUME NEW t \in Thread, SaveSnapshot(t) PROVE Inv'
  <2>1. t = "ui"
    BY <1>5 DEF SaveSnapshot
  <2> QED
    BY <1>5, <1>0, <2>1 DEF SaveSnapshot, Goto, Config, TypeInv, TypeOK
<1>6. ASSUME NEW t \in Thread, SaveTruncate(t) PROVE Inv'
  <2>1. t = "ui"
    BY <1>6 DEF SaveTruncate
  <2> QED
    BY <1>6, <1>0, <2>1 DEF SaveTruncate, Goto, Config, Torn, NoConfig, NoSettings, TypeInv, TypeOK
<1>7. ASSUME NEW t \in Thread, SaveWrite(t) PROVE Inv'
  <2>1. t = "ui"
    BY <1>7 DEF SaveWrite
  <2> QED
    BY <1>7, <1>0, <2>1 DEF SaveWrite, Goto, BeginEnable, Config, NoConfig, TypeInv, TypeOK
<1>8. ASSUME NEW t \in Thread, WriteValue(t) PROVE Inv'
  <2>1. t = "ui"
    BY <1>8 DEF WriteValue
  <2> QED
    BY <1>8, <1>0, <2>1 DEF WriteValue, Written, Done, Goto, TypeInv, TypeOK
<1>9. ASSUME NEW t \in Thread, WriteFails(t) PROVE Inv'
  <2>1. t = "ui"
    BY <1>9 DEF WriteFails
  <2> QED
    BY <1>9, <1>0, <2>1 DEF WriteFails, Written, Done, Goto, TypeInv, TypeOK
<1>10. ASSUME NEW t \in Thread PROVE ~ReadFails(t) /\ ~SaveFails(t)
  BY DEF ManualUse, ReadFails, SaveFails
<1>11. ~GuardTick /\ ~GuardCheck /\ ~GuardReadFails
  BY DEF GuardTick, GuardCheck, GuardReadFails
<1>12. ASSUME EnableSystemPac PROVE Inv'
  BY <1>12, <1>0 DEF EnableSystemPac, UiIdle, BeginEnable, Goto, TypeInv, TypeOK
<1>13. ASSUME DisableSystemPac PROVE Inv'
  BY <1>13, <1>0 DEF DisableSystemPac, UiIdle, BeginRestore, Goto, TypeInv, TypeOK
<1>14. ASSUME PauseTrafficRouting PROVE Inv'
  BY <1>14, <1>0 DEF PauseTrafficRouting, UiIdle, BeginRestore, Goto, TypeInv, TypeOK
<1>15. ASSUME NEW b \in AutoValues, SaveSettings(b) PROVE Inv'
  BY <1>15, <1>0 DEF ManualUse, SaveSettings, UiIdle, Goto, TypeInv, TypeOK
<1>16. ASSUME Shutdown PROVE Inv'
  <2>1. CASE RestoreOnExit /\ saved # NoSettings
    BY <1>16, <1>0, <2>1 DEF Shutdown, UiIdle, BeginRestore, Goto, TypeInv, TypeOK
  <2>2. CASE RestoreOnExit /\ saved = NoSettings
    BY <1>16, <1>0, <2>2 DEF Shutdown, UiIdle, BeginRestore, Goto, TypeInv, TypeOK
  <2>3. CASE ~RestoreOnExit
    BY <1>16, <1>0, <2>3 DEF Shutdown, UiIdle, Goto, TypeInv, TypeOK
  <2> QED
    BY <2>1, <2>2, <2>3
<1>17. ASSUME PauseStops PROVE Inv'
  BY <1>17, <1>0 DEF PauseStops, Done, Goto, TypeInv, TypeOK
<1>18. ASSUME Exit PROVE Inv'
  BY <1>18, <1>0 DEF Exit, Gone, Config, NoConfig, TypeInv, TypeOK
<1>19. ASSUME Crash PROVE Inv'
  BY <1>19, <1>0 DEF Crash, Gone, Config, NoConfig, TypeInv, TypeOK
<1>20. ASSUME Startup PROVE Inv'
  BY <1>20, <1>0 DEF Startup, Goto, TypeInv, TypeOK
<1>21. ASSUME NEW c \in UserSettings, OutsideChange(c) PROVE Inv'
  BY <1>21, <1>0 DEF OutsideChange, TypeInv, TypeOK
<1>22. ASSUME NEW s \in Imports, ImportConfig(s) PROVE Inv'
  <2>1. s.saved \in Settings \cup {NoSettings} /\ ~s.auto
    BY UserSettingsAssumption DEF ManualUse
  <2>2. Alone'
    BY <1>22, <1>0, <2>1 DEF ImportConfig, UiIdle, Goto, TypeInv, TypeOK
  <2>3. s.saved.url # "prm" /\ (s.saved = NoSettings => reg.url # "prm")
    BY <1>22 DEF ImportConfig
  <2>4. InHand' /\ SavedFirst'
    BY <1>22, <1>0, <2>1, <2>3 DEF ImportConfig, UiIdle, Goto, TypeInv, TypeOK
  <2> QED
    BY <2>2, <2>4
<1>23. ASSUME UNCHANGED vars PROVE Inv'
  BY <1>23 DEF vars, TypeInv, TypeOK
<1> QED
  BY <1>0, <1>1, <1>2, <1>3, <1>4, <1>5, <1>6, <1>7, <1>8, <1>9, <1>10, <1>11, <1>12, <1>13, <1>14, <1>15, <1>16, <1>17, <1>18, <1>19, <1>20, <1>21, <1>22, <1>23 DEF Next, Step, Ui

LEMMA ManualStep == ManualUse /\ ManualInv /\ [Next]_vars => ManualInv'
  BY TypeStep, AloneStep, SavedStep DEF ManualInv

(* When the user never asks for AutoEnableSystemPac and only registry writes *)
(* fail, what a crash leaves in the file can always undo what is in the      *)
(* registry, unless an import has taken it away: for any settings of the     *)
(* user, any number of changes, imports and crashes.                         *)
THEOREM SavesBeforeApplying == ManualUse => (Spec => []WriteAhead)
<1> SUFFICES ASSUME ManualUse PROVE Spec => []WriteAhead
  OBVIOUS
<1>1. Init => ManualInv
  BY ManualInit
<1>2. ManualInv /\ [Next]_vars => ManualInv'
  BY ManualStep
<1>3. ManualInv => WriteAhead
  BY DEF ManualInv, SavedFirst, WriteAhead
<1> QED
  BY <1>1, <1>2, <1>3, PTL DEF Spec

(* Nor is PRM's own PAC ever saved as the settings to restore, unless an     *)
(* import has brought it or left nothing else to save.                       *)
THEOREM SavesOnlyTheUsers == ManualUse => (Spec => []SavedIsUsers)
<1> SUFFICES ASSUME ManualUse PROVE Spec => []SavedIsUsers
  OBVIOUS
<1>1. Init => ManualInv
  BY ManualInit
<1>2. ManualInv /\ [Next]_vars => ManualInv'
  BY ManualStep
<1>3. ManualInv => SavedIsUsers
  BY DEF ManualInv, SavedFirst, SavedIsUsers
<1> QED
  BY <1>1, <1>2, <1>3, PTL DEF Spec
=============================================================================
