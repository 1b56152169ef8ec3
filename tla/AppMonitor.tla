------------------------------ MODULE AppMonitor ------------------------------
(***************************************************************************)
(* The application monitor (internal/appmonitor): a goroutine that lists   *)
(* the connections of chosen applications every two seconds, publishes     *)
(* what it found for the window and keeps one entry of the traffic log for *)
(* each connection, beside the calls that start, stop and configure it and *)
(* the window clearing the log.                                            *)
(*                                                                         *)
(* One step is what the code does while it holds mu, one call of the log   *)
(* made while it holds mu, or one reading of the system's tables.          *)
(***************************************************************************)
EXTENDS Naturals, Sequences

CONSTANTS Keys,       \* connectionKey values: process, addresses and family
          Apps,       \* the applications the settings may name
          AppOf,      \* the application a connection belongs to
          MaxEvents   \* bound on what the system and the window do

ASSUME AppMonitorAssumption == AppOf \in [Keys -> Apps] /\ MaxEvents \in Nat

VARIABLES
  phase,     \* "new", "up", and Stop: "taken", "waiting", "stopped"
  included,  \* the applications to watch
  live,      \* connections that exist in the system
  tracked,   \* the log entry of each tracked connection; 0 for the others
  log,       \* entries of the traffic log, with those cleared away
  shown,     \* the connections the published snapshot counts
  pc,        \* where pollLoop is
  armed,     \* the stop channel its select waits on is not nil
  queries,   \* the applications the refresh under way looks for
  current,   \* the connections it has found
  steady,    \* history: live and included since the refresh began
  partial,   \* history: the refresh was given an incomplete list
  events

system == <<included, live, events>>
record == <<tracked, log, shown>>
locals == <<armed, queries, current>>
vars == <<phase, system, record, pc, locals, steady, partial>>

Watched(apps) == {k \in live : AppOf[k] \in apps}

(* The monitor holds mu while it synchronises. *)
MuFree == pc # "sync"

Init ==
  /\ phase = "new"
  /\ included \in SUBSET Apps
  /\ live = {}
  /\ tracked = [k \in Keys |-> 0] /\ log = << >> /\ shown = {}
  /\ pc = "off"
  /\ armed = FALSE /\ queries = {} /\ current = {}
  /\ steady = {} /\ partial = FALSE
  /\ events = 0

-----------------------------------------------------------------------------
Goto(l) == pc' = l

(* Start, which App.startup calls once. *)
Start ==
  /\ phase = "new"
  /\ phase' = "up"
  /\ Goto("queries")
  /\ UNCHANGED <<system, record, locals, steady, partial>>

(* refresh copies the list of applications... *)
ReadQueries ==
  /\ pc = "queries"
  /\ queries' = included
  /\ steady' = Watched(included)
  /\ partial' = FALSE
  /\ Goto(IF included = {} THEN "none" ELSE "list")
  /\ UNCHANGED <<phase, system, record, armed, current>>

(* ...without any it publishes nothing, and all entries are finished. *)
NoneKeepsEntries ==
  /\ pc = "none"
  /\ shown' = {}
  /\ Goto("arm")
  /\ UNCHANGED <<phase, system, tracked, log, locals, steady, partial>>

None ==
  /\ pc = "none"
  /\ shown' = {}
  /\ current' = {}
  /\ Goto("sync")
  /\ UNCHANGED <<phase, system, tracked, log, armed, queries, steady, partial>>

(* The system lists processes and connections. *)
Listed(S) ==
  /\ current' = S
  /\ Goto("publish")
  /\ UNCHANGED <<phase, included, live, record, armed, queries, steady>>

List == pc = "list" /\ Listed(Watched(queries)) /\ UNCHANGED <<partial, events>>

(* A list of processes that broke off, or a table of IPv6 connections that   *)
(* could not be read, is taken for a complete one.                           *)
ListPart ==
  /\ pc = "list"
  /\ events < MaxEvents /\ events' = events + 1
  /\ partial' = TRUE
  /\ \E S \in SUBSET Watched(queries) : Listed(S)

(* Without processes or IPv4 connections the refresh is given up.            *)
ListFailsAsEmpty == pc = "list" /\ Listed({}) /\ UNCHANGED <<partial, events>>
ListFails ==
  /\ pc = "list"
  /\ Goto("arm")
  /\ UNCHANGED <<phase, system, record, locals, steady, partial>>

Publish ==
  /\ pc = "publish"
  /\ shown' = current
  /\ Goto("sync")
  /\ UNCHANGED <<phase, system, tracked, log, locals, steady, partial>>

(* syncConnections: an entry for each new connection...                      *)
AddEntry(k) ==
  /\ pc = "sync"
  /\ k \in current /\ tracked[k] = 0
  /\ log' = Append(log, [key |-> k, status |-> "active"])
  /\ tracked' = [tracked EXCEPT ![k] = Len(log')]
  /\ UNCHANGED <<phase, system, shown, pc, locals, steady, partial>>

(* ...then those of the connections outside S are finished and forgotten,    *)
(* which does not bring back entries that were cleared away.                 *)
ForgetOutside(S) ==
  /\ tracked' = [k \in Keys |-> IF k \in S THEN tracked[k] ELSE 0]
  /\ UNCHANGED log
FinishOutside(S) ==
  /\ tracked' = [k \in Keys |-> IF k \in S THEN tracked[k] ELSE 0]
  /\ log' = [i \in DOMAIN log |->
               IF log[i].status = "active" /\ log[i].key \notin S /\ tracked[log[i].key] = i
               THEN [log[i] EXCEPT !.status = "closed"] ELSE log[i]]

SyncAddsOnly ==
  /\ pc = "sync"
  /\ \A k \in current : tracked[k] # 0
  /\ Goto("arm")
  /\ UNCHANGED <<phase, system, record, locals, steady, partial>>

Sync ==
  /\ pc = "sync"
  /\ \A k \in current : tracked[k] # 0
  /\ FinishOutside(current)
  /\ Goto("arm")
  /\ UNCHANGED <<phase, system, shown, locals, steady, partial>>

-----------------------------------------------------------------------------
(* pollLoop reads the field anew for each select; nil once Stop has taken it. *)
Arm ==
  /\ pc = "arm"
  /\ armed' = (phase = "up")
  /\ Goto("select")
  /\ UNCHANGED <<phase, system, record, queries, current, steady, partial>>

Tick ==
  /\ pc = "select"
  /\ Goto("queries")
  /\ UNCHANGED <<phase, system, record, locals, steady, partial>>

LoopExit ==
  /\ pc = "select"
  /\ armed /\ phase = "waiting"
  /\ Goto("off")
  /\ UNCHANGED <<phase, system, record, locals, steady, partial>>

(* Stop takes the channel out of its field, closes it and waits.             *)
StopTakes ==
  /\ phase = "up" /\ MuFree
  /\ phase' = "taken"
  /\ UNCHANGED <<system, record, pc, locals, steady, partial>>

StopCloses ==
  /\ phase = "taken"
  /\ phase' = "waiting"
  /\ UNCHANGED <<system, record, pc, locals, steady, partial>>

StopFinishesUnwaited ==
  /\ phase = "waiting" /\ MuFree
  /\ phase' = "stopped"
  /\ FinishOutside({})
  /\ UNCHANGED <<system, shown, pc, locals, steady, partial>>

StopFinishes ==
  /\ phase = "waiting" /\ pc = "off"
  /\ phase' = "stopped"
  /\ FinishOutside({})
  /\ UNCHANGED <<system, shown, pc, locals, steady, partial>>

-----------------------------------------------------------------------------
Event == events < MaxEvents /\ events' = events + 1

UpdateIncludedApps(apps) ==
  /\ phase # "new" /\ MuFree
  /\ Event
  /\ included' = apps
  /\ steady' = {k \in steady : AppOf[k] \in apps}
  /\ UNCHANGED <<phase, live, record, pc, locals, partial>>

Open(k) ==
  /\ k \notin live
  /\ Event
  /\ live' = live \cup {k}
  /\ UNCHANGED <<phase, included, record, pc, locals, steady, partial>>

Close(k) ==
  /\ k \in live
  /\ live' = live \ {k}
  /\ steady' = steady \ {k}
  /\ UNCHANGED <<phase, included, events, record, pc, locals, partial>>

(* ClearLogs in the window. *)
ClearLogs ==
  /\ Event
  /\ log' = [i \in DOMAIN log |-> [log[i] EXCEPT !.status = "cleared"]]
  /\ UNCHANGED <<phase, included, live, tracked, shown, pc, locals, steady, partial>>

-----------------------------------------------------------------------------
Refresh ==
  \/ ReadQueries \/ None \/ List \/ ListPart \/ ListFails \/ Publish
  \/ \E k \in Keys : AddEntry(k)
  \/ Sync

Stop == StopTakes \/ StopCloses \/ StopFinishes

Next ==
  \/ Start \/ Refresh \/ Arm \/ Tick \/ LoopExit \/ Stop
  \/ \E apps \in SUBSET Apps : UpdateIncludedApps(apps)
  \/ \E k \in Keys : Open(k) \/ Close(k)
  \/ ClearLogs

Spec == Init /\ [][Next]_vars

(* The goroutine runs, its ticker ticks and a reading of the tables that is  *)
(* repeated succeeds in the end; Stop goes on once it is called.             *)
FairSpec ==
  /\ Spec
  /\ WF_vars(Refresh) /\ SF_vars(List)
  /\ WF_vars(Arm) /\ WF_vars(Tick \/ LoopExit)
  /\ WF_vars(StopCloses) /\ WF_vars(StopFinishes)

-----------------------------------------------------------------------------
Entries == [key : Keys, status : {"active", "closed", "cleared"}]

TypeOK ==
  /\ phase \in {"new", "up", "taken", "waiting", "stopped"}
  /\ included \in SUBSET Apps /\ queries \in SUBSET Apps
  /\ live \in SUBSET Keys /\ current \in SUBSET Keys /\ shown \in SUBSET Keys /\ steady \in SUBSET Keys
  /\ log \in Seq(Entries)
  /\ tracked \in [Keys -> 0..Len(log)]
  /\ pc \in {"off", "queries", "none", "list", "publish", "sync", "arm", "select"}
  /\ armed \in BOOLEAN /\ partial \in BOOLEAN
  /\ events \in 0..MaxEvents

(* The log's active entries are those of the connections the monitor still   *)
(* follows, one each: none is left active for ever, none is finished twice   *)
(* or for another connection, whatever is cleared in between.                *)
ActiveIsTracked ==
  /\ \A i \in DOMAIN log : log[i].status = "active" => tracked[log[i].key] = i
  /\ \A k \in Keys : tracked[k] # 0 => log[tracked[k]].key = k /\ log[tracked[k]].status # "closed"

(* Unless the log is just being brought up to date, the number the window    *)
(* shows is that of the connections in the log: after failed and incomplete  *)
(* listings and changed settings too.                                        *)
ShownAgrees ==
  pc \notin {"sync", "off"} => shown = {k \in Keys : tracked[k] # 0}

(* Once Stop has returned the goroutine is gone and no entry is active.      *)
StopSettles ==
  phase = "stopped" => pc = "off" /\ \A i \in DOMAIN log : log[i].status # "active"

(* An entry is finished only when its connection has gone, its application   *)
(* is no longer watched, the monitor stops, or a listing was incomplete:     *)
(* never because a refresh failed or was overtaken.                          *)
OnlyGoneFinish ==
  [][\A k \in Keys : tracked[k] # 0 /\ tracked'[k] = 0 =>
       k \notin steady \/ partial \/ phase' = "stopped"]_vars

(* The entry of a connection that has gone is finished, or the connection    *)
(* has come back before anyone looked.                                       *)
GoneIsFinished == \A k \in Keys : (tracked[k] # 0 /\ k \notin live) ~> (tracked[k] = 0 \/ k \in live)

(* Stop returns.  It need not: a loop whose refresh was under way when Stop   *)
(* emptied the field waits on nil from then on.                              *)
StopReturns == phase = "waiting" ~> phase = "stopped"
-----------------------------------------------------------------------------
(* What makes the three invariants inductive: where the loop and Stop can be *)
(* together, and what is tracked before the one and after the other.         *)
Phases ==
  /\ pc = "sync" => shown = current
  /\ pc = "off" => phase \in {"new", "waiting", "stopped"}
  /\ phase \in {"new", "stopped"} => pc = "off" /\ \A k \in Keys : tracked[k] = 0
  /\ phase = "new" => shown = {}

MonitorInv == TypeOK /\ ActiveIsTracked /\ ShownAgrees /\ Phases

(* What makes OnlyGoneFinish one: a complete listing has every connection    *)
(* that was there and watched all along, and no listing at all had none.     *)
SteadyFound ==
  /\ steady \subseteq live
  /\ pc = "none" => steady = {}
  /\ pc = "list" => steady \subseteq Watched(queries)
  /\ pc \in {"publish", "sync"} /\ ~partial => steady \subseteq current
=============================================================================
