-------------------------- MODULE AppMonitor_proofs --------------------------
(***************************************************************************)
(* Proofs about AppMonitor: its entries in the traffic log follow its      *)
(* tracked connections, for any number of connections and applications.    *)
(***************************************************************************)
EXTENDS AppMonitor, SequenceTheorems, TLAPS

(* A log rewritten entry by entry is a log of the same length. *)
LEMMA Rewritten ==
  ASSUME NEW s \in Seq(Entries), NEW t, t \in [DOMAIN s -> Entries]
  PROVE  t \in Seq(Entries) /\ Len(t) = Len(s) /\ DOMAIN t = DOMAIN s
<1>1. Len(s) \in Nat /\ DOMAIN s = 1..Len(s)
  BY LenProperties
<1>2. t \in Seq(Entries)
  BY <1>1, SeqDef
<1>3. DOMAIN t = 1..Len(t) /\ Len(t) \in Nat
  BY <1>2, LenProperties
<1> QED
  BY <1>1, <1>2, <1>3

LEMMA MonitorInit == Init => MonitorInv
<1> SUFFICES ASSUME Init PROVE MonitorInv
  OBVIOUS
<1>1. log \in Seq(Entries) /\ Len(log) = 0 /\ DOMAIN log = {}
  BY EmptySeq DEF Init
<1> QED
  <2>0. tracked \in [Keys -> 0..Len(log)] /\ events \in 0..MaxEvents
    BY <1>1, AppMonitorAssumption DEF Init
  <2>1. TypeOK
    BY <1>1, <2>0 DEF Init, TypeOK
  <2>2. ActiveIsTracked /\ ShownAgrees /\ Phases
    BY <1>1 DEF Init, ActiveIsTracked, ShownAgrees, Phases
  <2> QED
    BY <2>1, <2>2 DEF MonitorInv

(* A new entry stands behind the others, and its connection is tracked by it. *)
LEMMA AddKeeps ==
  ASSUME MonitorInv, NEW k \in Keys, AddEntry(k)
  PROVE  MonitorInv'
<1> DEFINE e == [key |-> k, status |-> "active"]
<1>1. e \in Entries /\ log \in Seq(Entries)
  BY DEF Entries, MonitorInv, TypeOK
<1>2. /\ log' \in Seq(Entries) /\ Len(log') = Len(log) + 1
      /\ log'[Len(log) + 1] = e
      /\ \A i \in 1..Len(log) : log'[i] = log[i]
      /\ DOMAIN log = 1..Len(log) /\ DOMAIN log' = 1..(Len(log) + 1) /\ Len(log) \in Nat
  BY <1>1, AppendProperties, LenProperties DEF AddEntry
<1>3. tracked' = [tracked EXCEPT ![k] = Len(log) + 1] /\ tracked[k] = 0 /\ k \in current /\ pc = "sync"
  BY <1>2 DEF AddEntry
<1>4. tracked \in [Keys -> 0..Len(log)]
  BY DEF MonitorInv, TypeOK
<1>5. TypeOK'
  BY <1>2, <1>3, <1>4 DEF AddEntry, MonitorInv, TypeOK, system, locals
<1>6. ActiveIsTracked'
  <2>1. ASSUME NEW i \in DOMAIN log', log'[i].status = "active" PROVE tracked'[log'[i].key] = i
    <3>1. CASE i = Len(log) + 1
      BY <3>1, <1>2, <1>3, <1>4
    <3>2. CASE i \in 1..Len(log)
      <4>0. log[i] \in Entries
        BY <3>2, <1>1, ElementOfSeq
      <4>1. tracked[log[i].key] = i /\ log[i].key \in Keys
        BY <2>1, <3>2, <4>0, <1>2 DEF MonitorInv, ActiveIsTracked, Entries
      <4> QED
        BY <4>1, <3>2, <1>2, <1>3, <1>4
    <3> QED
      BY <3>1, <3>2, <2>1, <1>2
  <2>2. ASSUME NEW j \in Keys, tracked'[j] # 0
        PROVE  log'[tracked'[j]].key = j /\ log'[tracked'[j]].status # "closed"
    <3>1. CASE j = k
      BY <3>1, <1>2, <1>3, <1>4
    <3>2. CASE j # k
      BY <3>2, <2>2, <1>2, <1>3, <1>4 DEF MonitorInv, ActiveIsTracked
    <3> QED
      BY <3>1, <3>2
  <2> QED
    BY <2>1, <2>2 DEF ActiveIsTracked
<1> QED
  BY <1>3, <1>5, <1>6 DEF AddEntry, MonitorInv, ShownAgrees, Phases, locals

(* The entries outside S are finished, and nothing outside S stays tracked. *)
LEMMA FinishKeeps ==
  ASSUME MonitorInv, NEW S, FinishOutside(S)
  PROVE  /\ log' \in Seq(Entries) /\ tracked' \in [Keys -> 0..Len(log')]
         /\ ActiveIsTracked'
         /\ \A k \in Keys : tracked'[k] = IF k \in S THEN tracked[k] ELSE 0
<1>1. log \in Seq(Entries) /\ tracked \in [Keys -> 0..Len(log)]
  BY DEF MonitorInv, TypeOK
<1>2. \A i \in DOMAIN log : log[i] \in Entries
  BY <1>1, ElementOfSeq, LenProperties
<1>3. log' \in [DOMAIN log -> Entries]
  BY <1>2 DEF FinishOutside, Entries
<1>4. log' \in Seq(Entries) /\ Len(log') = Len(log) /\ DOMAIN log' = DOMAIN log
      /\ DOMAIN log = 1..Len(log) /\ Len(log) \in Nat
  BY <1>1, <1>3, Rewritten, LenProperties
<1>5. \A k \in Keys : tracked'[k] = IF k \in S THEN tracked[k] ELSE 0
  BY DEF FinishOutside
<1>6. tracked' \in [Keys -> 0..Len(log')]
  BY <1>1, <1>4 DEF FinishOutside
<1>7. \A i \in DOMAIN log :
        log'[i] = IF log[i].status = "active" /\ log[i].key \notin S /\ tracked[log[i].key] = i
                  THEN [log[i] EXCEPT !.status = "closed"] ELSE log[i]
  BY DEF FinishOutside
<1>8. ASSUME NEW i \in DOMAIN log', log'[i].status = "active" PROVE tracked'[log'[i].key] = i
  <2>1. log[i].status = "active" /\ log'[i] = log[i]
    BY <1>2, <1>4, <1>7, <1>8 DEF Entries
  <2>2. tracked[log[i].key] = i /\ log[i].key \in Keys
    BY <2>1, <1>2, <1>4 DEF MonitorInv, ActiveIsTracked, Entries
  <2>3. log[i].key \in S
    BY <2>1, <2>2, <1>2, <1>4, <1>7, <1>8 DEF Entries
  <2> QED
    BY <2>1, <2>2, <2>3, <1>5
<1>9. ASSUME NEW k \in Keys, tracked'[k] # 0
      PROVE  log'[tracked'[k]].key = k /\ log'[tracked'[k]].status # "closed"
  <2>1. k \in S /\ tracked'[k] = tracked[k]
    BY <1>5, <1>9
  <2>2. tracked[k] \in DOMAIN log
    BY <2>1, <1>1, <1>4, <1>9
  <2>3. log[tracked[k]].key = k /\ log[tracked[k]].status # "closed"
    BY <2>1, <1>9 DEF MonitorInv, ActiveIsTracked
  <2> QED
    BY <2>1, <2>2, <2>3, <1>7
<1> QED
  BY <1>4, <1>5, <1>6, <1>8, <1>9 DEF ActiveIsTracked

LEMMA SyncKeeps ==
  ASSUME MonitorInv, Sync
  PROVE  MonitorInv'
<1>1. FinishOutside(current)
  BY DEF Sync
<1>2. TypeOK'
  BY <1>1, FinishKeeps DEF Sync, Goto, MonitorInv, TypeOK, system, locals
<1>3. current \subseteq Keys
  BY DEF MonitorInv, TypeOK
<1>4. ShownAgrees'
  BY <1>1, <1>3, FinishKeeps DEF Sync, Goto, MonitorInv, ShownAgrees, Phases, locals
<1>5. Phases'
  BY <1>1, FinishKeeps DEF Sync, Goto, MonitorInv, Phases
<1> QED
  BY <1>1, <1>2, <1>4, <1>5, FinishKeeps DEF MonitorInv

LEMMA StopFinishesKeeps ==
  ASSUME MonitorInv, StopFinishes
  PROVE  MonitorInv'
<1>1. FinishOutside({})
  BY DEF StopFinishes
<1>2. TypeOK'
  BY <1>1, FinishKeeps DEF StopFinishes, MonitorInv, TypeOK, system, locals
<1>3. ShownAgrees' /\ Phases'
  BY <1>1, FinishKeeps DEF StopFinishes, MonitorInv, ShownAgrees, Phases, locals
<1> QED
  BY <1>1, <1>2, <1>3, FinishKeeps DEF MonitorInv

(* Clearing leaves no entry active. *)
LEMMA ClearKeeps ==
  ASSUME MonitorInv, ClearLogs
  PROVE  MonitorInv'
<1>1. log \in Seq(Entries) /\ tracked \in [Keys -> 0..Len(log)]
  BY DEF MonitorInv, TypeOK
<1>2. \A i \in DOMAIN log : log[i] \in Entries
  BY <1>1, ElementOfSeq, LenProperties
<1>3. log' \in [DOMAIN log -> Entries]
  BY <1>2 DEF ClearLogs, Entries
<1>4. log' \in Seq(Entries) /\ Len(log') = Len(log) /\ DOMAIN log' = DOMAIN log
      /\ DOMAIN log = 1..Len(log) /\ Len(log) \in Nat
  BY <1>1, <1>3, Rewritten, LenProperties
<1>5. \A i \in DOMAIN log : log'[i].status = "cleared" /\ log'[i].key = log[i].key
  BY <1>2 DEF ClearLogs, Entries
<1>6. TypeOK'
  BY <1>4, AppMonitorAssumption DEF ClearLogs, Event, MonitorInv, TypeOK, locals
<1>7. ActiveIsTracked'
  BY <1>1, <1>4, <1>5 DEF ClearLogs, MonitorInv, ActiveIsTracked
<1> QED
  BY <1>6, <1>7 DEF ClearLogs, MonitorInv, ShownAgrees, Phases, locals

LEMMA MonitorStep == MonitorInv /\ [Next]_vars => MonitorInv'
<1> SUFFICES ASSUME MonitorInv, [Next]_vars PROVE MonitorInv'
  OBVIOUS
<1> USE AppMonitorAssumption DEF MonitorInv, TypeOK, ShownAgrees, Phases, Goto, system, record, locals
<1>1. ASSUME UNCHANGED <<tracked, log>> PROVE ActiveIsTracked'
  BY <1>1 DEF ActiveIsTracked
<1>2. CASE Start
  BY <1>1, <1>2 DEF Start
<1>3. CASE ReadQueries
  BY <1>1, <1>3 DEF ReadQueries, Watched
<1>4. CASE None
  BY <1>1, <1>4 DEF None
<1>5. CASE List
  BY <1>1, <1>5 DEF List, Listed, Watched
<1>6. CASE ListPart
  BY <1>1, <1>6 DEF ListPart, Listed, Watched
<1>7. CASE ListFails
  BY <1>1, <1>7 DEF ListFails
<1>8. CASE Publish
  BY <1>1, <1>8 DEF Publish
<1>9. ASSUME NEW k \in Keys, AddEntry(k) PROVE MonitorInv'
  BY <1>9, AddKeeps
<1>10. CASE Sync
  BY <1>10, SyncKeeps
<1>11. CASE Arm
  BY <1>1, <1>11 DEF Arm
<1>12. CASE Tick
  BY <1>1, <1>12 DEF Tick
<1>13. CASE LoopExit
  BY <1>1, <1>13 DEF LoopExit
<1>14. CASE StopTakes
  BY <1>1, <1>14 DEF StopTakes
<1>15. CASE StopCloses
  BY <1>1, <1>15 DEF StopCloses
<1>16. CASE StopFinishes
  BY <1>16, StopFinishesKeeps
<1>17. ASSUME NEW apps \in SUBSET Apps, UpdateIncludedApps(apps) PROVE MonitorInv'
  BY <1>1, <1>17 DEF UpdateIncludedApps, Event
<1>18. ASSUME NEW k \in Keys, Open(k) PROVE MonitorInv'
  BY <1>1, <1>18 DEF Open, Event
<1>19. ASSUME NEW k \in Keys, Close(k) PROVE MonitorInv'
  BY <1>1, <1>19 DEF Close
<1>20. CASE ClearLogs
  BY <1>20, ClearKeeps
<1>21. CASE UNCHANGED vars
  BY <1>1, <1>21 DEF vars
<1> QED
  BY <1>2, <1>3, <1>4, <1>5, <1>6, <1>7, <1>8, <1>9, <1>10, <1>11, <1>12, <1>13, <1>14, <1>15, <1>16, <1>17, <1>18, <1>19, <1>20, <1>21 DEF Next, Refresh, Stop

LEMMA MonitorInvariance == Spec => []MonitorInv
BY MonitorInit, MonitorStep, PTL DEF Spec

(* The variables of the monitor have their types in every state. *)
THEOREM MonitorTypes == Spec => []TypeOK
<1>1. MonitorInv => TypeOK
  BY DEF MonitorInv
<1> QED
  BY MonitorInvariance, <1>1, PTL

(* No entry of the log stays active without a connection that is followed,   *)
(* and no connection has two: for any number of connections, applications,   *)
(* failed listings and cleared logs.                                         *)
THEOREM EntriesFollowConnections == Spec => []ActiveIsTracked
<1>1. MonitorInv => ActiveIsTracked
  BY DEF MonitorInv
<1> QED
  BY MonitorInvariance, <1>1, PTL

(* Between refreshes the window's count is that of the log. *)
THEOREM CountAgrees == Spec => []ShownAgrees
<1>1. MonitorInv => ShownAgrees
  BY DEF MonitorInv
<1> QED
  BY MonitorInvariance, <1>1, PTL

(* When Stop has returned nothing is active and nothing runs. *)
THEOREM StopLeavesNoneActive == Spec => []StopSettles
<1>1. MonitorInv => StopSettles
  <2> SUFFICES ASSUME MonitorInv, phase = "stopped", NEW i \in DOMAIN log, log[i].status = "active"
               PROVE  FALSE
    BY DEF MonitorInv, Phases, StopSettles
  <2>1. log \in Seq(Entries)
    BY DEF MonitorInv, TypeOK
  <2>2. i \in 1..Len(log) /\ Len(log) \in Nat
    BY <2>1, LenProperties
  <2>3. log[i] \in Entries
    BY <2>1, <2>2, ElementOfSeq
  <2> QED
    BY <2>2, <2>3 DEF MonitorInv, Phases, ActiveIsTracked, Entries
<1> QED
  BY MonitorInvariance, <1>1, PTL

LEMMA SteadyInit == Init => SteadyFound
BY DEF Init, SteadyFound

(* The listing under way keeps the connections that stay, whatever the       *)
(* system and the window do meanwhile.                                       *)
LEMMA SteadyStep == SteadyFound /\ [Next]_vars => SteadyFound'
<1> SUFFICES ASSUME SteadyFound, [Next]_vars PROVE SteadyFound'
  OBVIOUS
<1> USE DEF SteadyFound, Watched, Goto, system, record, locals
<1>1. CASE Start
  BY <1>1 DEF Start
<1>2. CASE ReadQueries
  BY <1>2 DEF ReadQueries
<1>3. CASE None
  BY <1>3 DEF None
<1>4. CASE List
  BY <1>4 DEF List, Listed
<1>5. CASE ListPart
  BY <1>5 DEF ListPart, Listed
<1>6. CASE ListFails
  BY <1>6 DEF ListFails
<1>7. CASE Publish
  BY <1>7 DEF Publish
<1>8. ASSUME NEW k \in Keys, AddEntry(k) PROVE SteadyFound'
  BY <1>8 DEF AddEntry
<1>9. CASE Sync
  BY <1>9 DEF Sync
<1>10. CASE Arm
  BY <1>10 DEF Arm
<1>11. CASE Tick
  BY <1>11 DEF Tick
<1>12. CASE LoopExit
  BY <1>12 DEF LoopExit
<1>13. CASE Stop
  BY <1>13 DEF Stop, StopTakes, StopCloses, StopFinishes
<1>14. ASSUME NEW apps \in SUBSET Apps, UpdateIncludedApps(apps) PROVE SteadyFound'
  BY <1>14 DEF UpdateIncludedApps
<1>15. ASSUME NEW k \in Keys, Open(k) PROVE SteadyFound'
  BY <1>15 DEF Open
<1>16. ASSUME NEW k \in Keys, Close(k) PROVE SteadyFound'
  BY <1>16 DEF Close
<1>17. CASE ClearLogs
  BY <1>17 DEF ClearLogs
<1>18. CASE UNCHANGED vars
  BY <1>18 DEF vars
<1> QED
  BY <1>1, <1>2, <1>3, <1>4, <1>5, <1>6, <1>7, <1>8, <1>9, <1>10, <1>11, <1>12, <1>13, <1>14, <1>15, <1>16, <1>17, <1>18 DEF Next, Refresh

LEMMA SteadyInvariance == Spec => []SteadyFound
BY SteadyInit, SteadyStep, PTL DEF Spec

(* Only two steps forget an entry: the end of a refresh, of connections it   *)
(* did not find, and Stop.                                                   *)
LEMMA ForgottenByTwo ==
  ASSUME MonitorInv, [Next]_vars, NEW k \in Keys, tracked[k] # 0, tracked'[k] = 0
  PROVE  (pc = "sync" /\ k \notin current) \/ phase' = "stopped"
<1>1. tracked \in [Keys -> 0..Len(log)] /\ log \in Seq(Entries)
  BY DEF MonitorInv, TypeOK
<1>2. CASE Sync
  BY <1>2 DEF Sync, FinishOutside
<1>3. CASE Stop
  BY <1>3 DEF Stop, StopTakes, StopCloses, StopFinishes, record
<1>4. ASSUME NEW j \in Keys, AddEntry(j) PROVE FALSE
  <2>1. Len(log') = Len(log) + 1 /\ Len(log) \in Nat
    BY <1>1, <1>4, AppendProperties, LenProperties DEF AddEntry, Entries
  <2> QED
    BY <1>1, <1>4, <2>1 DEF AddEntry
<1> QED
  BY <1>2, <1>3, <1>4 DEF Next, Refresh, vars, record, Start, ReadQueries, None, List, ListPart, Listed, ListFails,
       Publish, Arm, Tick, LoopExit, UpdateIncludedApps, Open, Close, ClearLogs

(* The entry of a connection that lived and was watched all along is never   *)
(* finished by a complete refresh: only Stop and incomplete listings do that.*)
THEOREM SteadyKeepEntries == Spec => OnlyGoneFinish
<1>1. ASSUME MonitorInv, SteadyFound, [Next]_vars
      PROVE  [\A k \in Keys : tracked[k] # 0 /\ tracked'[k] = 0 =>
                k \notin steady \/ partial \/ phase' = "stopped"]_vars
  BY <1>1, ForgottenByTwo DEF SteadyFound
<1> QED
  BY <1>1, MonitorInvariance, SteadyInvariance, PTL DEF Spec, OnlyGoneFinish
=============================================================================
