------------------------ MODULE CaptureTable_proofs ------------------------
(* Proofs about the redirect table and the packets rewritten with it, for    *)
(* any connections, ports, addresses and bounds.                             *)
EXTENDS PacketReflect, TLAPS

LEMMA InitIInv == Init => IInv
  <1> SUFFICES ASSUME Init PROVE IInv
    OBVIOUS
  <1> USE DEF Init
  <1>1. TypeOK
    <2>1. starts \in 0..MaxStarts
      BY BoundAssumption
    <2>2. pc \in [Thread -> PC]
      BY DEF PC
    <2> QED
      BY <2>1, <2>2 DEF TypeOK, Phase
  <1>2. EntryFields /\ ServedCreated /\ Registering
    BY ConnAssumption DEF EntryFields, ServedCreated, Registering, Thread
  <1>3. ListenerOwned /\ ListenerRegistered
    BY DEF ListenerOwned, ListenerRegistered
  <1>4. ReverseSound
    BY ConnAssumption DEF ReverseSound
  <1>5. WaitGroupZero
    BY DEF WaitGroupZero, Serving, Thread
  <1> QED
    BY <1>1, <1>2, <1>3, <1>4, <1>5 DEF IInv

(* Unlink returns a map, which holds nothing byRedirect did not hold. *)
LEMMA UnlinkMap ==
  ASSUME NEW S, byRedirect \in [RedirectPort -> Conn \cup {NoConn}]
  PROVE  /\ Unlink(S) \in [RedirectPort -> Conn \cup {NoConn}]
         /\ \A r \in RedirectPort : Unlink(S)[r] # NoConn =>
              /\ Unlink(S)[r] = byRedirect[r]
              /\ \A c \in S : redirectPort[c] # r
  BY DEF Unlink

(* An object not created yet is in no map and has no listener. *)
LEMMA FreshAbsent ==
  ASSUME IInv, NEW c \in Conn, c \notin Created
  PROVE  /\ \A p \in LocalPort : connections[p] # c
         /\ \A r \in RedirectPort : byRedirect[r] # c
         /\ c \notin listening
         /\ serve[c] = "none" /\ pc[c] = "off" /\ c # regConn
  <1>1. \A p \in LocalPort : connections[p] # c
    BY ConnAssumption, PortAssumption DEF IInv, EntryFields, Created
  <1> QED
    BY <1>1 DEF IInv, ReverseSound, ListenerRegistered, ServedCreated

(* Removing the entry of p keeps what IInv says of the rest. *)
LEMMA UnregisterKeeps ==
  ASSUME IInv, NEW t \in Thread, NEW p \in LocalPort, NEW next \in {"check", "off"},
         t = "socket" => next = "check" /\ pc["socket"] = "recv",
         t # "socket" => t \in Conn /\ next = "off" /\ t \in Created,
         Unregister(t, p, next),
         UNCHANGED <<phase, serve, filter, snapshot, regConn, reaperChan, starts>>
  PROVE  IInv'
  <1> USE ConnAssumption, PortAssumption
  <1> DEFINE conn == connections[p]
  <1>1. UNCHANGED <<localPort, redirectPort>>
    BY DEF Unregister
  <1>2. /\ connections' = [connections EXCEPT ![p] = NoConn]
        /\ byRedirect' = Unlink({conn} \ {NoConn})
        /\ listening' = listening \ {conn}
        /\ pc' = [pc EXCEPT ![t] = IF conn = NoConn THEN next ELSE "build"]
    BY DEF Unregister
  <1>3. TypeOK'
    BY <1>1, <1>2, UnlinkMap DEF IInv, TypeOK, filter, PC
  <1>4. EntryFields'
    BY <1>1, <1>2 DEF IInv, TypeOK, EntryFields
  <1>5. ServedCreated'
    BY <1>1, <1>2 DEF IInv, TypeOK, ServedCreated, Created, Thread
  <1>6. Registering'
    BY <1>2 DEF IInv, TypeOK, Registering, Thread
  <1>7. ListenerOwned'
    BY <1>2 DEF IInv, ListenerOwned, Serving
  <1>8. ListenerRegistered'
    BY <1>1, <1>2 DEF IInv, TypeOK, ListenerRegistered, Created
  <1>9. ReverseSound'
    <2> SUFFICES ASSUME NEW r \in RedirectPort, NEW c \in Conn, byRedirect'[r] = c
                 PROVE  /\ c \in Created' /\ redirectPort'[c] = r
                        /\ connections'[localPort'[c]] = c
      BY DEF ReverseSound
    <2>1. byRedirect[r] = c /\ \A d \in {conn} \ {NoConn} : redirectPort[d] # r
      BY <1>2, UnlinkMap DEF IInv, TypeOK
    <2>2. c \in Created /\ redirectPort[c] = r /\ connections[localPort[c]] = c
      BY <2>1 DEF IInv, ReverseSound
    <2>3. localPort[c] # p
      BY <2>1, <2>2
    <2> QED
      BY <1>1, <1>2, <2>2, <2>3 DEF IInv, TypeOK, Created
  <1>10. phase' = "stopped" => WaitGroupZero'
    BY <1>2 DEF IInv, TypeOK, WaitGroupZero, Serving, filter, Thread
  <1> QED
    BY <1>3, <1>4, <1>5, <1>6, <1>7, <1>8, <1>9, <1>10 DEF IInv

(* Steps that leave the table and its connections alone. *)
LEMMA ControlStep ==
  ASSUME IInv, TypeOK',
         UNCHANGED <<table, serve, regConn>>,
         \A t \in Thread : pc'[t] # pc[t] =>
           \/ pc'[t] = "off" /\ pc[t] # "build" /\ pc[t] # "install" /\ pc[t] # "spawn"
           \/ t \in Conn /\ pc[t] # "off" /\ pc'[t] \in {"off", "install"}
           \/ t = "socket" /\ pc'[t] \in {"install", "recv"}
                /\ (regConn # NoConn => pc'[t] = "install")
           \/ t = "socket" /\ pc'[t] = AfterRefresh(t)
           \/ t = "reaper" /\ pc'[t] \in {"arm", "select", "install"},
         phase' = "stopped" => WaitGroupZero'
  PROVE  IInv'
  <1> USE ConnAssumption, PortAssumption
  <1>1. EntryFields' /\ ListenerOwned' /\ ListenerRegistered' /\ ReverseSound'
    BY DEF IInv, table, EntryFields, ListenerOwned, ListenerRegistered, ReverseSound,
           Created, Serving
  <1>2. ServedCreated'
    BY DEF IInv, ServedCreated, table, Created, Thread
  <1>3. Registering'
    BY DEF IInv, TypeOK, Registering, Thread, AfterRefresh
  <1> QED
    BY <1>1, <1>2, <1>3 DEF IInv

LEMMA LifecycleStep == IInv /\ Lifecycle => IInv'
  <1> USE ConnAssumption, PortAssumption
  <1> SUFFICES ASSUME IInv, Lifecycle PROVE IInv'
    OBVIOUS
  <1>1. ASSUME Start PROVE IInv'
    <2> USE <1>1 DEF Start
    <2>1. listening = {} /\ regConn = NoConn /\ WaitGroupZero
      BY DEF IInv, TypeOK, WaitGroupZero, Registering, ListenerOwned
    <2>2. starts' \in 0..MaxStarts
      BY BoundAssumption DEF IInv, TypeOK
    <2>3. pc' \in [Thread -> PC]
      BY DEF IInv, TypeOK, PC
    <2>4. TypeOK'
      BY <2>2, <2>3 DEF IInv, TypeOK, Phase, WaitGroupZero
    <2>5. EntryFields' /\ ListenerOwned' /\ ListenerRegistered' /\ ReverseSound'
      BY <2>1 DEF EntryFields, ListenerOwned, ListenerRegistered, ReverseSound
    <2>6. ServedCreated'
      BY DEF IInv, TypeOK, ServedCreated, Created, Thread
    <2>7. Registering'
      BY <2>1 DEF IInv, TypeOK, Registering, Thread
    <2> QED
      BY <2>4, <2>5, <2>6, <2>7 DEF IInv
  <1>2. ASSUME StopUnlink PROVE IInv'
    <2> USE <1>2 DEF StopUnlink, table, threads, filter
    <2>1. TypeOK'
      BY DEF IInv, TypeOK, Phase
    <2>2. /\ EntryFields' /\ ListenerOwned' /\ ListenerRegistered' /\ ReverseSound'
          /\ ServedCreated' /\ Registering'
      BY DEF IInv, EntryFields, ListenerOwned, ListenerRegistered, ReverseSound,
             ServedCreated, Registering, Created, Serving
    <2> QED
      BY <2>1, <2>2 DEF IInv
  <1>3. ASSUME StopDetach PROVE IInv'
    <2>1. TypeOK'
      BY <1>3 DEF IInv, TypeOK, Phase, StopDetach, table, threads
    <2> QED
      BY <1>3, <2>1, ControlStep DEF StopDetach, threads
  <1>4. ASSUME StopClose PROVE IInv'
    <2>1. TypeOK'
      BY <1>4 DEF IInv, TypeOK, Phase, StopClose, table, threads
    <2> QED
      BY <1>4, <2>1, ControlStep DEF StopClose, threads
  <1>5. ASSUME StopFinish PROVE IInv'
    <2> USE <1>5 DEF StopFinish, threads, filter
    <2>1. listening = {} /\ regConn = NoConn
      BY DEF IInv, TypeOK, WaitGroupZero, Registering, ListenerOwned
    <2>2. TypeOK'
      BY DEF IInv, TypeOK, Phase
    <2>3. EntryFields' /\ ListenerOwned' /\ ListenerRegistered' /\ ReverseSound'
      BY <2>1 DEF EntryFields, ListenerOwned, ListenerRegistered, ReverseSound
    <2>4. ServedCreated' /\ Registering' /\ WaitGroupZero'
      BY DEF IInv, ServedCreated, Registering, Created, WaitGroupZero, Serving
    <2> QED
      BY <2>2, <2>3, <2>4 DEF IInv
  <1> QED
    BY <1>1, <1>2, <1>3, <1>4, <1>5 DEF Lifecycle

LEMMA RegisterStep ==
  ASSUME IInv, NEW c \in Conn, NEW p \in LocalPort, NEW r \in RedirectPort,
         Register(c, p, r)
  PROVE  IInv'
  <1> USE ConnAssumption, PortAssumption
  <1> USE DEF Register
  <1> DEFINE old == {connections[p]} \ {NoConn}
  <1>1. /\ \A q \in LocalPort : connections[q] # c
        /\ \A q \in RedirectPort : byRedirect[q] # c
        /\ c \notin listening
        /\ serve[c] = "none" /\ pc[c] = "off" /\ c # regConn
    BY FreshAbsent
  <1>2. regConn = NoConn /\ phase # "stopped"
    BY DEF IInv, TypeOK, Registering, WaitGroupZero
  <1>3. Unlink(old) \in [RedirectPort -> Conn \cup {NoConn}]
    BY UnlinkMap DEF IInv, TypeOK
  <1>4. TypeOK'
    BY <1>3 DEF IInv, TypeOK, filter, PC
  <1>5. EntryFields'
    BY <1>1 DEF IInv, TypeOK, EntryFields
  <1>6. ServedCreated'
    BY DEF IInv, TypeOK, ServedCreated, Created, Thread
  <1>7. Registering'
    BY <1>1, <1>2 DEF IInv, TypeOK, Registering, Thread
  <1>8. ListenerOwned'
    BY <1>2 DEF IInv, TypeOK, ListenerOwned, Serving
  <1>9. ListenerRegistered'
    BY <1>1 DEF IInv, TypeOK, ListenerRegistered, Created
  <1>10. ReverseSound'
    <2> SUFFICES ASSUME NEW q \in RedirectPort, NEW d \in Conn, byRedirect'[q] = d
                 PROVE  /\ d \in Created' /\ redirectPort'[d] = q
                        /\ connections'[localPort'[d]] = d
      BY DEF ReverseSound
    <2>1. CASE q = r
      <3>1. d = c
        BY <2>1, <1>3
      <3> QED
        BY <3>1, <2>1 DEF IInv, TypeOK, Created
    <2>2. CASE q # r
      <3>1. Unlink(old)[q] = d
        BY <2>2, <1>3
      <3>2. byRedirect[q] = d /\ \A e \in old : redirectPort[e] # q
        BY <3>1, UnlinkMap DEF IInv, TypeOK
      <3>3. d \in Created /\ redirectPort[d] = q /\ connections[localPort[d]] = d
        BY <3>2 DEF IInv, ReverseSound
      <3>4. localPort[d] # p /\ d # c
        BY <3>2, <3>3, <1>1
      <3> QED
        BY <3>3, <3>4 DEF IInv, TypeOK, Created
    <2> QED
      BY <2>1, <2>2
  <1> QED
    BY <1>2, <1>4, <1>5, <1>6, <1>7, <1>8, <1>9, <1>10 DEF IInv

LEMMA SocketStep == IInv /\ SocketLoop => IInv'
  <1> USE ConnAssumption, PortAssumption
  <1> SUFFICES ASSUME IInv, SocketLoop PROVE IInv'
    OBVIOUS
  <1>1. ASSUME SocketCheck \/ SocketExit PROVE IInv'
    <2> USE <1>1 DEF SocketCheck, SocketExit, filter
    <2>1. TypeOK'
      BY DEF IInv, TypeOK, table, PC
    <2>2. regConn = NoConn /\ phase # "stopped"
      BY DEF IInv, TypeOK, Registering, WaitGroupZero
    <2> QED
      BY <2>1, <2>2, ControlStep DEF IInv, TypeOK
  <1>2. ASSUME NEW c \in Conn, NEW p \in LocalPort, NEW r \in RedirectPort,
               Register(c, p, r)
        PROVE  IInv'
    BY <1>2, RegisterStep
  <1>3. ASSUME Spawn PROVE IInv'
    <2> USE <1>3 DEF Spawn, table, filter
    <2>1. regConn \in Conn /\ phase # "stopped"
      BY DEF IInv, TypeOK, Registering, WaitGroupZero
    <2>2. TypeOK'
      BY DEF IInv, TypeOK, PC
    <2>3. EntryFields' /\ ListenerRegistered' /\ ReverseSound'
      BY DEF IInv, EntryFields, ListenerRegistered, ReverseSound, Created
    <2>4. ListenerOwned'
      BY <2>1 DEF IInv, TypeOK, ListenerOwned, Serving
    <2>5. ServedCreated'
      BY <2>1 DEF IInv, TypeOK, ServedCreated, Created, Thread
    <2>6. Registering'
      BY DEF IInv, TypeOK, Registering, Thread
    <2> QED
      BY <2>1, <2>2, <2>3, <2>4, <2>5, <2>6 DEF IInv
  <1>4. ASSUME NEW p \in LocalPort, SocketClose(p) PROVE IInv'
    BY <1>4, UnregisterKeeps DEF SocketClose, Thread
  <1> QED
    BY <1>1, <1>2, <1>3, <1>4 DEF SocketLoop

LEMMA ReapStep ==
  ASSUME IInv, NEW S \in SUBSET Conn, Reap(S)
  PROVE  IInv'
  <1> USE ConnAssumption, PortAssumption DEF Reap
  <1>1. Unlink(S) \in [RedirectPort -> Conn \cup {NoConn}]
    BY UnlinkMap DEF IInv, TypeOK
  <1>2. TypeOK'
    BY <1>1 DEF IInv, TypeOK, filter, PC
  <1>3. EntryFields'
    BY DEF IInv, TypeOK, EntryFields
  <1>4. ServedCreated' /\ Registering'
    BY DEF IInv, TypeOK, ServedCreated, Registering, Created, Thread
  <1>5. ListenerOwned' /\ ListenerRegistered'
    BY DEF IInv, TypeOK, ListenerOwned, ListenerRegistered, Serving, Created
  <1>6. ReverseSound'
    <2> SUFFICES ASSUME NEW r \in RedirectPort, NEW c \in Conn, byRedirect'[r] = c
                 PROVE  /\ c \in Created' /\ redirectPort'[c] = r
                        /\ connections'[localPort'[c]] = c
      BY DEF ReverseSound
    <2>1. byRedirect[r] = c /\ \A d \in S : redirectPort[d] # r
      BY UnlinkMap DEF IInv, TypeOK
    <2>2. c \in Created /\ redirectPort[c] = r /\ connections[localPort[c]] = c
      BY <2>1 DEF IInv, ReverseSound
    <2>3. c \notin S
      BY <2>1, <2>2
    <2> QED
      BY <2>2, <2>3 DEF IInv, TypeOK, Created
  <1>7. phase' # "stopped"
    BY DEF IInv, WaitGroupZero
  <1> QED
    BY <1>2, <1>3, <1>4, <1>5, <1>6, <1>7 DEF IInv

LEMMA ReaperStep == IInv /\ ReaperLoop => IInv'
  <1> USE ConnAssumption, PortAssumption
  <1>1. ASSUME IInv, ReaperArm \/ ReaperExit PROVE IInv'
    <2> USE <1>1 DEF ReaperArm, ReaperExit, filter
    <2>1. TypeOK'
      BY DEF IInv, TypeOK, table, PC, running
    <2>2. phase # "stopped"
      BY DEF IInv, WaitGroupZero
    <2> QED
      BY <2>1, <2>2, ControlStep DEF IInv, TypeOK
  <1> QED
    BY <1>1, ReapStep DEF ReaperLoop

LEMMA RefreshStep ==
  ASSUME IInv, NEW t \in Thread, Refresh(t)
  PROVE  IInv'
  <1> USE ConnAssumption, PortAssumption
  <1>1. AfterRefresh(t) \in {"check", "spawn", "arm", "off"}
    BY DEF AfterRefresh
  <1>2. phase # "stopped" \/ t \in Conn
    BY DEF IInv, WaitGroupZero, Refresh, Build, SkipRefresh, Install, KeepFilter, Thread
  <1>3. /\ UNCHANGED <<phase, table, serve, regConn>>
        /\ pc' = [pc EXCEPT ![t] = IF Build(t) THEN "install" ELSE AfterRefresh(t)]
        /\ pc[t] \in {"build", "install"}
        /\ netLoop = "off" => netLoop' = "off"
    BY DEF Refresh, Build, SkipRefresh, Install, KeepFilter, Installed, filter
  <1>4. TypeOK'
    <2>1. pc' \in [Thread -> PC]
      BY <1>1, <1>3 DEF IInv, TypeOK, PC
    <2>2. netOpen' \in BOOLEAN /\ netLoop' \in {"off", "check", "get", "recv", "recvTaken"}
          /\ UNCHANGED <<reaperChan, starts>>
      BY DEF IInv, TypeOK, Refresh, Build, SkipRefresh, Install, KeepFilter, Installed,
             filter
    <2> QED
      BY <1>3, <2>1, <2>2 DEF IInv, TypeOK, table
  <1>5. phase' = "stopped" => WaitGroupZero'
    BY <1>2, <1>3 DEF IInv, TypeOK, WaitGroupZero, Serving, Thread
  <1>6. \A u \in Thread : u # t => pc'[u] = pc[u]
    BY <1>3 DEF IInv, TypeOK
  <1>7. pc'[t] = "install" \/ pc'[t] = AfterRefresh(t)
    BY <1>3 DEF IInv, TypeOK
  <1>8. t \in Conn => AfterRefresh(t) = "off"
    BY DEF AfterRefresh
  <1>9. t = "reaper" => AfterRefresh(t) = "arm"
    BY DEF AfterRefresh
  <1>10. CASE t \in Conn
    BY <1>3, <1>4, <1>5, <1>6, <1>7, <1>8, <1>10, ControlStep
  <1>11. CASE t = "reaper"
    BY <1>3, <1>4, <1>5, <1>6, <1>7, <1>9, <1>11, ControlStep
  <1>12. CASE t = "socket"
    BY <1>3, <1>4, <1>5, <1>6, <1>7, <1>12, ControlStep
  <1> QED
    BY <1>10, <1>11, <1>12 DEF Thread

LEMMA NetworkStep == IInv /\ NetworkLoop => IInv'
  <1> SUFFICES ASSUME IInv, NetworkLoop PROVE IInv'
    OBVIOUS
  <1> USE DEF NetworkLoop, NetCheck, NetGet, NetPacket, threads
  <1>1. TypeOK'
    BY DEF IInv, TypeOK, table
  <1>2. phase # "stopped"
    BY DEF IInv, WaitGroupZero
  <1> QED
    BY <1>1, <1>2, ControlStep

LEMMA ServeStep ==
  ASSUME IInv, NEW c \in Conn, ServeLoop(c)
  PROVE  IInv'
  <1> USE ConnAssumption, PortAssumption
  <1>1. CASE TimerFires(c)
    <2>1. pc[c] = "armed" /\ c \in Created /\ localPort[c] \in LocalPort
      BY <1>1 DEF TimerFires, IInv, TypeOK, ServedCreated, Created
    <2>2. c # "socket" /\ c # "reaper" /\ c \in Thread
      BY DEF Thread
    <2> QED
      BY <1>1, <2>1, <2>2, UnregisterKeeps DEF TimerFires
  <1>2. CASE Accept(c) \/ AcceptFails(c) \/ Refuse(c) \/ Tunnel(c) \/ TunnelEnds(c)
    <2> USE <1>2 DEF Accept, AcceptFails, Refuse, Tunnel, TunnelEnds, Served, table,
                     threads, filter
    <2>1. c \in Serving /\ phase # "stopped"
      BY DEF IInv, Serving, WaitGroupZero
    <2>2. TypeOK'
      <3>1. pc' \in [Thread -> PC]
        BY DEF IInv, TypeOK, PC
      <3> QED
        BY <3>1 DEF IInv, TypeOK
    <2>3. EntryFields' /\ ReverseSound'
      BY DEF IInv, EntryFields, ReverseSound, Created
    <2>4. ServedCreated'
      BY DEF IInv, TypeOK, ServedCreated, Created, Thread
    <2>5. Registering'
      BY DEF IInv, TypeOK, Registering, Thread
    <2>6. ListenerOwned'
      BY DEF IInv, TypeOK, ListenerOwned, Serving
    <2>7. ListenerRegistered'
      BY DEF IInv, ListenerRegistered, Created
    <2> QED
      BY <2>1, <2>2, <2>3, <2>4, <2>5, <2>6, <2>7 DEF IInv
  <1> QED
    BY <1>1, <1>2 DEF ServeLoop

LEMMA NextStep == IInv /\ [Next]_vars => IInv'
  <1>1. IInv /\ UNCHANGED vars => IInv'
    BY DEF vars, table, filter, threads, IInv, TypeOK, EntryFields, ServedCreated,
           Registering, ListenerOwned, ListenerRegistered, ReverseSound, WaitGroupZero,
           Serving, Created
  <1> QED
    BY <1>1, LifecycleStep, SocketStep, ReaperStep, RefreshStep, NetworkStep, ServeStep
       DEF Next

(* The inductive invariant, and with it type correctness, for any number of  *)
(* connections, ports and restarts.                                          *)
THEOREM Invariance == Spec => []IInv
  BY InitIInv, NextStep, PTL DEF Spec

(* No open listener without its entry in the table. *)
THEOREM NoOrphanListener == Spec => []ListenerRegistered
  <1>1. IInv => ListenerRegistered
    BY DEF IInv
  <1> QED
    BY <1>1, Invariance, PTL

(* No stale reverse lookup. *)
THEOREM ReverseLookupSound == Spec => []ReverseSound
  <1>1. IInv => ReverseSound
    BY DEF IInv
  <1> QED
    BY <1>1, Invariance, PTL

(* Once Stop has returned the maps are used by nobody and every listener is  *)
(* closed.                                                                   *)
THEOREM StopLeavesNothing == Spec => []StopQuiescent
  <1>1. IInv => StopQuiescent
    BY ConnAssumption DEF IInv, TypeOK, StopQuiescent, WaitGroupZero, ListenerOwned, Registering
  <1> QED
    BY <1>1, Invariance, PTL
-----------------------------------------------------------------------------
(* The table implements the service. *)
Lives == [c \in Conn |-> Life(c)]
Promised == Service!Next \/ (Lives' = Lives /\ (phase' # "stopped") = (phase # "stopped"))

(* Closing listeners gives up connections that nobody has accepted. *)
LEMMA ClosingDrops ==
  ASSUME IInv, UNCHANGED <<localPort, serve>>, NEW S, listening' = listening \ S,
         (phase' # "stopped") = (phase # "stopped")
  PROVE  Promised
<1> DEFINE D == {c \in listening \cap S : serve[c] \in {"none", "waiting"}}
<1>0. TypeOK /\ ListenerRegistered
  BY DEF IInv
<1>1. \A c \in Conn : Life(c)' = IF c \in D THEN "gone" ELSE Life(c)
  BY <1>0 DEF Life, Created, TypeOK, ListenerRegistered
<1>2. \A c \in D : c \in Conn /\ Life(c) = "offered"
  BY <1>0 DEF Life, TypeOK, ListenerRegistered
<1>3. CASE phase = "stopped"
  <2>1. D = {}
    BY <1>0, <1>3, ConnAssumption DEF IInv, TypeOK, WaitGroupZero, ListenerOwned, Registering
  <2>. QED  BY <1>1, <2>1 DEF Promised, Lives
<1>4. CASE phase # "stopped"
  <2>1. Service!Drop(D)
    BY <1>1, <1>2, <1>4 DEF Service!Drop, Service!Offered, Service!Without, Lives
  <2>. QED  BY <2>1, <1>2 DEF Promised, Service!Next
<1>. QED  BY <1>3, <1>4

LEMMA StartRefines == ASSUME IInv, Start PROVE Promised
<1>1. Lives' = Lives
  BY DEF Start, Lives, Life, Created
<1>2. Service!Started
  BY <1>1 DEF Start, Service!Started, Lives
<1>. QED  BY <1>2 DEF Promised, Service!Next

LEMMA StopRefines == ASSUME IInv, StopFinish PROVE Promised
<1>1. Lives' = Lives
  BY DEF StopFinish, Lives, Life, Created
<1>2. listening = {} /\ Serving = {}
  BY ConnAssumption DEF StopFinish, IInv, TypeOK, WaitGroupZero, ListenerOwned, Registering
<1>3. \A c \in Conn : Life(c) \in {"new", "gone"}
  BY <1>2 DEF IInv, TypeOK, Life, Serving
<1>4. Service!Stopped
  BY <1>1, <1>3 DEF StopFinish, Service!Stopped, Lives
<1>. QED  BY <1>4 DEF Promised, Service!Next

LEMMA RegisterRefines ==
  ASSUME IInv, NEW c \in Conn, NEW p \in LocalPort, NEW r \in RedirectPort, Register(c, p, r)
  PROVE  Promised
<1> DEFINE D == {d \in listening \cap {connections[p]} : serve[d] \in {"none", "waiting"}}
<1>0. TypeOK /\ ListenerRegistered
  BY DEF IInv
<1>1. c \notin listening /\ serve[c] = "none" /\ phase # "stopped" /\ phase' = phase
  BY FreshAbsent DEF Register, IInv, WaitGroupZero
<1>2. \A d \in Conn : Life(d)' = IF d = c THEN "offered" ELSE IF d \in D THEN "gone" ELSE Life(d)
  BY <1>0, <1>1, PortAssumption DEF Register, Life, Created, TypeOK, ListenerRegistered
<1>3. \A d \in D : d \in Conn /\ Life(d) = "offered"
  BY <1>0 DEF Life, TypeOK, ListenerRegistered
<1>4. Life(c) = "new"
  BY <1>1 DEF Register, Life
<1>5. Service!Offer(c, D)
  BY <1>1, <1>2, <1>3, <1>4 DEF Service!Offer, Service!Offered, Service!Without, Lives
<1>. QED  BY <1>5, <1>3 DEF Promised, Service!Next

(* The serving goroutine starts: nobody sees it. *)
LEMMA SpawnRefines == ASSUME IInv, Spawn PROVE Promised
<1>1. regConn \in Conn /\ TypeOK
  BY DEF Spawn, IInv, TypeOK, Registering
<1>2. serve[regConn] = "none"
  BY <1>1, ConnAssumption DEF IInv, Registering
<1>3. \A c \in Conn : Life(c)' = Life(c)
  BY <1>1, <1>2 DEF Spawn, table, Life, Created, TypeOK
<1>. QED  BY <1>3 DEF Spawn, Promised, Lives

LEMMA ServeRefines == ASSUME IInv, NEW c \in Conn, ServeLoop(c) PROVE Promised
<1>0. TypeOK /\ ListenerRegistered /\ ServedCreated
  BY DEF IInv
<1> USE DEF Served, table
<1>1. CASE TimerFires(c)
  BY <1>1, ClosingDrops DEF TimerFires, Unregister
<1>2. CASE ~TimerFires(c)
  <2>1. /\ phase # "stopped" /\ phase' = phase /\ c \in Created
        /\ \A d \in Conn \ {c} : Life(d)' = Life(d)
    BY <1>2, <1>0 DEF ServeLoop, Accept, AcceptFails, Refuse, Tunnel, TunnelEnds, IInv,
         WaitGroupZero, Serving, Life, Created, TypeOK, ServedCreated
  <2>2. ASSUME NEW from \in SUBSET {"accepted", "tunnel", "offered"}, NEW to,
               Life(c) \in from, Life(c)' = to
        PROVE  Service!Goes(c, from, to)
    BY <2>1, <2>2 DEF Service!Goes, Lives
  <2>3. CASE Accept(c)
    BY <1>0, <2>1, <2>2, <2>3 DEF Accept, Life, Created, TypeOK, Promised, Service!Next
  <2>4. CASE Refuse(c) \/ TunnelEnds(c)
    <3>1. Life(c) \in {"accepted", "tunnel"} /\ Life(c)' = "gone"
      BY <1>0, <2>1, <2>4 DEF Refuse, TunnelEnds, Life, Created, TypeOK
    <3>. QED  BY <2>2, <3>1 DEF Promised, Service!Next
  <2>5. CASE Tunnel(c)
    BY <1>0, <2>1, <2>2, <2>5 DEF Tunnel, Life, Created, TypeOK, Promised, Service!Next
  <2>6. CASE AcceptFails(c)
    <3>1. Life(c) \in {"offered", "gone"} /\ Life(c)' = "gone"
      BY <1>0, <2>1, <2>6 DEF AcceptFails, Life, Created, TypeOK
    <3>2. CASE Life(c) = "gone"
      BY <2>1, <3>1, <3>2, <2>6 DEF Promised, Lives
    <3>3. CASE Life(c) = "offered"
      <4>1. Service!Drop({c})
        BY <2>1, <3>1, <3>3 DEF Service!Drop, Service!Offered, Service!Without, Lives
      <4>. QED  BY <4>1 DEF Promised, Service!Next
    <3>. QED  BY <3>1, <3>2, <3>3
  <2>. QED  BY <1>2, <2>3, <2>4, <2>5, <2>6 DEF ServeLoop
<1>. QED  BY <1>1, <1>2

(* CaptureTable implements CaptureService: each connection that is taken     *)
(* over is offered, accepted and tunnelled at most once and in this order,   *)
(* and none is left when Stop returns; for any connections, ports, restarts. *)
THEOREM TableServes == Spec => ServedInOrder
<1>1. Init => Service!Init
  BY DEF Init, Service!Init, Life, Created
<1>2. ASSUME IInv, [Next]_vars PROVE Promised
  <2>1. CASE UNCHANGED vars
    BY <2>1 DEF vars, table, Promised, Lives, Life, Created
  <2>2. CASE Lifecycle
    <3>1. CASE StopUnlink
      <4>1. /\ UNCHANGED <<localPort, serve>> /\ listening' = listening \ Entries
            /\ phase # "stopped" /\ phase' # "stopped"
        BY <3>1 DEF StopUnlink, running
      <4>. QED  BY <1>2, <4>1, ClosingDrops
    <3>2. CASE StopDetach \/ StopClose
      BY <3>2 DEF StopDetach, StopClose, table, Promised, Lives, Life, Created
    <3>. QED  BY <1>2, <2>2, <3>1, <3>2, StartRefines, StopRefines DEF Lifecycle
  <2>3. CASE SocketLoop
    <3>1. CASE SocketCheck \/ SocketExit
      BY <3>1 DEF SocketCheck, SocketExit, table, Promised, Lives, Life, Created
    <3>2. ASSUME NEW p \in LocalPort, SocketClose(p) PROVE Promised
      BY <1>2, <3>2, ClosingDrops DEF SocketClose, Unregister
    <3>. QED  BY <1>2, <2>3, <3>1, <3>2, SpawnRefines, RegisterRefines DEF SocketLoop
  <2>4. CASE ReaperLoop
    <3>1. CASE ReaperArm \/ ReaperExit
      BY <3>1 DEF ReaperArm, ReaperExit, table, Promised, Lives, Life, Created
    <3>2. ASSUME NEW S \in SUBSET Conn, Reap(S) PROVE Promised
      BY <1>2, <3>2, ClosingDrops DEF Reap
    <3>. QED  BY <2>4, <3>1, <3>2 DEF ReaperLoop
  <2>5. ASSUME NEW t \in Thread, Refresh(t) PROVE Promised
    BY <2>5 DEF Refresh, Build, SkipRefresh, Install, KeepFilter, Installed, table,
         Promised, Lives, Life, Created
  <2>6. CASE NetworkLoop
    BY <2>6 DEF NetworkLoop, NetCheck, NetGet, NetPacket, table, Promised, Lives, Life, Created
  <2>. QED  BY <1>2, <2>1, <2>2, <2>3, <2>4, <2>5, <2>6, ServeRefines DEF Next
<1>3. Promised => [Service!Next]_(Service!abstractVars)
  BY DEF Promised, Lives, Service!abstractVars
<1>. QED  BY <1>1, <1>2, <1>3, Invariance, PTL DEF Spec, Service!Spec, ServedInOrder
-----------------------------------------------------------------------------
(* Reflection: no packet crosses from one connection to another. *)

(* A step that opens no listener and adds no reverse entry keeps             *)
(* ReverseOwned.                                                             *)
LEMMA ShrinkKeeps ==
  ASSUME ReverseOwned, listening' \subseteq listening, redirectPort' = redirectPort,
         \A r \in RedirectPort : byRedirect'[r] \in {byRedirect[r], NoConn}
  PROVE  ReverseOwned'
  BY DEF ReverseOwned

LEMMA UnregisterShrinks ==
  ASSUME IInv, ReverseOwned, NEW t, NEW p, NEW next, Unregister(t, p, next)
  PROVE  ReverseOwned'
  <1>1. \A r \in RedirectPort : byRedirect'[r] \in {byRedirect[r], NoConn}
    BY DEF Unregister, Unlink
  <1> QED
    BY <1>1, ShrinkKeeps DEF Unregister

(* The new listener's port is no open listener's, so the entry it takes over *)
(* belonged to a closed one.                                                 *)
LEMMA RegisterOwned ==
  ASSUME IInv, ReverseOwned, NEW c \in Conn, NEW p \in LocalPort, NEW r \in RedirectPort,
         Register(c, p, r)
  PROVE  ReverseOwned'
  <1>1. redirectPort'[c] = r /\ \A d \in Conn \ {c} : redirectPort'[d] = redirectPort[d]
    BY DEF Register, IInv, TypeOK
  <1>2. \A q \in RedirectPort : byRedirect'[q] = IF q = r THEN c ELSE
                                  Unlink({connections[p]} \ {NoConn})[q]
    BY UnlinkMap DEF Register, IInv, TypeOK
  <1>3. \A q \in RedirectPort \ {r} : byRedirect'[q] \in {byRedirect[q], NoConn}
    BY <1>2 DEF Unlink
  <1> SUFFICES ASSUME NEW d \in listening'
               PROVE  redirectPort'[d] \in RedirectPort /\ byRedirect'[redirectPort'[d]] \in {d, NoConn}
    BY DEF ReverseOwned
  <1>4. CASE d = c
    BY <1>1, <1>2, <1>4
  <1>5. CASE d # c
    <2>1. d \in listening /\ d \in Conn /\ redirectPort[d] # r
      BY <1>5 DEF Register, IInv, TypeOK
    <2> QED
      BY <1>1, <1>3, <1>5, <2>1 DEF ReverseOwned
  <1> QED
    BY <1>4, <1>5

LEMMA ReapShrinks ==
  ASSUME IInv, ReverseOwned, NEW S \in SUBSET Conn, Reap(S)
  PROVE  ReverseOwned'
  <1>1. \A r \in RedirectPort : byRedirect'[r] \in {byRedirect[r], NoConn}
    BY DEF Reap, Unlink
  <1> QED
    BY <1>1, ShrinkKeeps DEF Reap

LEMMA LifecycleOwned == IInv /\ ReverseOwned /\ Lifecycle => ReverseOwned'
  <1> SUFFICES ASSUME IInv, ReverseOwned, Lifecycle PROVE ReverseOwned'
    OBVIOUS
  <1>1. CASE Start
    BY <1>1, ShrinkKeeps DEF Start
  <1>2. CASE StopUnlink
    BY <1>2, ShrinkKeeps DEF StopUnlink
  <1>3. CASE StopDetach \/ StopClose
    BY <1>3, ShrinkKeeps DEF StopDetach, StopClose, table
  <1>4. CASE StopFinish
    BY <1>4, ShrinkKeeps DEF StopFinish
  <1> QED
    BY <1>1, <1>2, <1>3, <1>4 DEF Lifecycle

LEMMA SocketOwned == IInv /\ ReverseOwned /\ SocketLoop => ReverseOwned'
  <1> SUFFICES ASSUME IInv, ReverseOwned, SocketLoop PROVE ReverseOwned'
    OBVIOUS
  <1>1. CASE SocketCheck \/ SocketExit \/ Spawn
    BY <1>1, ShrinkKeeps DEF SocketCheck, SocketExit, Spawn, table
  <1>2. CASE \E c \in Conn, p \in LocalPort, r \in RedirectPort : Register(c, p, r)
    BY <1>2, RegisterOwned
  <1>3. CASE \E p \in LocalPort : SocketClose(p)
    BY <1>3, UnregisterShrinks DEF SocketClose
  <1> QED
    BY <1>1, <1>2, <1>3 DEF SocketLoop

LEMMA ServeOwned == ASSUME NEW c \in Conn PROVE IInv /\ ReverseOwned /\ ServeLoop(c) => ReverseOwned'
  <1> SUFFICES ASSUME IInv, ReverseOwned, ServeLoop(c) PROVE ReverseOwned'
    OBVIOUS
  <1>1. CASE Accept(c) \/ Tunnel(c)
    BY <1>1, ShrinkKeeps DEF Accept, Tunnel, table
  <1>2. CASE AcceptFails(c) \/ Refuse(c) \/ TunnelEnds(c)
    BY <1>2, ShrinkKeeps DEF AcceptFails, Refuse, TunnelEnds
  <1>3. CASE TimerFires(c)
    BY <1>3, UnregisterShrinks DEF TimerFires
  <1> QED
    BY <1>1, <1>2, <1>3 DEF ServeLoop

LEMMA OwnedStep == IInv /\ ReverseOwned /\ [Next]_vars => ReverseOwned'
  <1> SUFFICES ASSUME IInv, ReverseOwned, [Next]_vars PROVE ReverseOwned'
    OBVIOUS
  <1>1. CASE ReaperLoop
    <2>1. CASE ReaperArm \/ ReaperExit
      BY <2>1, ShrinkKeeps DEF ReaperArm, ReaperExit, table
    <2> QED
      BY <1>1, <2>1, ReapShrinks DEF ReaperLoop
  <1>2. CASE \E t \in Thread : Refresh(t)
    BY <1>2, ShrinkKeeps DEF Refresh, Build, SkipRefresh, Install, KeepFilter, Installed, table
  <1>3. CASE NetworkLoop
    BY <1>3, ShrinkKeeps DEF NetworkLoop, NetCheck, NetGet, NetPacket, table
  <1>4. CASE UNCHANGED vars
    BY <1>4, ShrinkKeeps DEF vars, table
  <1> QED
    BY <1>1, <1>2, <1>3, <1>4, LifecycleOwned, SocketOwned, ServeOwned DEF Next

LEMMA OwnedNotCrossed == IInv /\ ReverseOwned => NotCrossed
  <1> SUFFICES ASSUME IInv, ReverseOwned, NEW c \in listening, PortsApart(c)
               PROVE  LET seen == Reflect(AppPacket(c))
                      IN  /\ seen = Packet(remoteAddr[c], remotePort[c], localAddr[c], redirectPort[c], FALSE)
                          /\ Reflect(AnswerTo(seen)) \in {Arriving(AnswerTo(AppPacket(c))), AnswerTo(seen)}
    BY DEF NotCrossed
  <1> DEFINE sent == AppPacket(c)
             toListener == Packet(remoteAddr[c], remotePort[c], localAddr[c], redirectPort[c], FALSE)
             answer == AnswerTo(toListener)
  <1>1. /\ c \in Conn /\ c # NoConn
        /\ localPort[c] \in LocalPort /\ connections[localPort[c]] = c
        /\ redirectPort[c] \in RedirectPort /\ byRedirect[redirectPort[c]] \in {c, NoConn}
    BY ConnAssumption DEF IInv, TypeOK, ListenerRegistered, Created, ReverseOwned
  <1>2. Reflect(sent) = toListener
    <2>1. sent.tcp /\ ~GoesTo(connectionByRedirect(sent.srcPort), sent)
      BY DEF AppPacket, Packet, GoesTo, PortsApart
    <2>2. connectionByLocal(sent.srcPort) = c /\ GoesTo(c, sent)
      BY <1>1 DEF AppPacket, Packet, GoesTo, connectionByLocal
    <2>3. ForwardReflect(c, sent) = toListener
      BY DEF ForwardReflect, AppPacket, Packet
    <2> QED
      BY <2>1, <2>2, <2>3 DEF Reflect
  <1>3. /\ answer.tcp /\ answer.srcPort = redirectPort[c]
        /\ answer.dst = remoteAddr[c] /\ answer.dstPort = remotePort[c]
    BY DEF AnswerTo, Packet
  <1>4. CASE byRedirect[redirectPort[c]] = c
    <2>1. GoesTo(connectionByRedirect(answer.srcPort), answer) /\ connectionByRedirect(answer.srcPort) = c
      BY <1>1, <1>3, <1>4 DEF GoesTo, connectionByRedirect
    <2>2. ReverseReflect(c, answer) = Arriving(AnswerTo(sent))
      BY DEF ReverseReflect, Arriving, AnswerTo, AppPacket, Packet
    <2>3. Reflect(answer) = ReverseReflect(c, answer)
      BY <1>3, <2>1 DEF Reflect
    <2> QED
      BY <1>2, <2>2, <2>3
  <1>5. CASE byRedirect[redirectPort[c]] = NoConn
    <2>1. /\ ~GoesTo(connectionByRedirect(answer.srcPort), answer)
          /\ ~GoesTo(connectionByLocal(answer.srcPort), answer)
      BY <1>1, <1>3, <1>5 DEF GoesTo, connectionByRedirect, PortsApart
    <2>2. Reflect(answer) = answer
      BY <2>1 DEF Reflect
    <2> QED
      BY <1>2, <2>2
  <1> QED
    BY <1>1, <1>4, <1>5

(* Packets of two connections are never crossed, however the system hands    *)
(* out and reuses ports, while the table changes in any order.               *)
THEOREM ReflectionNotCrossed == Spec => []NotCrossed
  <1>1. Init => ReverseOwned
    BY DEF Init, ReverseOwned
  <1>2. Spec => []ReverseOwned
    BY <1>1, OwnedStep, Invariance, PTL DEF Spec
  <1> QED
    BY <1>2, Invariance, OwnedNotCrossed, PTL
=============================================================================
