--------------------------- MODULE WebProxy_proofs ---------------------------
(* Proofs about the requests through the forward proxy and their log, for    *)
(* any number of requests and bytes and any lengths of the window.           *)
EXTENDS WebProxy, SequenceTheorems, TLAPS

Entries == [conn : Conns, status : {"active", "closed", "error"}, up : Nat, down : Nat]

(* s is the end of t. *)
TailOf(s, t) ==
  Len(s) <= Len(t) /\ \A i \in 1..Len(s) : s[i] = t[Len(t) - Len(s) + i]

LEMMA TailIsSuffix ==
  ASSUME NEW S, NEW s \in Seq(S), NEW t \in Seq(S), TailOf(s, t)
  PROVE  IsSuffix(s, t)
<1>1. /\ Len(s) \in Nat /\ Len(t) \in Nat /\ Len(s) <= Len(t)
      /\ \A i \in 1..Len(s) : s[i] = t[Len(t) - Len(s) + i]
  BY DEF TailOf
<1>2. PICK rs, rt : rs = Reverse(s) /\ rt = Reverse(t)
  OBVIOUS
<1>3. /\ rs \in Seq(S) /\ Len(rs) = Len(s) /\ \A i \in 1..Len(s) : rs[i] = s[(Len(s) - i) + 1]
  BY <1>1, <1>2 DEF Reverse
<1>4. /\ rt \in Seq(S) /\ Len(rt) = Len(t) /\ \A i \in 1..Len(t) : rt[i] = t[(Len(t) - i) + 1]
  BY <1>1, <1>2 DEF Reverse
<1>5. ASSUME NEW i \in 1..Len(s) PROVE rs[i] = rt[i]
  <2>0. PICK m, n : m = Len(s) /\ n = Len(t) /\ m \in Nat /\ n \in Nat /\ m <= n /\ i \in 1..m
    BY <1>1
  <2>1. PICK j : j = (m - i) + 1
    OBVIOUS
  <2>2. j \in 1..m /\ n - m + j = (n - i) + 1 /\ i \in 1..n
    BY ONLY <2>0, <2>1
  <2>3. s[j] = t[(n - i) + 1]
    BY <1>1, <2>0, <2>2
  <2>. QED  BY <1>3, <1>4, <2>0, <2>1, <2>2, <2>3
<1>6. SubSeq(rs, 1, Len(rs)) = SubSeq(rt, 1, Len(rs))
  BY <1>1, <1>3, <1>4, <1>5
<1>. QED  BY <1>1, <1>2, <1>3, <1>4, <1>6 DEF IsSuffix, IsPrefix

LEMMA NewestIsTail ==
  ASSUME NEW S, NEW s \in Seq(S), NEW n \in Nat
  PROVE  Newest(s, n) \in Seq(S) /\ TailOf(Newest(s, n), s) /\ Len(Newest(s, n)) <= n
<1>1. Len(s) \in Nat
  OBVIOUS
<1>2. CASE Len(s) > n
  <2>1. PICK k, l : k = Len(s) - n + 1 /\ l = Len(s) /\ l \in Nat /\ k \in 1..(l + 1) /\ n = l - k + 1
    BY <1>1, <1>2
  <2>2. PICK w : w = SubSeq(s, k, l)
    OBVIOUS
  <2>3. w \in Seq(S) /\ Len(w) = n /\ \A i \in 1..n : w[i] = s[k + i - 1]
    <3>1. k \in 1..(Len(s) + 1) /\ l \in (k - 1)..Len(s)
      BY <1>1, <2>1
    <3>2. /\ w \in Seq(S) /\ Len(w) = l - k + 1 /\ \A i \in 1..(l - k + 1) : w[i] = s[k + i - 1]
      BY ONLY <2>2, <3>1, s \in Seq(S), SubSeqProperties
    <3>. QED  BY <2>1, <3>2
  <2>4. n <= Len(s) /\ \A i \in 1..n : k + i - 1 = Len(s) - n + i
    BY <1>1, <1>2, <2>1
  <2>5. Newest(s, n) = w
    BY <1>2, <2>1, <2>2 DEF Newest
  <2>. QED  BY <2>3, <2>4, <2>5 DEF TailOf
<1>3. CASE ~(Len(s) > n)
  BY <1>1, <1>3 DEF Newest, TailOf
<1>. QED  BY <1>2, <1>3

LEMMA TailOfTail ==
  ASSUME NEW S, NEW r \in Seq(S), NEW s \in Seq(S), NEW t \in Seq(S), TailOf(r, s), TailOf(s, t)
  PROVE  TailOf(r, t)
<1>1. PICK k, m, n : /\ k = Len(r) /\ m = Len(s) /\ n = Len(t) /\ k \in Nat /\ m \in Nat /\ n \in Nat
                     /\ k <= m /\ m <= n
  <2>1. Len(r) <= Len(s) /\ Len(s) <= Len(t)
    BY DEF TailOf
  <2>. QED  BY <2>1
<1>2. ASSUME NEW i \in 1..k PROVE r[i] = t[n - k + i]
  <2>1. PICK j : j = m - k + i
    OBVIOUS
  <2>2. j \in 1..m /\ n - m + j = n - k + i
    BY ONLY <1>1, <2>1, i \in 1..k
  <2>3. r[i] = s[j]
    BY <1>1, <2>1 DEF TailOf
  <2>4. s[j] = t[n - m + j]
    BY <1>1, <2>2 DEF TailOf
  <2>. QED  BY <2>2, <2>3, <2>4
<1>3. k <= n
  BY <1>1
<1>. QED  BY <1>1, <1>2, <1>3 DEF TailOf

LEMMA TailAppend ==
  ASSUME NEW S, NEW s \in Seq(S), NEW t \in Seq(S), NEW e \in S, TailOf(s, t)
  PROVE  TailOf(Append(s, e), Append(t, e))
<1>1. PICK m, n : m = Len(s) /\ n = Len(t) /\ m \in Nat /\ n \in Nat /\ m <= n
  BY DEF TailOf
<1>2. PICK a, b : a = Append(s, e) /\ b = Append(t, e)
  OBVIOUS
<1>3. /\ Len(a) = m + 1 /\ a[m + 1] = e /\ \A i \in 1..m : a[i] = s[i]
      /\ Len(b) = n + 1 /\ b[n + 1] = e /\ \A i \in 1..n : b[i] = t[i]
  BY <1>1, <1>2
<1>4. ASSUME NEW i \in 1..(m + 1) PROVE a[i] = b[(n + 1) - (m + 1) + i]
  <2>1. CASE i = m + 1
    <3>1. (n + 1) - (m + 1) + i = n + 1
      BY <1>1, <2>1
    <3>. QED  BY <1>3, <2>1, <3>1
  <2>2. CASE i # m + 1
    <3>1. i \in 1..m /\ (n + 1) - (m + 1) + i = n - m + i /\ n - m + i \in 1..n
      BY <1>1, <2>2
    <3>2. s[i] = t[n - m + i]
      BY <1>1, <3>1 DEF TailOf
    <3>. QED  BY <1>3, <3>1, <3>2
  <2>. QED  BY <2>1, <2>2
<1>5. m + 1 <= n + 1
  BY <1>1
<1>. QED  BY <1>2, <1>3, <1>4, <1>5 DEF TailOf

LEMMA UpdatedKeeps ==
  ASSUME NEW S, NEW s \in Seq(S), NEW c, NEW e \in S, NEW u, u = Updated(s, c, e)
  PROVE  /\ u \in Seq(S) /\ Len(u) = Len(s)
         /\ \A i \in 1..Len(s) : (s[i].conn = c => u[i] = e) /\ (s[i].conn # c => u[i] = s[i])
<1>1. Len(s) \in Nat /\ DOMAIN s = 1..Len(s) /\ \A i \in 1..Len(s) : s[i] \in S
  OBVIOUS
<1>. QED  BY <1>1 DEF Updated

LEMMA TailUpdated ==
  ASSUME NEW s \in Seq(Entries), NEW t \in Seq(Entries), NEW c \in Conns, NEW e \in Entries, TailOf(s, t)
  PROVE  TailOf(Updated(s, c, e), Updated(t, c, e))
<1>1. PICK m, n : m = Len(s) /\ n = Len(t) /\ m \in Nat /\ n \in Nat /\ m <= n
  BY DEF TailOf
<1>2. PICK a, b : a = Updated(s, c, e) /\ b = Updated(t, c, e)
  OBVIOUS
<1>3. /\ Len(a) = m /\ Len(b) = n
      /\ \A i \in 1..m : (s[i].conn = c => a[i] = e) /\ (s[i].conn # c => a[i] = s[i])
      /\ \A i \in 1..n : (t[i].conn = c => b[i] = e) /\ (t[i].conn # c => b[i] = t[i])
  <2>1. /\ Len(a) = Len(s)
        /\ \A i \in 1..Len(s) : (s[i].conn = c => a[i] = e) /\ (s[i].conn # c => a[i] = s[i])
    BY ONLY s \in Seq(Entries), c \in Conns, e \in Entries, <1>2, UpdatedKeeps
  <2>2. /\ Len(b) = Len(t)
        /\ \A i \in 1..Len(t) : (t[i].conn = c => b[i] = e) /\ (t[i].conn # c => b[i] = t[i])
    BY ONLY t \in Seq(Entries), c \in Conns, e \in Entries, <1>2, UpdatedKeeps
  <2>. QED  BY <1>1, <2>1, <2>2
<1>4. ASSUME NEW i \in 1..m PROVE a[i] = b[n - m + i]
  <2>1. n - m + i \in 1..n
    BY <1>1
  <2>2. s[i] = t[n - m + i]
    BY <1>1 DEF TailOf
  <2>. QED  BY <1>3, <2>1, <2>2
<1>. QED  BY <1>1, <1>2, <1>3, <1>4 DEF TailOf
-----------------------------------------------------------------------------
(* The two lists of the log. *)
LogsSoFar ==
  /\ all \in Seq(Entries) /\ entries \in Seq(Entries) /\ max \in Nat
  /\ TailOf(entries, all) /\ Len(entries) <= max

LEMMA EntryTypes ==
  ASSUME LogsSoFar
  PROVE  /\ DOMAIN all = 1..Len(all)
         /\ \A i \in 1..Len(all) : all[i].conn \in Conns /\ all[i].status \in {"active", "closed", "error"}
<1>1. DOMAIN all = 1..Len(all) /\ \A i \in 1..Len(all) : all[i] \in Entries
  BY DEF LogsSoFar
<1>. QED  BY <1>1 DEF Entries

LEMMA AddKeeps ==
  ASSUME LogsSoFar, NEW e \in Entries, Add(e), max' = max
  PROVE  LogsSoFar' /\ all' = Append(all, e)
<1>1. PICK w : w = Append(entries, e)
  OBVIOUS
<1>2. w \in Seq(Entries) /\ all' = Append(all, e) /\ all' \in Seq(Entries) /\ entries' = Newest(w, max)
  BY <1>1 DEF Add, LogsSoFar
<1>3. TailOf(w, all')
  BY <1>1, <1>2, TailAppend DEF LogsSoFar
<1>4. entries' \in Seq(Entries) /\ TailOf(entries', w) /\ Len(entries') <= max
  BY <1>2, NewestIsTail DEF LogsSoFar
<1>5. TailOf(entries', all')
  BY <1>2, <1>3, <1>4, TailOfTail
<1>. QED  BY <1>2, <1>4, <1>5 DEF LogsSoFar

LEMMA UpdateKeeps ==
  ASSUME LogsSoFar, NEW c \in Conns, NEW e \in Entries, Update(c, e), max' = max
  PROVE  /\ LogsSoFar' /\ Len(all') = Len(all)
         /\ \A i \in 1..Len(all) : (all[i].conn = c => all'[i] = e) /\ (all[i].conn # c => all'[i] = all[i])
<1>1. /\ all' = Updated(all, c, e) /\ entries' = Updated(entries, c, e)
      /\ all \in Seq(Entries) /\ entries \in Seq(Entries) /\ TailOf(entries, all)
      /\ max' = max /\ max \in Nat /\ Len(entries) <= max
  BY DEF Update, LogsSoFar
<1>2. /\ all' \in Seq(Entries) /\ Len(all') = Len(all)
      /\ \A i \in 1..Len(all) : (all[i].conn = c => all'[i] = e) /\ (all[i].conn # c => all'[i] = all[i])
  BY ONLY c \in Conns, e \in Entries, <1>1, UpdatedKeeps
<1>3. entries' \in Seq(Entries) /\ Len(entries') = Len(entries)
  BY <1>1, UpdatedKeeps
<1>4. TailOf(entries', all')
  BY <1>1, TailUpdated
<1>. QED  BY <1>1, <1>2, <1>3, <1>4 DEF LogsSoFar
-----------------------------------------------------------------------------
ConnTypes ==
  /\ pc \in [Conns -> {"new", "reject", "forward", "dial", "tunnel", "done"}]
  /\ target \in [Conns -> Targets]
  /\ sent \in [Conns -> [Dir -> 0..MaxBytes]] /\ moved \in [Conns -> [Dir -> 0..MaxBytes]]
  /\ ended \in [Conns -> SUBSET Dir] /\ run \in [Conns -> SUBSET Dir] /\ finished \in [Conns -> SUBSET Dir]
  /\ closed \in [Conns -> SUBSET {"client", "upstream"}] /\ gone \in [Conns -> SUBSET {"client", "upstream"}]

(* An entry is active until the handler of its request returns. *)
StatusSoFar ==
  \A i \in 1..Len(all) : all[i].status = "active" <=> pc[all[i].conn] # "done"

(* Nothing is copied before the tunnel is open, and nothing runs after it.   *)
HandlerSoFar(c) ==
  /\ pc[c] \in {"new", "reject", "forward", "dial"} =>
       run[c] = {} /\ finished[c] = {} /\ moved[c] = sent[c] /\ closed[c] = {}
  /\ pc[c] = "done" => run[c] = {} /\ (finished[c] # {} => closed[c] = {"client", "upstream"})
  /\ \A d \in Dir : moved[c][d] <= sent[c][d]

(* A direct tunnel nobody resets is open both ways until both sides have     *)
(* ended; a copy returns only when it has passed everything on.              *)
DirectSoFar(c) ==
  target[c] = "DIRECT" /\ gone[c] = {} =>
    /\ pc[c] = "tunnel" =>
         closed[c] = {} /\ \A d \in Dir \ run[c] : d \in ended[c] /\ moved[c][d] = sent[c][d]
    /\ pc[c] = "done" => moved[c] = sent[c]

ProxyInv ==
  ConnTypes /\ LogsSoFar /\ StatusSoFar /\ \A c \in Conns : HandlerSoFar(c) /\ DirectSoFar(c)

(* The last step of a handler. *)
LEMMA FinishKeeps ==
  ASSUME ConnTypes, LogsSoFar, StatusSoFar, NEW c \in Conns, NEW st \in {"closed", "error"},
         NEW up \in 0..MaxBytes, NEW down \in 0..MaxBytes, FinishLog(c, st, up, down)
  PROVE  LogsSoFar' /\ StatusSoFar' /\ pc' = [pc EXCEPT ![c] = "done"] /\ UNCHANGED <<target, peers>>
<1>1. Update(c, Entry(c, st, up, down)) /\ max' = max /\ pc' = [pc EXCEPT ![c] = "done"] /\ UNCHANGED <<target, peers>>
  BY DEF FinishLog, Goto
<1>2. PICK e : e = Entry(c, st, up, down)
  OBVIOUS
<1>3. e \in Entries /\ e.conn = c /\ e.status # "active"
  BY <1>2, WebProxyAssumption DEF Entry, Entries
<1>4. /\ LogsSoFar' /\ Len(all') = Len(all)
      /\ \A i \in 1..Len(all) : (all[i].conn = c => all'[i] = e) /\ (all[i].conn # c => all'[i] = all[i])
  BY <1>1, <1>2, <1>3, UpdateKeeps
<1>5. ASSUME NEW i \in 1..Len(all) PROVE all'[i].status = "active" <=> pc'[all'[i].conn] # "done"
  <2>1. CASE all[i].conn = c
    BY <1>1, <1>3, <1>4, <2>1 DEF ConnTypes
  <2>2. CASE all[i].conn # c
    BY <1>1, <1>4, <2>2 DEF ConnTypes, StatusSoFar
  <2>. QED  BY <2>1, <2>2
<1>6. StatusSoFar'
  BY <1>4, <1>5 DEF StatusSoFar
<1>. QED  BY <1>1, <1>4, <1>6

(* A step of a connection that leaves the log and the handlers' places alone. *)
LEMMA LogsStay ==
  ASSUME LogsSoFar, StatusSoFar, UNCHANGED <<pc, logs>>
  PROVE  LogsSoFar' /\ StatusSoFar'
  BY DEF LogsSoFar, StatusSoFar, TailOf, logs

LEMMA ProxyInit == Init => ProxyInv
<1> SUFFICES ASSUME Init PROVE ProxyInv
  OBVIOUS
<1>1. LogsSoFar /\ StatusSoFar
  BY WebProxyAssumption DEF Init, LogsSoFar, StatusSoFar, TailOf
<1>2. ConnTypes
  BY WebProxyAssumption DEF Init, ConnTypes, Targets
<1>3. ASSUME NEW c \in Conns PROVE HandlerSoFar(c) /\ DirectSoFar(c)
  BY DEF Init, HandlerSoFar, DirectSoFar, Dir
<1>. QED  BY <1>1, <1>2, <1>3 DEF ProxyInv

(* A request that a step does not touch. *)
Same(x) ==
  /\ pc'[x] = pc[x] /\ target'[x] = target[x] /\ sent'[x] = sent[x] /\ moved'[x] = moved[x]
  /\ ended'[x] = ended[x] /\ run'[x] = run[x] /\ finished'[x] = finished[x]
  /\ closed'[x] = closed[x] /\ gone'[x] = gone[x]

LEMMA OthersStay ==
  ASSUME NEW x \in Conns, HandlerSoFar(x), DirectSoFar(x), Same(x)
  PROVE  HandlerSoFar(x)' /\ DirectSoFar(x)'
  BY DEF HandlerSoFar, DirectSoFar, Same

(* A copy that is running is a tunnel's. *)
LEMMA RunningIsTunnel ==
  ASSUME ConnTypes, NEW c \in Conns, HandlerSoFar(c), run[c] # {}
  PROVE  pc[c] = "tunnel"
  BY DEF ConnTypes, HandlerSoFar

(* What a request has done before its handler returns. *)
LEMMA FinishHandler ==
  ASSUME ConnTypes, LogsSoFar, StatusSoFar, \A x \in Conns : HandlerSoFar(x) /\ DirectSoFar(x),
         NEW c \in Conns, NEW st \in {"closed", "error"},
         NEW up \in 0..MaxBytes, NEW down \in 0..MaxBytes, FinishLog(c, st, up, down),
         UNCHANGED <<moved, run, finished>>, NEW cl \in SUBSET {"client", "upstream"},
         closed' = [closed EXCEPT ![c] = cl], run[c] = {},
         finished[c] # {} => cl = {"client", "upstream"},
         target[c] = "DIRECT" /\ gone[c] = {} => moved[c] = sent[c]
  PROVE  ProxyInv'
<1>1. /\ LogsSoFar' /\ StatusSoFar' /\ pc' = [pc EXCEPT ![c] = "done"] /\ target' = target
      /\ sent' = sent /\ ended' = ended /\ gone' = gone
  BY FinishKeeps DEF peers
<1>2. ConnTypes'
  BY <1>1 DEF ConnTypes
<1>3. pc'[c] = "done" /\ closed'[c] = cl
  BY <1>1 DEF ConnTypes
<1>4. HandlerSoFar(c)' /\ DirectSoFar(c)'
  BY <1>1, <1>3 DEF HandlerSoFar, DirectSoFar
<1>5. ASSUME NEW x \in Conns, x # c PROVE HandlerSoFar(x)' /\ DirectSoFar(x)'
  <2>1. Same(x)
    BY <1>1, <1>5 DEF Same, ConnTypes
  <2>. QED  BY <2>1, OthersStay
<1>. QED  BY <1>1, <1>2, <1>4, <1>5 DEF ProxyInv

(* A request that arrives and its entry. *)
LEMMA RequestKeeps ==
  ASSUME ProxyInv, NEW c \in Conns, NEW t \in Targets, Request(c, t)
  PROVE  ProxyInv'
<1>0. ConnTypes /\ LogsSoFar /\ StatusSoFar /\ \A x \in Conns : HandlerSoFar(x) /\ DirectSoFar(x)
  BY DEF ProxyInv
<1>1. PICK l : /\ l \in {"reject", "dial", "forward"} /\ pc' = [pc EXCEPT ![c] = l]
               /\ pc[c] = "new" /\ target' = [target EXCEPT ![c] = t] /\ max' = max
               /\ sent' = sent /\ ended' = ended /\ gone' = gone /\ moved' = moved /\ run' = run
               /\ finished' = finished /\ closed' = closed
  BY DEF Request, Goto, peers, copies
<1>2. PICK e : e = Entry(c, "active", 0, 0)
  OBVIOUS
<1>3. e \in Entries /\ e.conn = c /\ e.status = "active" /\ Add(e)
  BY <1>2 DEF Entry, Entries, Request
<1>4. LogsSoFar' /\ all' = Append(all, e) /\ all \in Seq(Entries)
  BY <1>0, <1>1, <1>3, AddKeeps DEF LogsSoFar
<1>5. ConnTypes'
  BY <1>0, <1>1 DEF ConnTypes
<1>6. pc'[c] = l /\ pc'[c] # "done"
  BY <1>0, <1>1 DEF ConnTypes
<1>7. StatusSoFar'
  <2>1. PICK n : n = Len(all) /\ n \in Nat /\ Len(all') = n + 1
    BY <1>4
  <2>2. ASSUME NEW i \in 1..(n + 1) PROVE all'[i].status = "active" <=> pc'[all'[i].conn] # "done"
    <3>1. CASE i = n + 1
      BY <1>3, <1>4, <1>6, <2>1, <3>1
    <3>2. CASE i # n + 1
      <4>1. i \in 1..n /\ all'[i] = all[i] /\ all[i] \in Entries
        BY <1>4, <2>1, <3>2
      <4>2. all[i].status = "active" <=> pc[all[i].conn] # "done"
        BY <1>0, <2>1, <4>1 DEF StatusSoFar
      <4>3. pc'[all[i].conn] # "done" <=> pc[all[i].conn] # "done"
        BY <1>0, <1>1, <4>1 DEF ConnTypes, Entries
      <4>. QED  BY <4>1, <4>2, <4>3
    <3>. QED  BY <3>1, <3>2
  <2>. QED  BY <2>1, <2>2 DEF StatusSoFar
<1>8. HandlerSoFar(c)' /\ DirectSoFar(c)'
  BY <1>0, <1>1, <1>6 DEF HandlerSoFar, DirectSoFar
<1>9. ASSUME NEW x \in Conns, x # c PROVE HandlerSoFar(x)' /\ DirectSoFar(x)'
  <2>1. Same(x)
    BY <1>0, <1>1, <1>9 DEF Same, ConnTypes
  <2>. QED  BY <1>0, <2>1, OthersStay
<1>. QED  BY <1>4, <1>5, <1>7, <1>8, <1>9 DEF ProxyInv

(* A running copy of a tunnel passes a byte on or returns.                   *)
LEMMA CopyKeeps ==
  ASSUME ProxyInv, NEW c \in Conns, NEW d \in Dir, Copy(c, d)
  PROVE  ProxyInv'
<1>0. ConnTypes /\ LogsSoFar /\ StatusSoFar /\ \A x \in Conns : HandlerSoFar(x) /\ DirectSoFar(x)
  BY DEF ProxyInv
<1>1. d \in run[c] /\ pc[c] = "tunnel"
  BY <1>0, RunningIsTunnel DEF Copy, CopyMoves, CopyEnds, CopyFails
<1>2. /\ UNCHANGED <<pc, target, sent, ended, gone, logs>> /\ LogsSoFar' /\ StatusSoFar'
  BY <1>0, LogsStay DEF Copy, CopyMoves, CopyEnds, CopyFails, peers
<1>3. CASE CopyMoves(c, d)
  <2>1. /\ moved' = [moved EXCEPT ![c][d] = @ + 1] /\ moved[c][d] < sent[c][d]
        /\ run' = run /\ finished' = finished /\ closed' = closed
    BY <1>3 DEF CopyMoves
  <2>2. /\ moved[c] \in [Dir -> 0..MaxBytes] /\ sent[c][d] \in 0..MaxBytes /\ moved[c][d] + 1 \in 0..MaxBytes
        /\ moved[c][d] + 1 <= sent[c][d]
    BY <1>0, <2>1, WebProxyAssumption DEF ConnTypes
  <2>3. /\ moved' \in [Conns -> [Dir -> 0..MaxBytes]] /\ moved'[c][d] = moved[c][d] + 1
        /\ \A e \in Dir \ {d} : moved'[c][e] = moved[c][e]
        /\ \A x \in Conns \ {c} : moved'[x] = moved[x]
    BY <1>0, <2>1, <2>2 DEF ConnTypes
  <2>4. ConnTypes'
    BY <1>0, <1>2, <2>1, <2>3 DEF ConnTypes
  <2>5. HandlerSoFar(c)'
    BY <1>0, <1>1, <1>2, <2>1, <2>2, <2>3 DEF HandlerSoFar
  <2>6. DirectSoFar(c)'
    BY <1>0, <1>1, <1>2, <2>1, <2>3 DEF DirectSoFar
  <2>7. ASSUME NEW x \in Conns, x # c PROVE HandlerSoFar(x)' /\ DirectSoFar(x)'
    BY <1>0, <1>2, <2>1, <2>3, <2>7, OthersStay DEF Same
  <2>. QED  BY <1>2, <2>4, <2>5, <2>6, <2>7 DEF ProxyInv
<1>4. CASE CopyEnds(c, d) \/ CopyFails(c, d)
  <2>1. PICK cl : /\ run' = [run EXCEPT ![c] = @ \ {d}] /\ finished' = [finished EXCEPT ![c] = @ \cup {d}]
                  /\ moved' = moved
                  /\ cl \in SUBSET {"client", "upstream"} /\ closed' = [closed EXCEPT ![c] = cl]
                  /\ target[c] = "DIRECT" => cl = closed[c]
    <3>1. CopyCloses(c, d) /\ moved' = moved
      BY <1>4 DEF CopyEnds, CopyFails
    <3>2. CASE d = "up" /\ target[c] = "PROXY"
      <4>1. closed' = [closed EXCEPT ![c] = closed[c] \cup {"upstream"}]
        BY <1>0, <3>1, <3>2 DEF CopyCloses, Put
      <4>. QED  BY <1>0, <3>1, <3>2, <4>1 DEF CopyCloses, Put, ConnTypes
    <3>3. CASE ~(d = "up" /\ target[c] = "PROXY")
      <4>1. closed' = [closed EXCEPT ![c] = closed[c]]
        BY <1>0, <3>1, <3>3 DEF CopyCloses, ConnTypes
      <4>. QED  BY <1>0, <3>1, <4>1 DEF CopyCloses, Put, ConnTypes
    <3>. QED  BY <3>2, <3>3
  <2>2. /\ run'[c] = run[c] \ {d} /\ closed'[c] = cl
        /\ \A x \in Conns \ {c} : run'[x] = run[x] /\ finished'[x] = finished[x] /\ closed'[x] = closed[x]
    BY <1>0, <2>1 DEF ConnTypes
  <2>3. ConnTypes'
    <3>1. run' \in [Conns -> SUBSET Dir] /\ finished' \in [Conns -> SUBSET Dir]
      BY <1>0, <2>1 DEF ConnTypes
    <3>2. closed' \in [Conns -> SUBSET {"client", "upstream"}]
      BY <1>0, <2>1 DEF ConnTypes
    <3>. QED  BY <1>0, <1>2, <2>1, <3>1, <3>2 DEF ConnTypes
  <2>4. HandlerSoFar(c)'
    BY <1>0, <1>1, <1>2, <2>1 DEF HandlerSoFar
  <2>5. DirectSoFar(c)'
    <3>1. SUFFICES ASSUME target[c] = "DIRECT", gone[c] = {}
                   PROVE  /\ closed'[c] = {}
                          /\ \A e \in Dir \ run'[c] : e \in ended[c] /\ moved[c][e] = sent[c][e]
      BY <1>1, <1>2, <2>1 DEF DirectSoFar
    <3>2. closed[c] = {} /\ \A e \in Dir \ run[c] : e \in ended[c] /\ moved[c][e] = sent[c][e]
      BY <1>0, <1>1, <3>1 DEF DirectSoFar
    <3>3. ~CopyFails(c, d)
      BY <3>1, <3>2 DEF CopyFails, Usable
    <3>4. d \in ended[c] /\ moved[c][d] = sent[c][d]
      BY <1>4, <3>3 DEF CopyEnds
    <3>. QED  BY <2>1, <2>2, <3>1, <3>2, <3>4
  <2>6. ASSUME NEW x \in Conns, x # c PROVE HandlerSoFar(x)' /\ DirectSoFar(x)'
    BY <1>0, <1>2, <2>1, <2>2, <2>6, OthersStay DEF Same
  <2>. QED  BY <1>2, <2>3, <2>4, <2>5, <2>6 DEF ProxyInv
<1>. QED  BY <1>3, <1>4 DEF Copy

(* A peer of a tunnel sends a byte, ends its stream or resets.               *)
LEMMA PeerKeeps ==
  ASSUME ProxyInv, NEW c \in Conns,
         \/ \E d \in Dir : PeerSends(c, d) \/ PeerEnds(c, d)
         \/ \E side \in {"client", "upstream"} : PeerResets(c, side)
  PROVE  ProxyInv'
<1>0. ConnTypes /\ LogsSoFar /\ StatusSoFar /\ \A x \in Conns : HandlerSoFar(x) /\ DirectSoFar(x)
  BY DEF ProxyInv
<1>1. /\ pc[c] = "tunnel" /\ UNCHANGED <<pc, target, moved, run, finished, closed, logs>>
      /\ LogsSoFar' /\ StatusSoFar'
  BY <1>0, LogsStay DEF PeerSends, PeerEnds, PeerResets, copies
<1>2. ASSUME NEW d \in Dir, PeerSends(c, d) PROVE ProxyInv'
  <2>1. /\ sent' = [sent EXCEPT ![c][d] = @ + 1] /\ sent[c][d] < MaxBytes /\ d \notin ended[c]
        /\ ended' = ended /\ gone' = gone
    BY <1>2 DEF PeerSends
  <2>2. /\ sent[c] \in [Dir -> 0..MaxBytes] /\ sent[c][d] + 1 \in 0..MaxBytes
        /\ \A e \in Dir : moved[c][e] \in 0..MaxBytes
    BY <1>0, <2>1, WebProxyAssumption DEF ConnTypes
  <2>3. /\ sent' \in [Conns -> [Dir -> 0..MaxBytes]] /\ sent'[c][d] = sent[c][d] + 1
        /\ \A e \in Dir \ {d} : sent'[c][e] = sent[c][e]
        /\ \A x \in Conns \ {c} : sent'[x] = sent[x]
    BY <1>0, <2>1, <2>2 DEF ConnTypes
  <2>4. ConnTypes'
    BY <1>0, <1>1, <2>1, <2>3 DEF ConnTypes
  <2>5. HandlerSoFar(c)'
    <3>1. \A e \in Dir : moved[c][e] <= sent'[c][e]
      BY <1>0, <2>2, <2>3 DEF HandlerSoFar
    <3>. QED  BY <1>1, <3>1 DEF HandlerSoFar
  <2>6. DirectSoFar(c)'
    BY <1>0, <1>1, <2>1, <2>3 DEF DirectSoFar
  <2>7. ASSUME NEW x \in Conns, x # c PROVE HandlerSoFar(x)' /\ DirectSoFar(x)'
    BY <1>0, <1>1, <2>1, <2>3, <2>7, OthersStay DEF Same
  <2>. QED  BY <1>1, <2>4, <2>5, <2>6, <2>7 DEF ProxyInv
<1>3. ASSUME NEW d \in Dir, PeerEnds(c, d) PROVE ProxyInv'
  <2>1. ended' = [ended EXCEPT ![c] = @ \cup {d}] /\ sent' = sent /\ gone' = gone
    BY <1>3 DEF PeerEnds, Put
  <2>2. ConnTypes' /\ ended'[c] = ended[c] \cup {d} /\ \A x \in Conns \ {c} : ended'[x] = ended[x]
    BY <1>0, <1>1, <2>1 DEF ConnTypes
  <2>3. HandlerSoFar(c)' /\ DirectSoFar(c)'
    BY <1>0, <1>1, <2>1, <2>2 DEF HandlerSoFar, DirectSoFar
  <2>4. ASSUME NEW x \in Conns, x # c PROVE HandlerSoFar(x)' /\ DirectSoFar(x)'
    BY <1>0, <1>1, <2>1, <2>2, <2>4, OthersStay DEF Same
  <2>. QED  BY <1>1, <2>2, <2>3, <2>4 DEF ProxyInv
<1>4. ASSUME NEW side \in {"client", "upstream"}, PeerResets(c, side) PROVE ProxyInv'
  <2>1. gone' = [gone EXCEPT ![c] = @ \cup {side}] /\ sent' = sent /\ ended' = ended
    BY <1>4 DEF PeerResets, Put
  <2>2. /\ ConnTypes' /\ gone'[c] = gone[c] \cup {side} /\ gone'[c] # {}
        /\ \A x \in Conns \ {c} : gone'[x] = gone[x]
    BY <1>0, <1>1, <2>1 DEF ConnTypes
  <2>3. HandlerSoFar(c)' /\ DirectSoFar(c)'
    BY <1>0, <1>1, <2>1, <2>2 DEF HandlerSoFar, DirectSoFar
  <2>4. ASSUME NEW x \in Conns, x # c PROVE HandlerSoFar(x)' /\ DirectSoFar(x)'
    BY <1>0, <1>1, <2>1, <2>2, <2>4, OthersStay DEF Same
  <2>. QED  BY <1>1, <2>2, <2>3, <2>4 DEF ProxyInv
<1>. QED  BY <1>2, <1>3, <1>4

(* Nothing of a request changes when only the window of the log does.        *)
LEMMA WindowKeeps ==
  ASSUME ProxyInv, UNCHANGED <<pc, target, peers, copies>>, LogsSoFar',
         all' = all \/ all' = << >>
  PROVE  ProxyInv'
<1>1. ConnTypes' /\ \A x \in Conns : HandlerSoFar(x)' /\ DirectSoFar(x)'
  BY DEF ProxyInv, ConnTypes, HandlerSoFar, DirectSoFar, peers, copies
<1>2. StatusSoFar'
  BY DEF ProxyInv, StatusSoFar
<1>. QED  BY <1>1, <1>2 DEF ProxyInv

LEMMA ProxyStep == ProxyInv /\ [Next]_vars => ProxyInv'
<1> SUFFICES ASSUME ProxyInv, [Next]_vars PROVE ProxyInv'
  OBVIOUS
<1>0. ConnTypes /\ LogsSoFar /\ StatusSoFar /\ \A x \in Conns : HandlerSoFar(x) /\ DirectSoFar(x)
  BY DEF ProxyInv
<1>1. ASSUME NEW c \in Conns, NEW t \in Targets, Request(c, t) PROVE ProxyInv'
  BY <1>1, RequestKeeps
<1>2. ASSUME NEW c \in Conns, Reject(c) \/ Forwarded(c) \/ DialFails(c) PROVE ProxyInv'
  <2>1. PICK st \in {"closed", "error"}, up \in 0..MaxBytes, down \in 0..MaxBytes : FinishLog(c, st, up, down)
    BY <1>2, WebProxyAssumption DEF Reject, Forwarded, DialFails
  <2>2. /\ pc[c] \in {"reject", "forward", "dial"} /\ UNCHANGED <<moved, run, finished>>
        /\ closed' \in {closed, [closed EXCEPT ![c] = closed[c] \cup {"client"}]}
    BY <1>2 DEF Reject, Forwarded, DialFails, copies, Put
  <2>3. run[c] = {} /\ finished[c] = {} /\ moved[c] = sent[c]
    BY <1>0, <2>2 DEF HandlerSoFar
  <2>4. PICK cl \in SUBSET {"client", "upstream"} : closed' = [closed EXCEPT ![c] = cl]
    <3>1. CASE closed' = closed
      <4>1. closed' = [closed EXCEPT ![c] = closed[c]] /\ closed[c] \in SUBSET {"client", "upstream"}
        BY <1>0, <3>1 DEF ConnTypes
      <4>. QED  BY <4>1
    <3>2. CASE closed' = [closed EXCEPT ![c] = closed[c] \cup {"client"}]
      <4>1. closed[c] \cup {"client"} \in SUBSET {"client", "upstream"}
        BY <1>0 DEF ConnTypes
      <4>. QED  BY <3>2, <4>1
    <3>. QED  BY <2>2, <3>1, <3>2
  <2>. QED  BY <1>0, <2>1, <2>2, <2>3, <2>4, FinishHandler
<1>3. ASSUME NEW c \in Conns, TunnelOpens(c) PROVE ProxyInv'
  <2>1. /\ pc[c] = "dial" /\ pc' = [pc EXCEPT ![c] = "tunnel"] /\ run' = [run EXCEPT ![c] = Dir]
        /\ UNCHANGED <<target, sent, ended, gone, moved, finished, closed, all, entries, max>>
    BY <1>3 DEF TunnelOpens, Goto, peers, logs
  <2>2. ConnTypes'
    BY <1>0, <2>1 DEF ConnTypes
  <2>3. LogsSoFar'
    BY <1>0, <2>1 DEF LogsSoFar
  <2>4. StatusSoFar'
    <3>1. \A x : x \in Conns => (pc'[x] # "done" <=> pc[x] # "done")
      BY <1>0, <2>1 DEF ConnTypes
    <3>2. \A i \in 1..Len(all) : all[i].conn \in Conns
      BY <1>0, EntryTypes
    <3>. QED  BY <1>0, <2>1, <3>1, <3>2 DEF StatusSoFar
  <2>5. pc'[c] = "tunnel" /\ run'[c] = Dir
    BY <1>0, <2>1 DEF ConnTypes
  <2>6. HandlerSoFar(c)' /\ DirectSoFar(c)'
    BY <1>0, <2>1, <2>5 DEF HandlerSoFar, DirectSoFar
  <2>7. ASSUME NEW x \in Conns, x # c PROVE HandlerSoFar(x)' /\ DirectSoFar(x)'
    <3>1. Same(x)
      BY <1>0, <2>1, <2>7 DEF Same, ConnTypes
    <3>. QED  BY <1>0, <3>1, OthersStay
  <2>. QED  BY <2>2, <2>3, <2>4, <2>6, <2>7 DEF ProxyInv
<1>4. ASSUME NEW c \in Conns, Finish(c) PROVE ProxyInv'
  <2>1. /\ pc[c] = "tunnel" /\ run[c] = {} /\ UNCHANGED <<moved, run, finished>>
        /\ closed' = [closed EXCEPT ![c] = {"client", "upstream"}]
    BY <1>4 DEF Finish, BothReturned
  <2>2. PICK st \in {"closed", "error"}, up \in 0..MaxBytes, down \in 0..MaxBytes : FinishLog(c, st, up, down)
    <3>1. moved[c]["down"] \in 0..MaxBytes /\ moved[c]["up"] \in 0..MaxBytes
      BY <1>0 DEF ConnTypes, Dir
    <3>2. (IF failed[c] THEN "error" ELSE "closed") \in {"closed", "error"}
      BY Zenon
    <3>. QED  BY <1>4, <3>1, <3>2 DEF Finish
  <2>3. target[c] = "DIRECT" /\ gone[c] = {} => moved[c] = sent[c]
    <3>1. target[c] = "DIRECT" /\ gone[c] = {} => \A d \in Dir : moved[c][d] = sent[c][d]
      BY <1>0, <2>1 DEF DirectSoFar
    <3>2. moved[c] \in [Dir -> 0..MaxBytes] /\ sent[c] \in [Dir -> 0..MaxBytes]
      BY <1>0 DEF ConnTypes
    <3>. QED  BY <3>1, <3>2
  <2>. QED  BY <1>0, <2>1, <2>2, <2>3, FinishHandler
<1>5. ASSUME NEW c \in Conns, NEW d \in Dir, Copy(c, d) PROVE ProxyInv'
  BY <1>5, CopyKeeps
<1>6. ASSUME NEW c \in Conns,
             \/ \E d \in Dir : PeerSends(c, d) \/ PeerEnds(c, d)
             \/ \E side \in {"client", "upstream"} : PeerResets(c, side)
      PROVE  ProxyInv'
  BY <1>6, PeerKeeps
<1>7. ASSUME NEW n \in LogLimits, SetMax(n) PROVE ProxyInv'
  <2>1. /\ max' = n /\ n \in Nat /\ all' = all /\ entries' = Newest(entries, n)
        /\ UNCHANGED <<pc, target, peers, copies>>
    BY <1>7, WebProxyAssumption DEF SetMax
  <2>2. entries' \in Seq(Entries) /\ TailOf(entries', entries) /\ Len(entries') <= n
    BY <1>0, <2>1, NewestIsTail DEF LogsSoFar
  <2>3. TailOf(entries', all)
    BY <1>0, <2>2, TailOfTail DEF LogsSoFar
  <2>4. LogsSoFar'
    BY <1>0, <2>1, <2>2, <2>3 DEF LogsSoFar
  <2>. QED  BY <2>1, <2>4, WindowKeeps
<1>8. CASE Clear
  <2>1. /\ all' = << >> /\ entries' = << >> /\ max' = max
        /\ UNCHANGED <<pc, target, peers, copies>>
    BY <1>8 DEF Clear
  <2>2. LogsSoFar'
    BY <1>0, <2>1 DEF LogsSoFar, TailOf
  <2>. QED  BY <2>1, <2>2, WindowKeeps
<1>9. CASE UNCHANGED vars
  <2>1. UNCHANGED <<pc, target, peers, copies, logs>>
    BY <1>9 DEF vars
  <2>2. LogsSoFar' /\ all' = all
    BY <1>0, <2>1, LogsStay DEF logs
  <2>. QED  BY <2>1, <2>2, WindowKeeps
<1>. QED  BY <1>1, <1>2, <1>3, <1>4, <1>5, <1>6, <1>7, <1>8, <1>9 DEF Next, Handler

LEMMA ProxyInvariance == Spec => []ProxyInv
  BY ProxyInit, ProxyStep, PTL DEF Spec
-----------------------------------------------------------------------------
(* The places, streams and entries keep their types, and the window of the   *)
(* log never holds more entries than the settings allow.                     *)
THEOREM TypeCorrect == Spec => []TypeOK
<1>1. ProxyInv => TypeOK
  BY EntryTypes DEF ProxyInv, ConnTypes, LogsSoFar, TypeOK
<1>. QED  BY <1>1, ProxyInvariance, PTL

(* The list in the window is the end of the full log that is exported, for   *)
(* any number of requests and any limits, whatever is added, finished, cut   *)
(* off and cleared (Store.Add, Update, SetMax, Clear).                       *)
THEOREM LogWindowIsTail == Spec => []WindowIsTail
<1>1. ProxyInv => WindowIsTail
  BY TailIsSuffix DEF ProxyInv, LogsSoFar, WindowIsTail
<1>. QED  BY <1>1, ProxyInvariance, PTL

(* An entry is active exactly as long as its handler runs, and a handler     *)
(* that has returned leaves neither a copying goroutine nor, once a stream   *)
(* has been ended, an open connection (handleConnect, copyTunnel).           *)
THEOREM ActiveConnectionsHeld == Spec => []ActiveIsHeld
<1>1. ProxyInv => ActiveIsHeld
  <2> SUFFICES ASSUME ProxyInv PROVE ActiveIsHeld
    OBVIOUS
  <2>1. \A i \in DOMAIN all : i \in 1..Len(all) /\ all[i].conn \in Conns
    BY EntryTypes DEF ProxyInv
  <2>. QED  BY <2>1 DEF ProxyInv, StatusSoFar, HandlerSoFar, ActiveIsHeld
<1>. QED  BY <1>1, ProxyInvariance, PTL

(* A direct tunnel that nobody resets delivers everything both ways before   *)
(* its handler returns, also what is sent after the other side has ended.    *)
THEOREM DirectTunnelDelivers == Spec => []DirectDelivers
<1>1. ProxyInv => DirectDelivers
  BY DEF ProxyInv, DirectSoFar, DirectDelivers
<1>. QED  BY <1>1, ProxyInvariance, PTL
=============================================================================
