---------------------------- MODULE RuleList_proofs ----------------------------
(***************************************************************************)
(* Proofs about RuleList, for any patterns, families, hosts, imported      *)
(* lists and bounds: the list is well formed after every call, a restart   *)
(* leaves it alone, and a saved form is applied, once and nowhere else.    *)
(*                                                                         *)
(* The loops of the code are recursive functions on the positions of a     *)
(* list.  What they return is found by induction on the positions, which   *)
(* rests on the least element of a set of numbers (WFMin of                *)
(* WellFoundedInduction).                                                  *)
(***************************************************************************)
EXTENDS RuleList, SequenceTheorems, FiniteSetTheorems, WellFoundedInduction, TLAPS

LEMMA Least ==
  ASSUME NEW T \in SUBSET Nat, T # {}
  PROVE  \E x \in T : \A y \in T : x <= y
<1>1. PICK R : R = OpToRel(<, Nat)
  OBVIOUS
<1>2. IsWellFoundedOn(R, Nat)
  BY <1>1, NatLessThanWellFounded
<1>3. PICK x \in T : \A y \in T : ~(<<y, x>> \in R)
  BY <1>2, WFMin
<1>4. \A y \in T : ~(y < x)
  BY <1>1, <1>3 DEF OpToRel
<1>. QED  BY <1>4

LEMMA Induction ==
  ASSUME NEW S, 0 \in S, \A n \in Nat : n \in S => n + 1 \in S
  PROVE  \A n \in Nat : n \in S
<1> SUFFICES ASSUME NEW n \in Nat, n \notin S PROVE FALSE
  OBVIOUS
<1>1. PICK m \in Nat \ S : \A k \in Nat \ S : m <= k
  BY Least
<1>2. m # 0 /\ m - 1 \in Nat
  BY <1>1
<1>3. m - 1 \in S
  BY <1>1, <1>2
<1>. QED  BY <1>1, <1>2, <1>3

(* A function is defined by its first value and a step.                      *)
Computes(f, A, a, G, m) ==
  f \in [0..m -> A] /\ f[0] = a /\ \A n \in 1..m : f[n] = G[<<n, f[n - 1]>>]

LEMMA Recursion ==
  ASSUME NEW A, NEW a \in A, NEW G \in [Nat \X A -> A], NEW m \in Nat
  PROVE  \E f : Computes(f, A, a, G, m)
<1> DEFINE P(k, f) == f[0] = a /\ \A n \in 1..k : f[n] = G[<<n, f[n - 1]>>]
           S == {k \in Nat : \E f \in [0..k -> A] : P(k, f)}
<1>1. 0 \in S
  <2>1. [n \in 0..0 |-> a] \in [0..0 -> A] /\ P(0, [n \in 0..0 |-> a])
    OBVIOUS
  <2>. QED  BY <2>1
<1>2. ASSUME NEW k \in Nat, k \in S PROVE k + 1 \in S
  <2>1. PICK f \in [0..k -> A] : P(k, f)
    BY <1>2
  <2>2. PICK v \in A : v = G[<<k + 1, f[k]>>]
    OBVIOUS
  <2>3. PICK g : g = [n \in 0..(k + 1) |-> IF n = k + 1 THEN v ELSE f[n]]
    OBVIOUS
  <2>4. g \in [0..(k + 1) -> A]
    BY <2>3
  <2>5. \A n \in 0..k : g[n] = f[n]
    BY <2>3
  <2>6. g[k + 1] = v /\ g[k] = f[k] /\ g[0] = a
    BY <2>1, <2>3, <2>5
  <2>7. ASSUME NEW n \in 1..k PROVE g[n] = G[<<n, g[n - 1]>>]
    <3>1. g[n] = f[n] /\ g[n - 1] = f[n - 1]
      BY <2>5
    <3>. QED  BY <2>1, <3>1
  <2>8. g[k + 1] = G[<<k + 1, g[(k + 1) - 1]>>]
    <3>1. (k + 1) - 1 = k
      OBVIOUS
    <3>. QED  BY <2>2, <2>6, <3>1
  <2>9. \A n \in 1..(k + 1) : n \in 1..k \/ n = k + 1
    OBVIOUS
  <2>10. P(k + 1, g)
    BY <2>6, <2>7, <2>8, <2>9
  <2>. QED  BY <2>4, <2>10
<1>. HIDE DEF S
<1>3. m \in S
  BY <1>1, <1>2, Induction
<1>. QED  BY <1>3 DEF S, Computes
SameSteps(f, g, m) == f[0] = g[0] /\ \A n \in 1..m : f[n - 1] = g[n - 1] => f[n] = g[n]
SameValues(f, g, m) == \A n \in 0..m : f[n] = g[n]

LEMMA Unique ==
  ASSUME NEW m \in Nat, NEW f, NEW g, SameSteps(f, g, m)
  PROVE  SameValues(f, g, m)
<1> DEFINE S == {n \in Nat : n <= m => f[n] = g[n]}
<1>1. 0 \in S
  BY DEF SameSteps
<1>2. ASSUME NEW n \in Nat, n \in S PROVE n + 1 \in S
  <2> SUFFICES ASSUME n + 1 <= m PROVE f[n + 1] = g[n + 1]
    OBVIOUS
  <2>1. (n + 1) - 1 = n /\ n + 1 \in 1..m
    OBVIOUS
  <2>2. f[n] = g[n]
    BY <1>2
  <2>. QED  BY <2>1, <2>2 DEF SameSteps
<1>. HIDE DEF S
<1>3. \A n \in Nat : n \in S
  BY <1>1, <1>2, Induction
<1>. QED  BY <1>3 DEF S, SameValues
-----------------------------------------------------------------------------
(* Keep: what it keeps and in which order.                                   *)
KeptBy(s, K, f) ==
  /\ f[0] = << >>
  /\ \A n \in 1..Len(s) : f[n] = IF n \in K THEN Append(f[n - 1], s[n]) ELSE f[n - 1]

LEMMA KeepSteps ==
  ASSUME NEW S, NEW s \in Seq(S), NEW K
  PROVE  \E f \in [0..Len(s) -> Seq(S)] : Keep(s, K) = f[Len(s)] /\ KeptBy(s, K, f)
<1> DEFINE step(n, t) == IF n \in K THEN Append(t, s[n]) ELSE t
<1>0. PICK m \in Nat : m = Len(s)
  BY LenProperties
<1>1. PICK Q : Q = Seq(S)
  OBVIOUS
<1>2. PICK e \in Q : e = << >>
  BY <1>1, EmptySeq
<1>3. ASSUME NEW n \in 1..m, NEW t \in Q PROVE step(n, t) \in Q
  <2>1. s[n] \in S
    BY <1>0, <1>3, ElementOfSeq
  <2>. QED  BY <1>1, <2>1, AppendProperties
<1>. HIDE DEF step
<1>4. PICK G : G = [x \in Nat \X Q |-> IF x[1] \in 1..m THEN step(x[1], x[2]) ELSE x[2]]
  OBVIOUS
<1>5. G \in [Nat \X Q -> Q]
  BY <1>3, <1>4
<1>5a. \A n \in 1..m, t \in Q : G[<<n, t>>] = step(n, t)
  BY <1>4
<1>6a. PICK f : Computes(f, Q, e, G, m)
  BY <1>5, Recursion
<1>6. f \in [0..m -> Q] /\ f[0] = e /\ \A n \in 1..m : f[n] = G[<<n, f[n - 1]>>]
  BY <1>6a DEF Computes
<1>7. ASSUME NEW n \in 1..m PROVE f[n] = step(n, f[n - 1])
  <2>1. n - 1 \in 0..m
    OBVIOUS
  <2>. QED  BY <1>5a, <1>6, <2>1
<1>8. f = [n \in 0..m |-> IF n = 0 THEN e ELSE step(n, f[n - 1])]
  <2>1. \A n \in 0..m : n = 0 \/ n \in 1..m
    OBVIOUS
  <2>. QED  BY <1>6, <1>7, <2>1
<1>9. PICK g : /\ Keep(s, K) = g[m]
               /\ g = CHOOSE h : h = [n \in 0..m |-> IF n = 0 THEN e ELSE step(n, h[n - 1])]
  BY <1>0, <1>2, Zenon DEF Keep, step
<1>10. g = [n \in 0..m |-> IF n = 0 THEN e ELSE step(n, g[n - 1])]
  BY <1>8, <1>9, Zenon
<1>11. g[0] = e /\ \A n \in 1..m : g[n] = step(n, g[n - 1])
  <2>1. 0 \in 0..m /\ \A n \in 1..m : n \in 0..m /\ n # 0
    OBVIOUS
  <2>2. \A n \in 0..m : g[n] = IF n = 0 THEN e ELSE step(n, g[n - 1])
    BY <1>10, Zenon
  <2>. QED  BY <2>1, <2>2
<1>12. \A n \in 0..m : g[n] = f[n]
  <2>1. SameSteps(f, g, m)
    BY <1>6, <1>7, <1>11 DEF SameSteps
  <2>. QED  BY <2>1, Unique DEF SameValues
<1>13. Keep(s, K) = f[m]
  BY <1>9, <1>12
<1>. QED  BY <1>0, <1>1, <1>2, <1>6, <1>7, <1>13, Zenon DEF KeptBy, step

(* The list t is what s has at the positions of K up to n, in their order:   *)
(* its element j was at p[j].                                                *)
Picks(t, s, K, n, p) ==
  /\ p \in [1..Len(t) -> {k \in 1..n : k \in K}]
  /\ \A j \in 1..Len(t) : t[j] = s[p[j]]
  /\ \A i, j \in 1..Len(t) : i < j => p[i] < p[j]
  /\ \A k \in 1..n : k \in K => \E j \in 1..Len(t) : p[j] = k

LEMMA PickOne ==
  ASSUME NEW S, NEW s \in Seq(S), NEW K, NEW n \in Nat, n < Len(s),
         NEW t \in Seq(S), NEW p, Picks(t, s, K, n, p)
  PROVE  \E q : Picks(IF n + 1 \in K THEN Append(t, s[n + 1]) ELSE t, s, K, n + 1, q)
<1>0. Len(t) \in Nat /\ Len(s) \in Nat /\ s[n + 1] \in S
  BY LenProperties, ElementOfSeq
<1>1. CASE n + 1 \notin K
  <2>1. Picks(t, s, K, n + 1, p)
    BY <1>1 DEF Picks
  <2>. QED  BY <1>1, <2>1
<1>2. CASE n + 1 \in K
  <2>1. PICK u : u = Append(t, s[n + 1])
    OBVIOUS
  <2>2. PICK m \in Nat : m = Len(t)
    BY <1>0
  <2>3. Len(u) = m + 1 /\ u[m + 1] = s[n + 1] /\ \A j \in 1..m : u[j] = t[j]
    BY <1>0, <2>1, <2>2, AppendProperties
  <2>4. PICK q : q = [j \in 1..(m + 1) |-> IF j = m + 1 THEN n + 1 ELSE p[j]]
    OBVIOUS
  <2>5. \A j \in 1..m : p[j] \in 1..n /\ p[j] \in K /\ t[j] = s[p[j]]
    BY <2>2 DEF Picks
  <2>6. q[m + 1] = n + 1 /\ \A j \in 1..m : q[j] = p[j]
    BY <2>4
  <2>7. \A j \in 1..(m + 1) : j = m + 1 \/ j \in 1..m
    OBVIOUS
  <2>8. q \in [1..(m + 1) -> {k \in 1..(n + 1) : k \in K}]
    BY <1>2, <2>4, <2>5
  <2>9. \A j \in 1..(m + 1) : u[j] = s[q[j]]
    BY <2>3, <2>5, <2>6, <2>7
  <2>10. ASSUME NEW i \in 1..(m + 1), NEW j \in 1..(m + 1), i < j PROVE q[i] < q[j]
    <3>1. i \in 1..m
      BY <2>10
    <3>2. CASE j = m + 1
      BY <2>5, <2>6, <3>1, <3>2
    <3>3. CASE j \in 1..m
      BY <2>2, <2>6, <2>10, <3>1, <3>3 DEF Picks
    <3>. QED  BY <2>7, <3>2, <3>3
  <2>11. ASSUME NEW k \in 1..(n + 1), k \in K PROVE \E j \in 1..(m + 1) : q[j] = k
    <3>1. CASE k = n + 1
      BY <2>6, <3>1
    <3>2. CASE k # n + 1
      <4>1. k \in 1..n
        BY <3>2
      <4>2. PICK j \in 1..m : p[j] = k
        BY <2>2, <2>11, <4>1 DEF Picks
      <4>. QED  BY <2>6, <4>2
    <3>. QED  BY <3>1, <3>2
  <2>12. Picks(u, s, K, n + 1, q)
    BY <2>3, <2>8, <2>9, <2>10, <2>11 DEF Picks
  <2>. QED  BY <1>2, <2>1, <2>12
<1>. QED  BY <1>1, <1>2

LEMMA KeepPicks ==
  ASSUME NEW S, NEW s \in Seq(S), NEW K
  PROVE  Keep(s, K) \in Seq(S) /\ \E p : Picks(Keep(s, K), s, K, Len(s), p)
<1>1. PICK f \in [0..Len(s) -> Seq(S)] : Keep(s, K) = f[Len(s)] /\ KeptBy(s, K, f)
  BY KeepSteps
<1>2. PICK m \in Nat : m = Len(s)
  BY LenProperties
<1> DEFINE T == {n \in Nat : n <= m => \E p : Picks(f[n], s, K, n, p)}
<1>3. 0 \in T
  <2>1. f[0] = << >> /\ Len(f[0]) = 0
    BY <1>1, EmptySeq DEF KeptBy
  <2>2. PICK p : p = [j \in 1..0 |-> 0]
    OBVIOUS
  <2>3. Picks(f[0], s, K, 0, p)
    BY <2>1, <2>2 DEF Picks
  <2>. QED  BY <2>3
<1>4. ASSUME NEW n \in Nat, n \in T PROVE n + 1 \in T
  <2> SUFFICES ASSUME n + 1 <= m PROVE \E p : Picks(f[n + 1], s, K, n + 1, p)
    OBVIOUS
  <2>1. n \in 0..Len(s) /\ n + 1 \in 1..Len(s) /\ (n + 1) - 1 = n /\ n < Len(s)
    BY <1>2
  <2>2. PICK t \in Seq(S) : t = f[n]
    BY <2>1
  <2>3. PICK p : Picks(t, s, K, n, p)
    BY <1>4, <2>2
  <2>4. f[n + 1] = IF n + 1 \in K THEN Append(t, s[n + 1]) ELSE t
    BY <1>1, <2>1, <2>2 DEF KeptBy
  <2>. QED  BY <2>1, <2>3, <2>4, PickOne
<1>. HIDE DEF T
<1>5. m \in T
  BY <1>3, <1>4, Induction
<1>6. \E p : Picks(f[Len(s)], s, K, Len(s), p)
  BY <1>2, <1>5 DEF T
<1>. QED  BY <1>1, <1>2, <1>6

-----------------------------------------------------------------------------
(* Ids.  One that is given out is new: a list of n rules has at most n.      *)
LEMMA NewIdIsNew ==
  ASSUME NEW s \in Seq(Rule)
  PROVE  NewId(s) \in Nat /\ NewId(s) # 0 /\ \A i \in 1..Len(s) : s[i].id # NewId(s)
<1>1. PICK m \in Nat : m = Len(s)
  BY LenProperties
<1>2. DOMAIN s = 1..m
  BY <1>1, LenProperties
<1>3. \E i \in 1..(m + 1) : i \notin Ids(s)
  <2> SUFFICES ASSUME \A i \in 1..(m + 1) : i \in Ids(s) PROVE FALSE
    OBVIOUS
  <2>1. \A i \in 1..(m + 1) : \E j \in 1..m : s[j].id = i
    BY <1>2 DEF Ids
  <2>2. PICK f : f = [i \in 1..(m + 1) |-> CHOOSE j \in 1..m : s[j].id = i]
    OBVIOUS
  <2>3. \A i \in 1..(m + 1) : f[i] \in 1..m /\ s[f[i]].id = i
    BY <2>1, <2>2
  <2>4. f \in [1..(m + 1) -> 1..m]
    BY <2>2, <2>3
  <2>5. /\ IsFiniteSet(1..(m + 1)) /\ Cardinality(1..(m + 1)) = m + 1
        /\ IsFiniteSet(1..m) /\ Cardinality(1..m) = m
    <3>1. 1 \in Int /\ m \in Int /\ m + 1 \in Int
      OBVIOUS
    <3>. QED  BY <3>1, FS_Interval
  <2>6. \E x, y \in 1..(m + 1) : x # y /\ f[x] = f[y]
    <3>1. Cardinality(1..m) < Cardinality(1..(m + 1))
      BY <2>5
    <3>. QED  BY <2>4, <2>5, <3>1, FS_PigeonHole
  <2>. QED  BY <2>3, <2>6
<1>4. NewId(s) \in 1..(m + 1) /\ NewId(s) \notin Ids(s)
  BY <1>1, <1>3 DEF NewId
<1>. QED  BY <1>1, <1>2, <1>4 DEF Ids

(* The same rules, under other ids perhaps. *)
SameRule(r, q) == r.pat = q.pat /\ r.target = q.target /\ r.on = q.on
SameRules(t, s) == Len(t) = Len(s) /\ \A i \in 1..Len(s) : SameRule(t[i], s[i])

(* Ids are distinct, the missing ones apart.                                 *)
PartlyNumbered(s) == \A i, j \in 1..Len(s) : s[i].id = s[j].id => i = j \/ s[i].id = 0

LEMMA RuleFields ==
  ASSUME NEW r \in Rule
  PROVE  /\ r.id \in Nat /\ r.pat \in Patterns \cup {MATCH} /\ r.target \in Targets /\ r.on \in BOOLEAN
         /\ \A e \in Nat : /\ [r EXCEPT !.id = e] \in Rule /\ [r EXCEPT !.id = e].id = e
                           /\ SameRule([r EXCEPT !.id = e], r)
  BY DEF Rule, SameRule

(* One rule of t is given an id in u, if it has none. *)
Given(t, n, u) ==
  /\ u \in Seq(Rule) /\ SameRules(u, t) /\ (PartlyNumbered(t) => PartlyNumbered(u))
  /\ u[n].id # 0 /\ \A i \in 1..Len(t) : t[i].id # 0 => u[i].id = t[i].id
  /\ t[n].id # 0 => u = t

LEMMA GiveId ==
  ASSUME NEW t \in Seq(Rule), NEW n \in 1..Len(t),
         NEW u, u = IF t[n].id = 0 THEN [t EXCEPT ![n].id = NewId(t)] ELSE t
  PROVE  Given(t, n, u)
<1>1. Len(t) \in Nat /\ \A i \in 1..Len(t) : t[i] \in Rule
  BY LenProperties, ElementOfSeq
<1>2. CASE t[n].id # 0
  BY <1>2 DEF Given, SameRules, SameRule
<1>3. CASE t[n].id = 0
  <2>1. PICK e \in Nat : e = NewId(t) /\ e # 0 /\ \A i \in 1..Len(t) : t[i].id # e
    BY NewIdIsNew
  <2>2. PICK r : r = [t[n] EXCEPT !.id = e]
    OBVIOUS
  <2>3. r \in Rule /\ r.id = e /\ SameRule(r, t[n])
    BY <1>1, <2>2, RuleFields
  <2>4. u = [t EXCEPT ![n] = r]
    BY <1>3, <2>1, <2>2
  <2>5. /\ u \in Seq(Rule) /\ Len(u) = Len(t)
        /\ \A i \in 1..Len(t) : u[i] = IF i = n THEN r ELSE t[i]
    BY <2>3, <2>4, ExceptSeq
  <2>6. SameRules(u, t)
    BY <2>3, <2>5 DEF SameRules, SameRule
  <2>7. PartlyNumbered(t) => PartlyNumbered(u)
    BY <2>1, <2>3, <2>5 DEF PartlyNumbered
  <2>. QED  BY <1>3, <2>1, <2>3, <2>5, <2>6, <2>7 DEF Given
<1>. QED  BY <1>2, <1>3

(* The list with the rules up to n numbered.                                 *)
GivenTo(s, n, t) ==
  /\ t \in Seq(Rule) /\ SameRules(t, s) /\ (PartlyNumbered(s) => PartlyNumbered(t))
  /\ \A i \in 1..n : t[i].id # 0
  /\ \A i \in 1..Len(s) : s[i].id # 0 => t[i].id = s[i].id
  /\ (\A i \in 1..Len(s) : s[i].id # 0) => t = s

LEMMA GiveOne ==
  ASSUME NEW s \in Seq(Rule), NEW n \in Nat, n < Len(s), NEW t, GivenTo(s, n, t)
  PROVE  GivenTo(s, n + 1, IF t[n + 1].id = 0 THEN [t EXCEPT ![n + 1].id = NewId(t)] ELSE t)
<1>1. PICK u : u = IF t[n + 1].id = 0 THEN [t EXCEPT ![n + 1].id = NewId(t)] ELSE t
  OBVIOUS
<1>2. PICK m \in Nat : m = Len(s)
  BY LenProperties
<1>3. t \in Seq(Rule) /\ Len(t) = m /\ n + 1 \in 1..Len(t)
  BY <1>2 DEF GivenTo, SameRules
<1>4. /\ u \in Seq(Rule) /\ SameRules(u, t) /\ (PartlyNumbered(t) => PartlyNumbered(u))
      /\ u[n + 1].id # 0 /\ \A i \in 1..Len(t) : t[i].id # 0 => u[i].id = t[i].id
      /\ t[n + 1].id # 0 => u = t
  <2>1. Given(t, n + 1, u)
    BY <1>1, <1>3, GiveId
  <2>. QED  BY <2>1 DEF Given
<1>5. SameRules(u, s)
  BY <1>4 DEF GivenTo, SameRules, SameRule
<1>6. \A i \in 1..(n + 1) : u[i].id # 0
  <2>1. \A i \in 1..(n + 1) : i = n + 1 \/ (i \in 1..n /\ i \in 1..Len(t))
    BY <1>2, <1>3
  <2>. QED  BY <1>4, <2>1 DEF GivenTo
<1>7. \A i \in 1..Len(s) : s[i].id # 0 => u[i].id = s[i].id
  BY <1>2, <1>3, <1>4 DEF GivenTo
<1>8. (\A i \in 1..Len(s) : s[i].id # 0) => u = s
  BY <1>2, <1>3, <1>4 DEF GivenTo
<1>9. GivenTo(s, n + 1, u)
  BY <1>4, <1>5, <1>6, <1>7, <1>8 DEF GivenTo
<1>. QED  BY <1>1, <1>9

LEMMA WithIdsGiven ==
  ASSUME NEW s \in Seq(Rule)
  PROVE  GivenTo(s, Len(s), WithIds(s))
<1> DEFINE step(n, t) == IF t[n].id = 0 THEN [t EXCEPT ![n].id = NewId(t)] ELSE t
<1>0. PICK m \in Nat : m = Len(s)
  BY LenProperties
<1>1. PICK Q : Q = {t \in Seq(Rule) : Len(t) = m}
  OBVIOUS
<1>2. s \in Q
  BY <1>0, <1>1
<1>3. ASSUME NEW n \in 1..m, NEW t \in Q PROVE step(n, t) \in Q
  <2>1. t \in Seq(Rule) /\ n \in 1..Len(t) /\ Len(t) = m
    BY <1>1
  <2>2. Given(t, n, step(n, t))
    BY <2>1, GiveId
  <2>. HIDE DEF step
  <2>. QED  BY <1>1, <2>1, <2>2 DEF Given, SameRules
<1>. HIDE DEF step
<1>4. PICK G : G = [x \in Nat \X Q |-> IF x[1] \in 1..m THEN step(x[1], x[2]) ELSE x[2]]
  OBVIOUS
<1>5. G \in [Nat \X Q -> Q]
  BY <1>3, <1>4
<1>6. \A n \in 1..m, t \in Q : G[<<n, t>>] = step(n, t)
  BY <1>4
<1>7. PICK f : Computes(f, Q, s, G, m)
  BY <1>2, <1>5, Recursion
<1>8. f \in [0..m -> Q] /\ f[0] = s /\ \A n \in 1..m : f[n] = G[<<n, f[n - 1]>>]
  BY <1>7 DEF Computes
<1>9. ASSUME NEW n \in 1..m PROVE f[n] = step(n, f[n - 1])
  <2>1. n - 1 \in 0..m
    OBVIOUS
  <2>. QED  BY <1>6, <1>8, <2>1
<1>10. f = [n \in 0..m |-> IF n = 0 THEN s ELSE step(n, f[n - 1])]
  <2>1. \A n \in 0..m : n = 0 \/ n \in 1..m
    OBVIOUS
  <2>. QED  BY <1>8, <1>9, <2>1
<1>11. PICK g : /\ WithIds(s) = g[m]
                /\ g = CHOOSE h : h = [n \in 0..m |-> IF n = 0 THEN s ELSE step(n, h[n - 1])]
  BY <1>0, Zenon DEF WithIds, step
<1>12. g = [n \in 0..m |-> IF n = 0 THEN s ELSE step(n, g[n - 1])]
  BY <1>10, <1>11, Zenon
<1>13. g[0] = s /\ \A n \in 1..m : g[n] = step(n, g[n - 1])
  <2>1. 0 \in 0..m /\ \A n \in 1..m : n \in 0..m /\ n # 0
    OBVIOUS
  <2>2. \A n \in 0..m : g[n] = IF n = 0 THEN s ELSE step(n, g[n - 1])
    BY <1>12, Zenon
  <2>. QED  BY <2>1, <2>2
<1> DEFINE T == {n \in Nat : n <= m => GivenTo(s, n, g[n])}
<1>14. 0 \in T
  <2>1. GivenTo(s, 0, s)
    BY DEF GivenTo, SameRules, SameRule
  <2>. QED  BY <1>13, <2>1
<1>15. ASSUME NEW n \in Nat, n \in T PROVE n + 1 \in T
  <2> SUFFICES ASSUME n + 1 <= m PROVE GivenTo(s, n + 1, g[n + 1])
    OBVIOUS
  <2>1. GivenTo(s, n, g[n]) /\ n < Len(s)
    BY <1>0, <1>15
  <2>2. g[n + 1] = step(n + 1, g[n])
    <3>1. n + 1 \in 1..m /\ (n + 1) - 1 = n
      OBVIOUS
    <3>. QED  BY <1>13, <3>1
  <2>3. GivenTo(s, n + 1, step(n + 1, g[n]))
    BY <2>1, GiveOne DEF step
  <2>. QED  BY <2>2, <2>3
<1>. HIDE DEF T
<1>16. m \in T
  BY <1>14, <1>15, Induction
<1>17. GivenTo(s, m, g[m])
  BY <1>16 DEF T
<1>. QED  BY <1>0, <1>11, <1>17

-----------------------------------------------------------------------------
(* The rewriting of the list.                                                *)
LEMMA BuiltinRules ==
  /\ CommonDomainRules \in Seq(Rule) /\ Len(CommonDomainRules) = Len(Builtins)
  /\ Len(Builtins) \in Nat /\ DOMAIN Builtins = 1..Len(Builtins)
  /\ \A k \in 1..Len(Builtins) :
       /\ Builtins[k] \in Patterns /\ Builtins[k] # MATCH
       /\ CommonDomainRules[k] = NewRule(Builtins[k], "PROXY")
  /\ \A k, l \in 1..Len(Builtins) : Builtins[k] = Builtins[l] => k = l
<1>1. PICK m \in Nat : m = Len(Builtins) /\ DOMAIN Builtins = 1..m
  BY RuleListAssumption, LenProperties
<1>2. \A k \in 1..m : Builtins[k] \in Patterns /\ Builtins[k] # MATCH
  BY <1>1, RuleListAssumption, ElementOfSeq
<1>3. CommonDomainRules = [k \in 1..m |-> NewRule(Builtins[k], "PROXY")]
  BY <1>1 DEF CommonDomainRules
<1>4. ASSUME NEW k \in 1..m PROVE NewRule(Builtins[k], "PROXY") \in Rule
  BY <1>2, RuleListAssumption DEF NewRule, Rule
<1>5. CommonDomainRules \in [1..m -> Rule]
  BY <1>3, <1>4
<1>6. CommonDomainRules \in Seq(Rule)
  BY <1>5, SeqDef
<1>7. Len(CommonDomainRules) = m
  BY <1>5, <1>6, LenProperties
<1>8. \A k, l \in 1..m : Builtins[k] = Builtins[l] => k = l
  BY <1>1, RuleListAssumption DEF IsInjective
<1>. QED  BY <1>1, <1>2, <1>3, <1>6, <1>7, <1>8

LEMMA BuiltinRule ==
  ASSUME NEW k \in 1..Len(Builtins)
  PROVE  /\ Builtins[k] \in Patterns /\ Builtins[k] # MATCH
         /\ CommonDomainRules[k].pat = Builtins[k] /\ ~IsFallback(CommonDomainRules[k])
<1>1. PICK x : x = CommonDomainRules[k]
  OBVIOUS
<1>2. x = NewRule(Builtins[k], "PROXY") /\ Builtins[k] \in Patterns /\ Builtins[k] # MATCH
  BY <1>1, BuiltinRules
<1>3. x.pat = Builtins[k]
  BY <1>2 DEF NewRule
<1>. QED  BY <1>1, <1>2, <1>3 DEF IsFallback

LEMMA LastOfSet ==
  ASSUME NEW n \in Nat, NEW I \in SUBSET (1..n), I # {}
  PROVE  Max(I) \in I /\ \A i \in I : i <= Max(I)
<1>1. PICK T : T = {k \in Nat : \E i \in I : k = n - i}
  OBVIOUS
<1>2. T \in SUBSET Nat /\ T # {}
  <2>1. PICK i \in I : i \in 1..n
    OBVIOUS
  <2>2. n - i \in Nat
    BY <2>1
  <2>. QED  BY <1>1, <2>2
<1>3. PICK x \in T : \A y \in T : x <= y
  BY <1>2, Least
<1>4. PICK j \in I : x = n - j
  BY <1>1, <1>3
<1>5. \A i \in I : n - i \in T
  BY <1>1
<1>6. \A i \in I : j >= i
  BY <1>3, <1>4, <1>5
<1>7. \E k \in I : \A i \in I : k >= i
  BY <1>6
<1>8. Max(I) \in I /\ \A i \in I : Max(I) >= i
  BY <1>7, Zenon DEF Max
<1>. QED  BY <1>8

LEMMA FirstOfSet ==
  ASSUME NEW n \in Nat, NEW I \in SUBSET (1..n), I # {}
  PROVE  Min(I) \in I /\ \A i \in I : Min(I) <= i
<1>1. I \in SUBSET Nat
  OBVIOUS
<1>2. \E x \in I : \A y \in I : x <= y
  BY <1>1, Least
<1>. QED  BY <1>2, Zenon DEF Min

LEMMA FallbackIsOne ==
  Fallback \in Rule /\ IsFallback(Fallback) /\ Fallback.id = 0 /\ Fallback.on
BY RuleListAssumption DEF Fallback, NewRule, IsFallback, Rule

LEMMA LastFallbackIsOne ==
  ASSUME NEW s \in Seq(Rule)
  PROVE  /\ LastFallback(s) \in Rule /\ IsFallback(LastFallback(s))
         /\ \/ LastFallback(s) = Fallback
            \/ \E k \in 1..Len(s) : IsFallback(s[k]) /\ LastFallback(s) = s[k]
         /\ \A k \in 1..Len(s) : (\A i \in 1..Len(s) : IsFallback(s[i]) <=> i = k) => LastFallback(s) = s[k]
<1>1. PICK m \in Nat : m = Len(s)
  BY LenProperties
<1>2. DOMAIN s = 1..m /\ \A i \in 1..m : s[i] \in Rule
  BY <1>1, LenProperties, ElementOfSeq
<1>3. PICK I : I = {i \in 1..m : IsFallback(s[i])}
  OBVIOUS
<1>4. LastFallback(s) = IF I # {} THEN s[Max(I)] ELSE Fallback
  <2>1. SelectLastInSeq(s, IsFallback) = IF I # {} THEN Max(I) ELSE 0
    BY <1>1, <1>3, Zenon DEF SelectLastInSeq
  <2>2. (\E i \in DOMAIN s : IsFallback(s[i])) <=> I # {}
    BY <1>2, <1>3
  <2>. QED  BY <2>1, <2>2 DEF LastFallback
<1>5. CASE I = {}
  BY <1>1, <1>3, <1>4, <1>5, FallbackIsOne
<1>6. CASE I # {}
  <2>1. Max(I) \in I /\ \A i \in I : i <= Max(I)
    <3>1. I \in SUBSET (1..m)
      BY <1>3
    <3>. QED  BY <1>6, <3>1, LastOfSet
  <2>2. PICK k \in 1..m : k = Max(I) /\ IsFallback(s[k])
    BY <1>3, <2>1
  <2>3. LastFallback(s) = s[k]
    BY <1>4, <1>6, <2>2
  <2>. QED  BY <1>1, <1>2, <2>2, <2>3
<1>. QED  BY <1>5, <1>6

(* The list t that s is rewritten to: the rules of s but the fallbacks, a of *)
(* them, at p[i] in s; the missing built-in domains, b of them, the q[i]-th; *)
(* a fallback.                                                               *)
Rebuilt(s, t, a, b, p, q) ==
  /\ t \in Seq(Rule) /\ Len(t) = a + b + 1
  /\ p \in [1..a -> 1..Len(s)] /\ q \in [1..b -> 1..Len(Builtins)]
  /\ \A i, j \in 1..a : i < j => p[i] < p[j]
  /\ \A i \in 1..a : SameRule(t[i], s[p[i]]) /\ ~IsFallback(s[p[i]])
  /\ \A k \in 1..Len(s) : ~IsFallback(s[k]) => \E i \in 1..a : p[i] = k
  /\ \A i, j \in 1..b : i < j => q[i] < q[j]
  /\ \A i \in 1..b : /\ SameRule(t[a + i], CommonDomainRules[q[i]])
                     /\ \A j \in 1..a : t[j].pat # Builtins[q[i]]
  /\ \A k \in 1..Len(Builtins) :
       (\E i \in 1..a : t[i].pat = Builtins[k]) \/ \E i \in 1..b : q[i] = k
  /\ SameRule(t[a + b + 1], LastFallback(s))

HasIds(s) == \A i \in 1..Len(s) : s[i].id # 0

LEMMA EnsureRebuilds ==
  ASSUME NEW s \in Seq(Rule)
  PROVE  /\ HasIds(EnsureInvariants(s))
         /\ PartlyNumbered(s) => PartlyNumbered(EnsureInvariants(s))
         /\ \E a, b \in Nat : \E p, q : Rebuilt(s, EnsureInvariants(s), a, b, p, q)
<1>0. Len(s) \in Nat /\ DOMAIN s = 1..Len(s) /\ \A i \in 1..Len(s) : s[i] \in Rule
  BY LenProperties, ElementOfSeq
<1>1. PICK K : K = {i \in DOMAIN s : ~IsFallback(s[i])}
  OBVIOUS
<1>2. PICK f \in Seq(Rule) : f = WithoutFallback(s) /\ \E p : Picks(f, s, K, Len(s), p)
  BY <1>1, KeepPicks DEF WithoutFallback
<1>3. PICK p : Picks(f, s, K, Len(s), p)
  BY <1>2
<1>4. PICK L : L = {b \in DOMAIN Builtins : \A i \in DOMAIN f : ~SameRulePattern(f[i], CommonDomainRules[b])}
  OBVIOUS
<1>5. PICK c \in Seq(Rule) : c = CommonDomainRules /\ Len(c) = Len(Builtins)
  BY BuiltinRules
<1>6. PICK g \in Seq(Rule) : g = MissingFrom(f) /\ \E q : Picks(g, c, L, Len(c), q)
  BY <1>4, <1>5, KeepPicks DEF MissingFrom
<1>7. PICK q : Picks(g, c, L, Len(c), q)
  BY <1>6
<1>8. PICK a \in Nat : a = Len(f) /\ DOMAIN f = 1..a
  BY LenProperties
<1>9. PICK b \in Nat : b = Len(g)
  BY LenProperties
<1>10. PICK z \in Rule :
         /\ z = LastFallback(s) /\ IsFallback(z)
         /\ z.id = 0 \/ \E k \in 1..Len(s) : IsFallback(s[k]) /\ z.id = s[k].id
  <2>1. PICK z : z = LastFallback(s)
    OBVIOUS
  <2>2. /\ z \in Rule /\ IsFallback(z)
        /\ z = Fallback \/ \E k \in 1..Len(s) : IsFallback(s[k]) /\ z = s[k]
    BY <2>1, LastFallbackIsOne
  <2>3. z.id = 0 \/ \E k \in 1..Len(s) : IsFallback(s[k]) /\ z.id = s[k].id
    BY <2>2, FallbackIsOne
  <2>. QED  BY <2>1, <2>2, <2>3
<1>11. PICK u : u = f \o g \o <<z>>
  OBVIOUS
<1>12. /\ u \in Seq(Rule) /\ Len(u) = a + b + 1
       /\ \A i \in 1..a : u[i] = f[i]
       /\ \A i \in 1..b : u[a + i] = g[i]
       /\ u[a + b + 1] = z
  <2>1. PICK v : v = f \o g
    OBVIOUS
  <2>2. /\ v \in Seq(Rule) /\ Len(v) = a + b
        /\ \A i \in 1..(a + b) : v[i] = IF i <= a THEN f[i] ELSE g[i - a]
    BY <1>8, <1>9, <2>1, ConcatProperties
  <2>3. u = Append(v, z)
    BY <1>11, <2>1, <2>2, AppendIsConcat
  <2>4. /\ u \in Seq(Rule) /\ Len(u) = (a + b) + 1 /\ u[(a + b) + 1] = z
        /\ \A i \in 1..(a + b) : u[i] = v[i]
    BY <2>2, <2>3, AppendProperties
  <2>5. \A i \in 1..a : i \in 1..(a + b) /\ i <= a
    OBVIOUS
  <2>6. \A i \in 1..b : a + i \in 1..(a + b) /\ ~(a + i <= a) /\ (a + i) - a = i
    OBVIOUS
  <2>. QED  BY <2>2, <2>4, <2>5, <2>6
<1>13. /\ p \in [1..a -> 1..Len(s)]
       /\ \A i \in 1..a : f[i] = s[p[i]] /\ ~IsFallback(s[p[i]])
       /\ \A i, j \in 1..a : i < j => p[i] < p[j]
       /\ \A k \in 1..Len(s) : ~IsFallback(s[k]) => \E i \in 1..a : p[i] = k
  BY <1>0, <1>1, <1>3, <1>8 DEF Picks
<1>14. /\ q \in [1..b -> 1..Len(Builtins)]
       /\ \A i \in 1..b : g[i] = c[q[i]] /\ q[i] \in L
       /\ \A i, j \in 1..b : i < j => q[i] < q[j]
       /\ \A k \in 1..Len(Builtins) : k \in L => \E i \in 1..b : q[i] = k
  BY <1>5, <1>7, <1>9 DEF Picks
<1>15. \A k \in 1..Len(Builtins) : c[k] = NewRule(Builtins[k], "PROXY") /\ c[k].pat = Builtins[k] /\ c[k].id = 0
  BY <1>5, BuiltinRules DEF NewRule
<1>16. \A k \in 1..Len(Builtins) : k \in L <=> \A i \in 1..a : f[i].pat # Builtins[k]
  BY <1>4, <1>5, <1>8, <1>15, BuiltinRules DEF SameRulePattern
<1>17. \A i \in 1..Len(u) : i \in 1..a \/ i = a + b + 1 \/ \E j \in 1..b : i = a + j
  <2>1. ASSUME NEW i \in 1..(a + b + 1), i \notin 1..a, i # a + b + 1
        PROVE  i - a \in 1..b /\ i = a + (i - a)
    BY <2>1
  <2>2. Len(u) = a + b + 1
    BY <1>12
  <2>. QED  BY <2>1, <2>2
<1>18. ASSUME PartlyNumbered(s) PROVE PartlyNumbered(u)
  <2>1. \A i \in 1..a : u[i].id = s[p[i]].id /\ p[i] \in 1..Len(s) /\ ~IsFallback(s[p[i]])
    BY <1>12, <1>13
  <2>2. ASSUME NEW j \in 1..b PROVE u[a + j].id = 0
    <3>1. u[a + j] = c[q[j]] /\ q[j] \in 1..Len(Builtins)
      BY <1>12, <1>14
    <3>. QED  BY <1>15, <3>1
  <2>3. u[a + b + 1].id = 0 \/ \E k \in 1..Len(s) : IsFallback(s[k]) /\ u[a + b + 1].id = s[k].id
    BY <1>10, <1>12
  <2>4. \A i, j \in 1..a : p[i] = p[j] => i = j
    BY <1>13
  <2>5. ASSUME NEW i \in 1..a, NEW j \in 1..a, u[i].id = u[j].id PROVE i = j \/ u[i].id = 0
    BY <1>18, <2>1, <2>4, <2>5 DEF PartlyNumbered
  <2>6. ASSUME NEW i \in 1..a, u[i].id = u[a + b + 1].id PROVE u[i].id = 0
    BY <1>18, <2>1, <2>3, <2>6 DEF PartlyNumbered
  <2>7. ASSUME NEW i \in 1..Len(u), NEW j \in 1..Len(u), u[i].id = u[j].id, u[i].id # 0 PROVE i = j
    <3>1. (i \in 1..a \/ i = a + b + 1) /\ (j \in 1..a \/ j = a + b + 1)
      BY <1>17, <2>2, <2>7
    <3>. QED  BY <2>5, <2>6, <2>7, <3>1
  <2>. QED  BY <2>7 DEF PartlyNumbered
<1>19. PICK t : t = EnsureInvariants(s) /\ GivenTo(u, Len(u), t)
  BY <1>2, <1>6, <1>10, <1>11, <1>12, WithIdsGiven DEF EnsureInvariants
<1>20. /\ t \in Seq(Rule) /\ Len(t) = a + b + 1 /\ \A i \in 1..Len(u) : SameRule(t[i], u[i])
       /\ \A i \in 1..Len(u) : t[i].id # 0
       /\ PartlyNumbered(s) => PartlyNumbered(t)
  BY <1>12, <1>18, <1>19 DEF GivenTo, SameRules
<1>21. HasIds(t)
  BY <1>12, <1>20 DEF HasIds
<1>22. /\ \A i \in 1..a : i \in 1..Len(u)
       /\ \A i \in 1..b : a + i \in 1..Len(u)
       /\ a + b + 1 \in 1..Len(u)
  BY <1>12
<1>23. \A i \in 1..a : SameRule(t[i], s[p[i]])
  BY <1>12, <1>13, <1>20, <1>22
<1>24. \A i \in 1..b : SameRule(t[a + i], CommonDomainRules[q[i]])
  BY <1>5, <1>12, <1>14, <1>20, <1>22
<1>25. \A i \in 1..a : t[i].pat = f[i].pat
  BY <1>12, <1>20, <1>22 DEF SameRule
<1>26. \A i \in 1..b : \A j \in 1..a : t[j].pat # Builtins[q[i]]
  BY <1>14, <1>16, <1>25
<1>27. \A k \in 1..Len(Builtins) : (\E i \in 1..a : t[i].pat = Builtins[k]) \/ \E i \in 1..b : q[i] = k
  BY <1>14, <1>16, <1>25
<1>28. SameRule(t[a + b + 1], LastFallback(s))
  BY <1>10, <1>12, <1>20, <1>22
<1>29. Rebuilt(s, t, a, b, p, q)
  BY <1>13, <1>14, <1>20, <1>23, <1>24, <1>26, <1>27, <1>28 DEF Rebuilt
<1>. QED  BY <1>19, <1>20, <1>21, <1>29

-----------------------------------------------------------------------------
(* The list after a call: every rule with an id, MATCH,DIRECT once and last, *)
(* and a rule for every built-in domain.                                     *)
EndsInFallback(s) == Len(s) # 0 /\ \A i \in 1..Len(s) : IsFallback(s[i]) <=> i = Len(s)
HasBuiltins(s) == \A k \in 1..Len(Builtins) : \E i \in 1..Len(s) : s[i].pat = Builtins[k]
WellFormed(s) == s \in Seq(Rule) /\ HasIds(s) /\ EndsInFallback(s) /\ HasBuiltins(s)

LEMMA EnsureWellFormed ==
  ASSUME NEW s \in Seq(Rule)
  PROVE  WellFormed(EnsureInvariants(s))
<1>1. PICK t : t = EnsureInvariants(s)
  OBVIOUS
<1>2. HasIds(t)
  BY <1>1, EnsureRebuilds
<1>3. PICK a \in Nat, b \in Nat : \E p, q : Rebuilt(s, t, a, b, p, q)
  BY <1>1, EnsureRebuilds
<1>3a. PICK p, q : Rebuilt(s, t, a, b, p, q)
  BY <1>3
<1>4. t \in Seq(Rule) /\ Len(t) = a + b + 1
  BY <1>3a DEF Rebuilt
<1>5. \A i \in 1..Len(t) : i \in 1..a \/ i = a + b + 1 \/ \E j \in 1..b : i = a + j
  <2>1. ASSUME NEW i \in 1..Len(t), i \notin 1..a, i # a + b + 1 PROVE i - a \in 1..b /\ i = a + (i - a)
    BY <1>4, <2>1
  <2>. QED  BY <2>1
<1>6. ASSUME NEW i \in 1..a PROVE ~IsFallback(t[i])
  <2>1. SameRule(t[i], s[p[i]]) /\ ~IsFallback(s[p[i]])
    BY <1>3a DEF Rebuilt
  <2>. QED  BY <2>1 DEF SameRule, IsFallback
<1>7. ASSUME NEW j \in 1..b PROVE t[a + j].pat = Builtins[q[j]] /\ t[a + j].pat # MATCH
  <2>1. q[j] \in 1..Len(Builtins) /\ SameRule(t[a + j], CommonDomainRules[q[j]])
    BY <1>3a DEF Rebuilt
  <2>. QED  BY <2>1, BuiltinRule DEF SameRule
<1>8. IsFallback(t[a + b + 1])
  BY <1>3a, LastFallbackIsOne DEF Rebuilt, SameRule, IsFallback
<1>9. a + b + 1 \notin 1..a /\ \A j \in 1..b : a + j # a + b + 1
  OBVIOUS
<1>10. EndsInFallback(t)
  <2>1. \A j \in 1..b : ~IsFallback(t[a + j])
    BY <1>7 DEF IsFallback
  <2>2. ASSUME NEW i \in 1..Len(t) PROVE IsFallback(t[i]) <=> i = Len(t)
    <3>1. CASE i \in 1..a
      BY <1>4, <1>6, <1>9, <3>1
    <3>2. CASE i = a + b + 1
      BY <1>4, <1>8, <3>2
    <3>3. CASE \E j \in 1..b : i = a + j
      <4>1. PICK j \in 1..b : i = a + j
        BY <3>3
      <4>. QED  BY <1>4, <1>9, <2>1, <4>1
    <3>. QED  BY <1>5, <3>1, <3>2, <3>3
  <2>. QED  BY <1>4, <2>2 DEF EndsInFallback
<1>11. HasBuiltins(t)
  <2> SUFFICES ASSUME NEW k \in 1..Len(Builtins) PROVE \E i \in 1..Len(t) : t[i].pat = Builtins[k]
    BY DEF HasBuiltins
  <2>1. CASE \E i \in 1..a : t[i].pat = Builtins[k]
    <3>1. \A i \in 1..a : i \in 1..Len(t)
      BY <1>4
    <3>. QED  BY <2>1, <3>1
  <2>2. CASE \E j \in 1..b : q[j] = k
    <3>1. \A j \in 1..b : a + j \in 1..Len(t)
      BY <1>4
    <3>. QED  BY <1>7, <2>2, <3>1
  <2>. QED  BY <1>3a, <2>1, <2>2 DEF Rebuilt
<1>. QED  BY <1>1, <1>2, <1>4, <1>10, <1>11 DEF WellFormed

LeavesOut(K, n) == \A k \in 1..n : k \in K <=> k # n
AgreesTo(t, s, m) == Len(t) = m /\ \A i \in 1..m : t[i] = s[i]

LEMMA KeepAllButLast ==
  ASSUME NEW S, NEW s \in Seq(S), NEW K, NEW m \in Nat, Len(s) = m + 1, LeavesOut(K, m + 1)
  PROVE  Keep(s, K) \in Seq(S) /\ AgreesTo(Keep(s, K), s, m)
<1>1. PICK f \in [0..Len(s) -> Seq(S)] : Keep(s, K) = f[Len(s)] /\ KeptBy(s, K, f)
  BY KeepSteps
<1> DEFINE T == {n \in Nat : n <= m => Len(f[n]) = n /\ \A i \in 1..n : f[n][i] = s[i]}
<1>2. 0 \in T
  <2>1. f[0] = << >> /\ Len(f[0]) = 0
    BY <1>1, EmptySeq DEF KeptBy
  <2>. QED  BY <2>1
<1>3. ASSUME NEW n \in Nat, n \in T PROVE n + 1 \in T
  <2> SUFFICES ASSUME n + 1 <= m
               PROVE  Len(f[n + 1]) = n + 1 /\ \A i \in 1..(n + 1) : f[n + 1][i] = s[i]
    OBVIOUS
  <2>1. n \in 0..Len(s) /\ n + 1 \in 1..Len(s) /\ (n + 1) - 1 = n /\ n + 1 \in K
    BY DEF LeavesOut
  <2>2. PICK t \in Seq(S) : t = f[n]
    BY <2>1
  <2>3. f[n + 1] = Append(t, s[n + 1])
    BY <1>1, <2>1, <2>2 DEF KeptBy
  <2>4. Len(t) = n /\ \A i \in 1..n : t[i] = s[i]
    BY <1>3, <2>1, <2>2
  <2>5. s[n + 1] \in S
    BY <2>1, ElementOfSeq
  <2>6. /\ Len(f[n + 1]) = n + 1 /\ f[n + 1][n + 1] = s[n + 1]
        /\ \A i \in 1..n : f[n + 1][i] = t[i]
    BY <2>3, <2>4, <2>5, AppendProperties
  <2>7. \A i \in 1..(n + 1) : i = n + 1 \/ i \in 1..n
    OBVIOUS
  <2>. QED  BY <2>4, <2>6, <2>7
<1>. HIDE DEF T
<1>4. m \in T
  BY <1>2, <1>3, Induction
<1>5. Len(f[m]) = m /\ \A i \in 1..m : f[m][i] = s[i]
  BY <1>4 DEF T
<1>6. f[m + 1] = f[m]
  <2>1. m + 1 \in 1..Len(s) /\ m + 1 \notin K /\ (m + 1) - 1 = m
    BY DEF LeavesOut
  <2>. QED  BY <1>1, <2>1 DEF KeptBy
<1>. QED  BY <1>1, <1>5, <1>6 DEF AgreesTo

(* The rewriting leaves a list that it has written alone.                    *)
LEMMA EnsureKeeps ==
  ASSUME NEW s, WellFormed(s)
  PROVE  EnsureInvariants(s) = s
<1>1. s \in Seq(Rule) /\ HasIds(s) /\ EndsInFallback(s) /\ HasBuiltins(s)
  BY DEF WellFormed
<1>2. PICK m \in Nat : Len(s) = m + 1
  <2>1. Len(s) \in Nat /\ Len(s) # 0
    BY <1>1, LenProperties DEF EndsInFallback
  <2>2. Len(s) - 1 \in Nat /\ Len(s) = (Len(s) - 1) + 1
    BY <2>1
  <2>. QED  BY <2>2
<1>3. PICK K : K = {i \in DOMAIN s : ~IsFallback(s[i])}
  OBVIOUS
<1>4. LeavesOut(K, m + 1)
  <2>1. DOMAIN s = 1..(m + 1)
    BY <1>1, <1>2, LenProperties
  <2>. QED  BY <1>1, <1>2, <1>3, <2>1 DEF EndsInFallback, LeavesOut
<1>5. PICK f \in Seq(Rule) : f = WithoutFallback(s) /\ Len(f) = m /\ \A i \in 1..m : f[i] = s[i]
  <2>1. PICK f : f = Keep(s, K)
    OBVIOUS
  <2>2. f = WithoutFallback(s)
    BY <1>3, <2>1 DEF WithoutFallback
  <2>3. f \in Seq(Rule) /\ AgreesTo(f, s, m)
    BY <1>1, <1>2, <1>4, <2>1, KeepAllButLast
  <2>. QED  BY <2>2, <2>3 DEF AgreesTo
<1>6. PICK c \in Seq(Rule) : c = CommonDomainRules /\ Len(c) = Len(Builtins)
  BY BuiltinRules
<1>7. PICK L : L = {b \in DOMAIN Builtins : \A i \in DOMAIN f : ~SameRulePattern(f[i], CommonDomainRules[b])}
  OBVIOUS
<1>8. L = {}
  <2> SUFFICES ASSUME NEW b \in DOMAIN Builtins
               PROVE  \E i \in DOMAIN f : SameRulePattern(f[i], CommonDomainRules[b])
    BY <1>7
  <2>1. b \in 1..Len(Builtins)
    BY BuiltinRules
  <2>2. PICK i \in 1..(m + 1) : s[i].pat = Builtins[b]
    BY <1>1, <1>2, <2>1 DEF HasBuiltins
  <2>3. CommonDomainRules[b].pat = Builtins[b] /\ Builtins[b] # MATCH
    BY <2>1, BuiltinRule
  <2>4. i # m + 1
    BY <1>1, <1>2, <2>2, <2>3 DEF EndsInFallback, IsFallback
  <2>5. i \in 1..m /\ i \in DOMAIN f
    BY <1>5, <2>4, LenProperties
  <2>. QED  BY <1>5, <2>2, <2>3, <2>5 DEF SameRulePattern
<1>9. PICK g \in Seq(Rule) : g = MissingFrom(f) /\ \E q : Picks(g, c, L, Len(c), q)
  BY <1>6, <1>7, KeepPicks DEF MissingFrom
<1>10. g = << >>
  <2>1. PICK q : Picks(g, c, L, Len(c), q)
    BY <1>9
  <2>2. Len(g) \in Nat
    BY LenProperties
  <2>3. q \in [1..Len(g) -> {}]
    BY <1>8, <2>1 DEF Picks
  <2>4. 1 \notin 1..Len(g)
    BY <2>3
  <2>5. Len(g) = 0
    BY <2>2, <2>4
  <2>. QED  BY <2>5, EmptySeq
<1>11. PICK z \in Rule : z = LastFallback(s) /\ z = s[m + 1]
  <2>1. m + 1 \in 1..Len(s)
    BY <1>2
  <2>2. s[m + 1] \in Rule
    BY <1>1, <2>1, ElementOfSeq
  <2>3. LastFallback(s) = s[m + 1]
    BY <1>1, <1>2, <2>1, LastFallbackIsOne DEF EndsInFallback
  <2>. QED  BY <2>2, <2>3
<1>12. f \o g \o <<z>> = s
  <2>1. f \o g = f
    BY <1>10, ConcatEmptySeq
  <2>2. PICK u : u = Append(f, z)
    OBVIOUS
  <2>3. f \o g \o <<z>> = u
    BY <2>1, <2>2, AppendIsConcat
  <2>4. /\ u \in Seq(Rule) /\ Len(u) = m + 1 /\ u[m + 1] = z
        /\ \A i \in 1..m : u[i] = f[i]
    BY <1>5, <2>2, AppendProperties
  <2>5. \A i \in 1..(m + 1) : i = m + 1 \/ i \in 1..m
    OBVIOUS
  <2>6. \A i \in 1..(m + 1) : u[i] = s[i]
    BY <1>5, <1>11, <2>4, <2>5
  <2>7. u = s
    BY <1>1, <1>2, <2>4, <2>6, SeqEqual
  <2>. QED  BY <2>3, <2>7
<1>13. WithIds(s) = s
  <2>1. GivenTo(s, Len(s), WithIds(s))
    BY <1>1, WithIdsGiven
  <2>. QED  BY <1>1, <2>1 DEF GivenTo, HasIds
<1>. QED  BY <1>5, <1>9, <1>11, <1>12, <1>13 DEF EnsureInvariants

-----------------------------------------------------------------------------
(* No two rules with one id, no two equivalent rules.                        *)
LEMMA NumberedByPosition ==
  ASSUME NEW s \in Seq(Rule)
  PROVE  /\ Numbered(s) <=> \A i, j \in 1..Len(s) : s[i].id = s[j].id => i = j
         /\ Numbered(s) => PartlyNumbered(s)
         /\ HasIds(s) /\ PartlyNumbered(s) => Numbered(s)
<1>1. DOMAIN s = 1..Len(s)
  BY LenProperties
<1>. QED  BY <1>1 DEF Numbered, PartlyNumbered, HasIds

LEMMA NoTwinsByPosition ==
  ASSUME NEW s \in Seq(Rule)
  PROVE  NoTwins(s) <=> \A i, j \in 1..Len(s) : EquivalentRule(s[i], s[j]) => i = j
<1>1. DOMAIN s = 1..Len(s)
  BY LenProperties
<1>. QED  BY <1>1 DEF NoTwins

(* What no call of the window may make worse in t than it was in s.          *)
NoWorse(s, t) == Numbered(s) => Numbered(t) /\ (NoTwins(s) => NoTwins(t))

LEMMA EnsureNoTwins ==
  ASSUME NEW s \in Seq(Rule), NoTwins(s)
  PROVE  NoTwins(EnsureInvariants(s))
<1>1. PICK t : t = EnsureInvariants(s)
  OBVIOUS
<1>2. PICK a \in Nat, b \in Nat : \E p, q : Rebuilt(s, t, a, b, p, q)
  BY <1>1, EnsureRebuilds
<1>2a. PICK p, q : Rebuilt(s, t, a, b, p, q)
  BY <1>2
<1>3. t \in Seq(Rule) /\ Len(t) = a + b + 1
  BY <1>2a DEF Rebuilt
<1>4. \A i \in 1..Len(t) : i \in 1..a \/ i = a + b + 1 \/ \E j \in 1..b : i = a + j
  <2>1. ASSUME NEW i \in 1..Len(t), i \notin 1..a, i # a + b + 1 PROVE i - a \in 1..b /\ i = a + (i - a)
    BY <1>3, <2>1
  <2>. QED  BY <2>1
<1>5. ASSUME NEW i \in 1..a
      PROVE  p[i] \in 1..Len(s) /\ SameRule(t[i], s[p[i]]) /\ ~IsFallback(t[i])
  <2>1. p[i] \in 1..Len(s) /\ SameRule(t[i], s[p[i]]) /\ ~IsFallback(s[p[i]])
    BY <1>2a DEF Rebuilt
  <2>. QED  BY <2>1 DEF SameRule, IsFallback
<1>6. ASSUME NEW j \in 1..b
      PROVE  /\ q[j] \in 1..Len(Builtins) /\ t[a + j].pat = Builtins[q[j]] /\ ~IsFallback(t[a + j])
             /\ \A i \in 1..a : t[i].pat # t[a + j].pat
  <2>1. /\ q[j] \in 1..Len(Builtins) /\ SameRule(t[a + j], CommonDomainRules[q[j]])
        /\ \A i \in 1..a : t[i].pat # Builtins[q[j]]
    BY <1>2a DEF Rebuilt
  <2>2. t[a + j].pat = Builtins[q[j]] /\ Builtins[q[j]] # MATCH
    BY <2>1, BuiltinRule DEF SameRule
  <2>. QED  BY <2>1, <2>2 DEF IsFallback
<1>7. IsFallback(t[a + b + 1])
  BY <1>2a, LastFallbackIsOne DEF Rebuilt, SameRule, IsFallback
<1>8. ASSUME NEW i \in 1..a, NEW j \in 1..a, EquivalentRule(t[i], t[j]) PROVE i = j
  <2>1. EquivalentRule(s[p[i]], s[p[j]])
    BY <1>5, <1>8 DEF SameRule, EquivalentRule, SameRulePattern
  <2>2. p[i] = p[j] /\ p[i] \in Int
    <3>1. p[i] \in 1..Len(s) /\ p[j] \in 1..Len(s)
      BY <1>5
    <3>. QED  BY <2>1, <3>1, NoTwinsByPosition
  <2>3. ~(i < j) /\ ~(j < i)
    BY <1>2a, <2>2 DEF Rebuilt
  <2>. QED  BY <2>3
<1>9. ASSUME NEW i \in 1..b, NEW j \in 1..b, EquivalentRule(t[a + i], t[a + j]) PROVE i = j
  <2>1. Builtins[q[i]] = Builtins[q[j]]
    BY <1>6, <1>9 DEF EquivalentRule, SameRulePattern
  <2>2. q[i] = q[j] /\ q[i] \in Int
    <3>1. q[i] \in 1..Len(Builtins) /\ q[j] \in 1..Len(Builtins)
      BY <1>6
    <3>2. q[i] = q[j]
      BY <2>1, <3>1, BuiltinRules
    <3>. QED  BY <3>1, <3>2, BuiltinRules
  <2>3. ~(i < j) /\ ~(j < i)
    BY <1>2a, <2>2 DEF Rebuilt
  <2>. QED  BY <2>3
<1>10. ASSUME NEW x, NEW y, EquivalentRule(x, y) PROVE IsFallback(x) <=> IsFallback(y)
  BY <1>10 DEF EquivalentRule, SameRulePattern, IsFallback
<1>11. ASSUME NEW i \in 1..Len(t), NEW j \in 1..Len(t), EquivalentRule(t[i], t[j]) PROVE i = j
  <2>1. CASE i = a + b + 1 \/ j = a + b + 1
    <3>1. IsFallback(t[i]) /\ IsFallback(t[j])
      BY <1>7, <1>10, <1>11, <2>1
    <3>. QED  BY <1>4, <1>5, <1>6, <3>1
  <2>2. CASE i \in 1..a /\ j \in 1..a
    BY <1>8, <1>11, <2>2
  <2>3. CASE \E k, l \in 1..b : i = a + k /\ j = a + l
    BY <1>9, <1>11, <2>3
  <2>4. CASE (i \in 1..a /\ \E k \in 1..b : j = a + k) \/ (j \in 1..a /\ \E k \in 1..b : i = a + k)
    BY <1>6, <1>11, <2>4 DEF EquivalentRule, SameRulePattern
  <2>. QED  BY <1>4, <2>1, <2>2, <2>3, <2>4
<1>. QED  BY <1>1, <1>3, <1>11, NoTwinsByPosition

LEMMA EnsureNoWorse ==
  ASSUME NEW s \in Seq(Rule)
  PROVE  NoWorse(s, EnsureInvariants(s))
<1>1. ASSUME Numbered(s) PROVE Numbered(EnsureInvariants(s))
  BY <1>1, NumberedByPosition, EnsureRebuilds, EnsureWellFormed DEF WellFormed
<1>. QED  BY <1>1, EnsureNoTwins DEF NoWorse

(* Rules left out: what stays has its ids and no twin that was not there.    *)
LEMMA KeepKeeps ==
  ASSUME NEW s \in Seq(Rule), NEW K
  PROVE  Keep(s, K) \in Seq(Rule) /\ NoWorse(s, Keep(s, K))
<1>1. PICK t \in Seq(Rule) : t = Keep(s, K) /\ \E p : Picks(t, s, K, Len(s), p)
  BY KeepPicks
<1>2. PICK p : Picks(t, s, K, Len(s), p)
  BY <1>1
<1>3. Len(t) \in Nat /\ Len(s) \in Nat
  BY LenProperties
<1>4. \A j \in 1..Len(t) : p[j] \in 1..Len(s) /\ t[j] = s[p[j]]
  BY <1>2 DEF Picks
<1>5. ASSUME NEW i \in 1..Len(t), NEW j \in 1..Len(t), p[i] = p[j] PROVE i = j
  <2>1. ~(i < j) /\ ~(j < i)
    BY <1>2, <1>3, <1>4, <1>5 DEF Picks
  <2>. QED  BY <1>3, <2>1
<1>6. ASSUME Numbered(s) PROVE Numbered(t)
  <2>1. ASSUME NEW i \in 1..Len(t), NEW j \in 1..Len(t), t[i].id = t[j].id PROVE i = j
    <3>1. s[p[i]].id = s[p[j]].id /\ p[i] \in 1..Len(s) /\ p[j] \in 1..Len(s)
      BY <1>4, <2>1
    <3>2. p[i] = p[j]
      BY <1>6, <3>1, NumberedByPosition
    <3>. QED  BY <1>5, <3>2
  <2>. QED  BY <2>1, NumberedByPosition
<1>7. ASSUME NoTwins(s) PROVE NoTwins(t)
  <2>1. ASSUME NEW i \in 1..Len(t), NEW j \in 1..Len(t), EquivalentRule(t[i], t[j]) PROVE i = j
    <3>1. EquivalentRule(s[p[i]], s[p[j]]) /\ p[i] \in 1..Len(s) /\ p[j] \in 1..Len(s)
      BY <1>4, <2>1
    <3>2. p[i] = p[j]
      BY <1>7, <3>1, NoTwinsByPosition
    <3>. QED  BY <1>5, <3>2
  <2>. QED  BY <2>1, NoTwinsByPosition
<1>. QED  BY <1>1, <1>6, <1>7 DEF NoWorse

LEMMA SwapKeeps ==
  ASSUME NEW s \in Seq(Rule), NEW i \in 1..Len(s), NEW j \in 1..Len(s)
  PROVE  Swap(s, i, j) \in Seq(Rule) /\ NoWorse(s, Swap(s, i, j))
<1>1. PICK n \in Nat : n = Len(s)
  BY LenProperties
<1>2. s[i] \in Rule /\ s[j] \in Rule
  BY ElementOfSeq
<1>3. PICK u : u = [s EXCEPT ![i] = s[j]]
  OBVIOUS
<1>4. u \in Seq(Rule) /\ Len(u) = n /\ \A k \in 1..n : u[k] = IF k = i THEN s[j] ELSE s[k]
  BY <1>1, <1>2, <1>3, ExceptSeq
<1>5. PICK t : t = [u EXCEPT ![j] = s[i]]
  OBVIOUS
<1>6. t \in Seq(Rule) /\ Len(t) = n /\ \A k \in 1..n : t[k] = IF k = j THEN s[i] ELSE u[k]
  BY <1>1, <1>2, <1>4, <1>5, ExceptSeq
<1>7. t = Swap(s, i, j)
  BY <1>3, <1>5 DEF Swap
<1>8. PICK p : p = [k \in 1..n |-> IF k = j THEN i ELSE IF k = i THEN j ELSE k]
  OBVIOUS
<1>9. \A k \in 1..n : p[k] \in 1..n /\ t[k] = s[p[k]]
  BY <1>1, <1>4, <1>6, <1>8
<1>10. \A k, l \in 1..n : p[k] = p[l] => k = l
  BY <1>1, <1>8
<1>11. ASSUME Numbered(s) PROVE Numbered(t)
  <2>1. ASSUME NEW k \in 1..n, NEW l \in 1..n, t[k].id = t[l].id PROVE k = l
    <3>1. s[p[k]].id = s[p[l]].id /\ p[k] \in 1..n /\ p[l] \in 1..n
      BY <1>9, <2>1
    <3>2. p[k] = p[l]
      BY <1>1, <1>11, <3>1, NumberedByPosition
    <3>. QED  BY <1>10, <3>2
  <2>. QED  BY <1>6, <2>1, NumberedByPosition
<1>12. ASSUME NoTwins(s) PROVE NoTwins(t)
  <2>1. ASSUME NEW k \in 1..n, NEW l \in 1..n, EquivalentRule(t[k], t[l]) PROVE k = l
    <3>1. EquivalentRule(s[p[k]], s[p[l]]) /\ p[k] \in 1..n /\ p[l] \in 1..n
      BY <1>9, <2>1
    <3>2. p[k] = p[l]
      BY <1>1, <1>12, <3>1, NoTwinsByPosition
    <3>. QED  BY <1>10, <3>2
  <2>. QED  BY <1>6, <2>1, NoTwinsByPosition
<1>. QED  BY <1>6, <1>7, <1>11, <1>12 DEF NoWorse

-----------------------------------------------------------------------------
(* One rule of a form applied.  It takes the place of the rule with its id,  *)
(* the others equivalent to it go; t[j] was at p[j].                         *)
Replaced(s, t, r, k, p) ==
  /\ k \in 1..Len(s) /\ s[k].id = r.id /\ r.id # 0
  /\ t \in Seq(Rule) /\ p \in [1..Len(t) -> 1..Len(s)]
  /\ \A i, j \in 1..Len(t) : i < j => p[i] < p[j]
  /\ \A j \in 1..Len(t) : t[j] = IF p[j] = k THEN r ELSE s[p[j]]
  /\ Numbered(s) => \A j \in 1..Len(t) : p[j] = k \/ ~EquivalentRule(s[p[j]], r)
  /\ \A i \in 1..Len(s) : i = k \/ ~EquivalentRule(s[i], r) => \E j \in 1..Len(t) : p[j] = i

(* Or a rule equivalent to it is switched. *)
Switched(s, t, r, k) ==
  /\ k \in 1..Len(s) /\ EquivalentRule(s[k], r)
  /\ t \in Seq(Rule) /\ Len(t) = Len(s)
  /\ \A i \in 1..Len(s) : /\ t[i].id = s[i].id /\ t[i].pat = s[i].pat /\ t[i].target = s[i].target
                          /\ t[i].on = IF i = k THEN r.on ELSE s[i].on

(* Or it is added before the last rule, as x. *)
Added(s, t, r, x) ==
  /\ x \in Rule /\ SameRule(x, r) /\ x.id # 0
  /\ \A i \in 1..Len(s) : s[i].id # x.id /\ ~EquivalentRule(s[i], r)
  /\ t \in Seq(Rule) /\ Len(t) = Len(s) + 1
  /\ \A i \in 1..(Len(s) - 1) : t[i] = s[i]
  /\ t[Len(s)] = x /\ t[Len(s) + 1] = s[Len(s)]

ChangedBy(s, t, r) ==
  \/ \E k, p : Replaced(s, t, r, k, p)
  \/ \E k : Switched(s, t, r, k)
  \/ \E x : Added(s, t, r, x)

LEMMA ReplaceCase ==
  ASSUME NEW s \in Seq(Rule), NEW r \in Rule, r.id # 0,
         NEW k \in 1..Len(s), s[k].id = r.id
  PROVE  \E p : Replaced(s, MergeDuplicateRules(ReplaceAt(s, k, r), r), r, k, p)
<1>1. PICK u : u = ReplaceAt(s, k, r)
  OBVIOUS
<1>2. u \in Seq(Rule) /\ Len(u) = Len(s) /\ \A i \in 1..Len(s) : u[i] = IF i = k THEN r ELSE s[i]
  BY <1>1, ExceptSeq DEF ReplaceAt
<1>3. PICK K : K = {i \in DOMAIN u : u[i].id = r.id \/ ~EquivalentRule(u[i], r)}
  OBVIOUS
<1>4. DOMAIN u = 1..Len(s)
  BY <1>2, LenProperties
<1>5. ASSUME NEW i \in 1..Len(s)
      PROVE  /\ i = k \/ ~EquivalentRule(s[i], r) => i \in K
             /\ Numbered(s) /\ i \in K => i = k \/ ~EquivalentRule(s[i], r)
  <2>1. CASE i = k
    BY <1>2, <1>3, <1>4, <2>1
  <2>2. CASE i # k
    <3>1. u[i] = s[i] /\ (Numbered(s) => s[i].id # r.id)
      BY <1>2, <2>2, NumberedByPosition
    <3>. QED  BY <1>3, <1>4, <2>2, <3>1
  <2>. QED  BY <2>1, <2>2
<1>6. PICK t \in Seq(Rule) : t = Keep(u, K) /\ \E p : Picks(t, u, K, Len(u), p)
  BY <1>2, KeepPicks
<1>7. PICK p : Picks(t, u, K, Len(u), p)
  BY <1>6
<1>8. t = MergeDuplicateRules(u, r)
  BY <1>3, <1>6 DEF MergeDuplicateRules
<1>9. /\ p \in [1..Len(t) -> 1..Len(s)]
      /\ \A j \in 1..Len(t) : p[j] \in K /\ t[j] = u[p[j]]
      /\ \A i, j \in 1..Len(t) : i < j => p[i] < p[j]
      /\ \A i \in 1..Len(s) : i \in K => \E j \in 1..Len(t) : p[j] = i
  BY <1>2, <1>7 DEF Picks
<1>10. ASSUME NEW j \in 1..Len(t)
       PROVE  /\ t[j] = IF p[j] = k THEN r ELSE s[p[j]]
              /\ Numbered(s) => p[j] = k \/ ~EquivalentRule(s[p[j]], r)
  <2>1. p[j] \in 1..Len(s) /\ p[j] \in K /\ t[j] = u[p[j]]
    BY <1>9
  <2>. QED  BY <1>2, <1>5, <2>1
<1>11. Replaced(s, t, r, k, p)
  BY <1>5, <1>6, <1>9, <1>10 DEF Replaced
<1>. QED  BY <1>1, <1>8, <1>11

LEMMA SwitchCase ==
  ASSUME NEW s \in Seq(Rule), NEW r \in Rule, NEW k \in 1..Len(s), EquivalentRule(s[k], r)
  PROVE  Switched(s, Switch(s, k, r), r, k)
<1>1. s[k] \in Rule /\ r.on \in BOOLEAN
  BY ElementOfSeq, RuleFields
<1>2. PICK x : x = [s[k] EXCEPT !.on = r.on]
  OBVIOUS
<1>3. /\ x \in Rule /\ x.id = s[k].id /\ x.pat = s[k].pat /\ x.target = s[k].target /\ x.on = r.on
  BY <1>1, <1>2 DEF Rule
<1>4. Switch(s, k, r) = [s EXCEPT ![k] = x]
  BY <1>2 DEF Switch
<1>5. PICK t : t = [s EXCEPT ![k] = x]
  OBVIOUS
<1>6. t \in Seq(Rule) /\ Len(t) = Len(s) /\ \A i \in 1..Len(s) : t[i] = IF i = k THEN x ELSE s[i]
  BY <1>3, <1>5, ExceptSeq
<1>. QED  BY <1>3, <1>4, <1>5, <1>6 DEF Switched

LEMMA AddCase ==
  ASSUME NEW s \in Seq(Rule), Len(s) # 0, NEW r \in Rule, NEW x \in Rule, SameRule(x, r), x.id # 0,
         \A i \in 1..Len(s) : s[i].id # x.id /\ ~EquivalentRule(s[i], r)
  PROVE  Added(s, InsertAt(s, Len(s), x), r, x)
<1>1. PICK m \in Nat : Len(s) = m + 1
  <2>1. Len(s) \in Nat
    BY LenProperties
  <2>2. Len(s) - 1 \in Nat /\ Len(s) = (Len(s) - 1) + 1
    BY <2>1
  <2>. QED  BY <2>2
<1>2. \A i \in 1..(m + 1) : s[i] \in Rule
  BY <1>1, ElementOfSeq
<1>3. PICK f : f = SubSeq(s, 1, m)
  OBVIOUS
<1>4. f \in Seq(Rule) /\ Len(f) = m /\ \A i \in 1..m : f[i] = s[i]
  <2>1. \A i \in 1..m : s[i] \in Rule
    BY <1>2
  <2>. QED  BY <1>3, <2>1, SubSeqProperties
<1>5. PICK g : g = SubSeq(s, m + 1, m + 1)
  OBVIOUS
<1>6. g \in Seq(Rule) /\ Len(g) = 1 /\ g[1] = s[m + 1]
  <2>1. PICK n \in Nat : n = m + 1
    OBVIOUS
  <2>2. \A i \in n..n : s[i] \in Rule
    BY <1>2, <2>1
  <2>3. n <= n /\ n - n + 1 = 1 /\ 1 \in 1..(n - n + 1) /\ n + 1 - 1 = n
    OBVIOUS
  <2>4. g \in Seq(Rule) /\ Len(g) = n - n + 1 /\ g[1] = s[n + 1 - 1]
    BY <1>5, <2>1, <2>2, <2>3, SubSeqProperties
  <2>. QED  BY <2>1, <2>3, <2>4
<1>7. PICK u : u = f \o <<x>>
  OBVIOUS
<1>8. u \in Seq(Rule) /\ Len(u) = m + 1 /\ u[m + 1] = x /\ \A i \in 1..m : u[i] = f[i]
  <2>1. u = Append(f, x)
    BY <1>4, <1>7, AppendIsConcat
  <2>. QED  BY <1>4, <2>1, AppendProperties
<1>9. PICK t : t = u \o g
  OBVIOUS
<1>10. /\ t \in Seq(Rule) /\ Len(t) = (m + 1) + 1
       /\ \A i \in 1..((m + 1) + 1) : t[i] = IF i <= m + 1 THEN u[i] ELSE g[i - (m + 1)]
  <2>1. /\ t \in Seq(Rule) /\ Len(t) = Len(u) + Len(g)
        /\ \A i \in 1..Len(u) + Len(g) : t[i] = IF i <= Len(u) THEN u[i] ELSE g[i - Len(u)]
    BY <1>6, <1>8, <1>9, ConcatProperties, Zenon
  <2>. QED  BY <1>6, <1>8, <2>1
<1>11. \A i \in 1..m : t[i] = s[i]
  <2>1. \A i \in 1..m : i \in 1..((m + 1) + 1) /\ i <= m + 1
    OBVIOUS
  <2>. QED  BY <1>4, <1>8, <1>10, <2>1
<1>12. t[m + 1] = x
  <2>1. m + 1 \in 1..((m + 1) + 1) /\ m + 1 <= m + 1
    OBVIOUS
  <2>. QED  BY <1>8, <1>10, <2>1
<1>13. t[(m + 1) + 1] = s[m + 1]
  <2>1. (m + 1) + 1 \in 1..((m + 1) + 1) /\ ~((m + 1) + 1 <= m + 1) /\ ((m + 1) + 1) - (m + 1) = 1
    OBVIOUS
  <2>. QED  BY <1>6, <1>10, <2>1
<1>14. t = InsertAt(s, Len(s), x)
  <2>1. (m + 1) - 1 = m
    OBVIOUS
  <2>. QED  BY <1>1, <1>3, <1>5, <1>7, <1>9, <2>1 DEF InsertAt
<1>15. Len(s) - 1 = m
  BY <1>1
<1>. QED  BY <1>1, <1>10, <1>11, <1>12, <1>13, <1>14, <1>15 DEF Added

LEMMA ChangeCases ==
  ASSUME NEW s \in Seq(Rule), Len(s) # 0, NEW r \in Rule
  PROVE  ChangedBy(s, ApplyRuleChange(s, r), r)
<1>0. Len(s) \in Nat /\ \A i \in 1..Len(s) : s[i] \in Rule
  BY LenProperties, ElementOfSeq
<1>1. PICK I : I = {i \in 1..Len(s) : s[i].id = r.id /\ r.id # 0}
  OBVIOUS
<1>2. PICK J : J = {i \in 1..Len(s) : EquivalentRule(s[i], r)}
  OBVIOUS
<1>3. PICK byId : byId = IF I # {} THEN Min(I) ELSE 0
  OBVIOUS
<1>4. PICK same : same = IF J # {} THEN Min(J) ELSE 0
  OBVIOUS
<1>5. PICK x : x = IF r.id = 0 THEN [r EXCEPT !.id = NewId(s)] ELSE r
  OBVIOUS
<1>6. ApplyRuleChange(s, r) =
        CASE byId # 0 -> MergeDuplicateRules(ReplaceAt(s, byId, r), r)
          [] byId = 0 /\ same # 0 -> Switch(s, same, r)
          [] byId = 0 /\ same = 0 -> InsertAt(s, Len(s), x)
  BY <1>1, <1>2, <1>3, <1>4, <1>5, Zenon DEF ApplyRuleChange, SelectInSeq
<1>7. IF I # {} THEN byId \in I ELSE byId = 0
  <2>1. I \in SUBSET (1..Len(s))
    BY <1>1
  <2>. QED  BY <1>0, <1>3, <2>1, FirstOfSet
<1>8. IF J # {} THEN same \in J ELSE same = 0
  <2>1. J \in SUBSET (1..Len(s))
    BY <1>2
  <2>. QED  BY <1>0, <1>4, <2>1, FirstOfSet
<1>9. (byId # 0 => byId \in I) /\ (same # 0 => same \in J)
  BY <1>7, <1>8
<1>10. 0 \notin I /\ 0 \notin J
  BY <1>1, <1>2
<1>11. CASE byId # 0
  <2>1. byId \in 1..Len(s) /\ s[byId].id = r.id /\ r.id # 0
    BY <1>1, <1>9, <1>11
  <2>2. ApplyRuleChange(s, r) = MergeDuplicateRules(ReplaceAt(s, byId, r), r)
    BY <1>6, <1>11
  <2>. QED  BY <2>1, <2>2, ReplaceCase DEF ChangedBy
<1>12. CASE byId = 0 /\ same # 0
  <2>1. same \in 1..Len(s) /\ EquivalentRule(s[same], r)
    BY <1>2, <1>9, <1>12
  <2>2. ApplyRuleChange(s, r) = Switch(s, same, r)
    BY <1>6, <1>12
  <2>. QED  BY <2>1, <2>2, SwitchCase DEF ChangedBy
<1>13. CASE byId = 0 /\ same = 0
  <2>1. I = {} /\ J = {}
    BY <1>7, <1>8, <1>10, <1>13
  <2>2. ApplyRuleChange(s, r) = InsertAt(s, Len(s), x)
    BY <1>6, <1>13
  <2>3. x \in Rule /\ SameRule(x, r) /\ x.id # 0 /\ \A i \in 1..Len(s) : s[i].id # x.id
    <3>1. CASE r.id = 0
      <4>1. PICK e \in Nat : e = NewId(s) /\ e # 0 /\ \A i \in 1..Len(s) : s[i].id # e
        BY NewIdIsNew
      <4>2. x = [r EXCEPT !.id = e]
        BY <1>5, <3>1, <4>1
      <4>. QED  BY <4>1, <4>2, RuleFields
    <3>2. CASE r.id # 0
      <4>1. x = r
        BY <1>5, <3>2
      <4>2. \A i \in 1..Len(s) : s[i].id # r.id
        BY <1>1, <2>1, <3>2
      <4>. QED  BY <3>2, <4>1, <4>2 DEF SameRule
    <3>. QED  BY <3>1, <3>2
  <2>4. \A i \in 1..Len(s) : s[i].id # x.id /\ ~EquivalentRule(s[i], r)
    BY <1>2, <2>1, <2>3
  <2>5. Added(s, InsertAt(s, Len(s), x), r, x)
    BY <2>3, <2>4, AddCase
  <2>. QED  BY <2>2, <2>5 DEF ChangedBy
<1>. QED  BY <1>11, <1>12, <1>13

(* A list being changed, between two rules of one call. *)
Editing(s) == s \in Seq(Rule) /\ Len(s) # 0 /\ HasIds(s)

LEMMA ReplaceKeeps ==
  ASSUME NEW s, Editing(s), NEW r \in Rule, NEW t, NEW k, NEW p, Replaced(s, t, r, k, p)
  PROVE  Editing(t) /\ NoWorse(s, t)
<1>1. s \in Seq(Rule) /\ HasIds(s) /\ Len(s) \in Nat /\ t \in Seq(Rule) /\ Len(t) \in Nat
  BY LenProperties DEF Editing, Replaced
<1>2. k \in 1..Len(s) /\ s[k].id = r.id /\ r.id # 0
  BY DEF Replaced
<1>3. ASSUME NEW j \in 1..Len(t)
      PROVE  p[j] \in 1..Len(s) /\ t[j] = IF p[j] = k THEN r ELSE s[p[j]]
  BY DEF Replaced
<1>4. ASSUME NEW i \in 1..Len(t), NEW j \in 1..Len(t), p[i] = p[j] PROVE i = j
  <2>1. p[i] \in Int /\ p[j] \in Int
    BY <1>3
  <2>2. ~(i < j) /\ ~(j < i)
    BY <1>4, <2>1 DEF Replaced
  <2>. QED  BY <2>2
<1>5. ASSUME NEW j \in 1..Len(t) PROVE t[j].id = s[p[j]].id
  BY <1>2, <1>3
<1>6. HasIds(t)
  <2>1. ASSUME NEW j \in 1..Len(t) PROVE t[j].id # 0
    <3>1. p[j] \in 1..Len(s)
      BY <1>3
    <3>. QED  BY <1>1, <1>5, <3>1 DEF HasIds
  <2>. QED  BY <2>1 DEF HasIds
<1>7. ASSUME Numbered(s) PROVE Numbered(t)
  <2>1. ASSUME NEW i \in 1..Len(t), NEW j \in 1..Len(t), t[i].id = t[j].id PROVE i = j
    <3>1. s[p[i]].id = s[p[j]].id /\ p[i] \in 1..Len(s) /\ p[j] \in 1..Len(s)
      BY <1>3, <1>5, <2>1
    <3>2. p[i] = p[j]
      BY <1>1, <1>7, <3>1, NumberedByPosition
    <3>. QED  BY <1>4, <3>2
  <2>. QED  BY <1>1, <2>1, NumberedByPosition
<1>8. Len(t) # 0
  <2>1. PICK j \in 1..Len(t) : p[j] = k
    BY <1>2 DEF Replaced
  <2>. QED  BY <2>1
<1>9. ASSUME Numbered(s), NoTwins(s) PROVE NoTwins(t)
  <2>1. ASSUME NEW j \in 1..Len(t), p[j] # k PROVE ~EquivalentRule(t[j], r) /\ ~EquivalentRule(r, t[j])
    BY <1>3, <1>9, <2>1 DEF Replaced, EquivalentRule, SameRulePattern
  <2>2. ASSUME NEW i \in 1..Len(t), NEW j \in 1..Len(t), EquivalentRule(t[i], t[j]) PROVE i = j
    <3>1. CASE p[i] = k \/ p[j] = k
      <4>1. p[i] = k /\ p[j] = k
        BY <1>3, <2>1, <2>2, <3>1
      <4>. QED  BY <1>4, <4>1
    <3>2. CASE p[i] # k /\ p[j] # k
      <4>1. EquivalentRule(s[p[i]], s[p[j]]) /\ p[i] \in 1..Len(s) /\ p[j] \in 1..Len(s)
        BY <1>3, <2>2, <3>2
      <4>2. p[i] = p[j]
        BY <1>1, <1>9, <4>1, NoTwinsByPosition
      <4>. QED  BY <1>4, <4>2
    <3>. QED  BY <3>1, <3>2
  <2>. QED  BY <1>1, <2>2, NoTwinsByPosition
<1>. QED  BY <1>1, <1>6, <1>8, <1>9, <1>7 DEF Editing, NoWorse

LEMMA SwitchKeeps ==
  ASSUME NEW s, Editing(s), NEW r \in Rule, NEW t, NEW k, Switched(s, t, r, k)
  PROVE  Editing(t) /\ NoWorse(s, t)
<1>1. s \in Seq(Rule) /\ HasIds(s) /\ t \in Seq(Rule) /\ Len(t) = Len(s) /\ Len(s) # 0
  BY DEF Editing, Switched
<1>2. ASSUME NEW i \in 1..Len(s)
      PROVE  t[i].id = s[i].id /\ t[i].pat = s[i].pat /\ t[i].target = s[i].target
  BY DEF Switched
<1>3. HasIds(t)
  BY <1>1, <1>2 DEF HasIds
<1>4. ASSUME Numbered(s) PROVE Numbered(t)
  BY <1>1, <1>2, <1>4, NumberedByPosition
<1>5. ASSUME NoTwins(s) PROVE NoTwins(t)
  <2>1. ASSUME NEW i \in 1..Len(t), NEW j \in 1..Len(t), EquivalentRule(t[i], t[j]) PROVE i = j
    <3>1. EquivalentRule(s[i], s[j])
      BY <1>1, <1>2, <2>1 DEF EquivalentRule, SameRulePattern
    <3>. QED  BY <1>1, <1>5, <3>1, NoTwinsByPosition
  <2>. QED  BY <1>1, <2>1, NoTwinsByPosition
<1>. QED  BY <1>1, <1>3, <1>5, <1>4 DEF Editing, NoWorse

(* A position after the addition: where it was, or the new one.              *)
LEMMA AddedPositions ==
  ASSUME NEW s, Editing(s), NEW r \in Rule, NEW t, NEW x, Added(s, t, r, x)
  PROVE  \E p \in [1..Len(t) -> 1..Len(t)] :
           /\ p[Len(s)] = Len(t) /\ t[Len(s)] = x /\ Len(s) \in 1..Len(t)
           /\ \A i, j \in 1..Len(t) : p[i] = p[j] => i = j
           /\ \A i \in 1..Len(t) : i # Len(s) => p[i] \in 1..Len(s) /\ t[i] = s[p[i]]
<1>1. PICK m \in Nat : Len(s) = m + 1
  <2>1. Len(s) \in Nat /\ Len(s) # 0
    BY LenProperties DEF Editing
  <2>2. Len(s) - 1 \in Nat /\ Len(s) = (Len(s) - 1) + 1
    BY <2>1
  <2>. QED  BY <2>2
<1>2. /\ Len(t) = (m + 1) + 1 /\ t[m + 1] = x /\ t[(m + 1) + 1] = s[m + 1]
      /\ \A i \in 1..m : t[i] = s[i]
  <2>1. (m + 1) - 1 = m
    OBVIOUS
  <2>. QED  BY <1>1, <2>1 DEF Added
<1>3. PICK p : p = [i \in 1..Len(t) |-> IF i = m + 1 THEN m + 2 ELSE IF i = m + 2 THEN m + 1 ELSE i]
  OBVIOUS
<1>4. p \in [1..Len(t) -> 1..Len(t)]
  BY <1>2, <1>3
<1>5. p[m + 1] = Len(t) /\ \A i, j \in 1..Len(t) : p[i] = p[j] => i = j
  BY <1>2, <1>3
<1>6. ASSUME NEW i \in 1..Len(t), i # m + 1 PROVE p[i] \in 1..(m + 1) /\ t[i] = s[p[i]]
  <2>1. CASE i = m + 2
    BY <1>2, <1>3, <2>1
  <2>2. CASE i # m + 2
    <3>1. i \in 1..m /\ p[i] = i
      BY <1>2, <1>3, <1>6, <2>2
    <3>. QED  BY <1>2, <3>1
  <2>. QED  BY <2>1, <2>2
<1>7. \A i \in 1..Len(t) : i # Len(s) => p[i] \in 1..Len(s) /\ t[i] = s[p[i]]
  BY <1>1, <1>6
<1>8. p[Len(s)] = Len(t) /\ t[Len(s)] = x /\ Len(s) \in 1..Len(t)
  BY <1>1, <1>2, <1>5
<1>. QED  BY <1>4, <1>5, <1>7, <1>8

LEMMA AddKeeps ==
  ASSUME NEW s, Editing(s), NEW r \in Rule, NEW t, NEW x, Added(s, t, r, x)
  PROVE  Editing(t) /\ NoWorse(s, t)
<1>1. /\ s \in Seq(Rule) /\ HasIds(s) /\ t \in Seq(Rule) /\ Len(s) \in Nat /\ Len(t) = Len(s) + 1
      /\ SameRule(x, r) /\ x.id # 0
      /\ \A i \in 1..Len(s) : s[i].id # x.id /\ ~EquivalentRule(s[i], r)
  BY LenProperties DEF Editing, Added
<1>2. PICK p \in [1..Len(t) -> 1..Len(t)] :
           /\ p[Len(s)] = Len(t) /\ t[Len(s)] = x /\ Len(s) \in 1..Len(t)
           /\ \A i, j \in 1..Len(t) : p[i] = p[j] => i = j
           /\ \A i \in 1..Len(t) : i # Len(s) => p[i] \in 1..Len(s) /\ t[i] = s[p[i]]
  BY AddedPositions
<1>3. HasIds(t)
  <2>1. ASSUME NEW i \in 1..Len(t), i # Len(s) PROVE t[i].id # 0
    BY <1>1, <1>2, <2>1 DEF HasIds
  <2>. QED  BY <1>1, <1>2, <2>1 DEF HasIds
<1>4. ASSUME Numbered(s) PROVE Numbered(t)
  <2>1. ASSUME NEW i \in 1..Len(t), i # Len(s) PROVE t[i].id # x.id
    BY <1>1, <1>2, <2>1
  <2>2. ASSUME NEW i \in 1..Len(t), NEW j \in 1..Len(t), i # Len(s), j # Len(s), t[i].id = t[j].id PROVE i = j
    <3>1. p[i] \in 1..Len(s) /\ p[j] \in 1..Len(s) /\ s[p[i]].id = s[p[j]].id
      BY <1>2, <2>2
    <3>2. p[i] = p[j]
      BY <1>1, <1>4, <3>1, NumberedByPosition
    <3>. QED  BY <1>2, <3>2
  <2>3. \A i, j \in 1..Len(t) : t[i].id = t[j].id => i = j
    BY <1>2, <2>1, <2>2
  <2>. QED  BY <1>1, <2>3, NumberedByPosition
<1>5. ASSUME NoTwins(s) PROVE NoTwins(t)
  <2>1. ASSUME NEW i \in 1..Len(t), i # Len(s) PROVE ~EquivalentRule(t[i], x) /\ ~EquivalentRule(x, t[i])
    <3>1. p[i] \in 1..Len(s) /\ t[i] = s[p[i]]
      BY <1>2, <2>1
    <3>2. ~EquivalentRule(t[i], r)
      BY <1>1, <3>1
    <3>. QED  BY <1>1, <3>2 DEF EquivalentRule, SameRulePattern, SameRule
  <2>2. ASSUME NEW i \in 1..Len(t), NEW j \in 1..Len(t), EquivalentRule(t[i], t[j]) PROVE i = j
    <3>1. CASE i = Len(s) \/ j = Len(s)
      BY <1>2, <2>1, <2>2, <3>1
    <3>2. CASE i # Len(s) /\ j # Len(s)
      <4>1. EquivalentRule(s[p[i]], s[p[j]]) /\ p[i] \in 1..Len(s) /\ p[j] \in 1..Len(s)
        BY <1>2, <2>2, <3>2
      <4>2. p[i] = p[j]
        BY <1>1, <1>5, <4>1, NoTwinsByPosition
      <4>. QED  BY <1>2, <4>2
    <3>. QED  BY <3>1, <3>2
  <2>. QED  BY <1>1, <2>2, NoTwinsByPosition
<1>6. Len(t) # 0
  BY <1>1
<1>. QED  BY <1>1, <1>3, <1>5, <1>6, <1>4 DEF Editing, NoWorse

LEMMA ChangeKeeps ==
  ASSUME NEW s, Editing(s), NEW r \in Rule
  PROVE  Editing(ApplyRuleChange(s, r)) /\ NoWorse(s, ApplyRuleChange(s, r))
<1>1. PICK t : t = ApplyRuleChange(s, r)
  OBVIOUS
<1>2. ChangedBy(s, t, r)
  BY <1>1, ChangeCases DEF Editing
<1>3. Editing(t) /\ NoWorse(s, t)
  BY <1>2, ReplaceKeeps, SwitchKeeps, AddKeeps DEF ChangedBy
<1>. QED  BY <1>1, <1>3

(* The rules of a call applied, one after the other.                         *)
AppliedBy(s, items, f) ==
  /\ f[0] = s /\ \A n \in 0..Len(items) : Editing(f[n])
  /\ \A n \in 1..Len(items) : f[n] = ApplyRuleChange(f[n - 1], items[n])
  /\ Apply(s, items) = EnsureInvariants(f[Len(items)])

LEMMA ApplySteps ==
  ASSUME NEW s, Editing(s), NEW items \in Seq(Rule)
  PROVE  \E f : AppliedBy(s, items, f)
<1> DEFINE step(n, t) == ApplyRuleChange(t, items[n])
<1>0. PICK m \in Nat : m = Len(items)
  BY LenProperties
<1>1. PICK Q : Q = {t \in Seq(Rule) : Editing(t)}
  OBVIOUS
<1>2. s \in Q /\ \A t \in Q : Editing(t)
  BY <1>1 DEF Editing
<1>3. ASSUME NEW n \in 1..m, NEW t \in Q PROVE step(n, t) \in Q
  <2>1. items[n] \in Rule
    BY <1>0, ElementOfSeq
  <2>2. Editing(step(n, t))
    BY <1>2, <2>1, ChangeKeeps
  <2>. HIDE DEF step
  <2>. QED  BY <1>1, <2>2 DEF Editing
<1>. HIDE DEF step
<1>4. PICK G : G = [x \in Nat \X Q |-> IF x[1] \in 1..m THEN step(x[1], x[2]) ELSE x[2]]
  OBVIOUS
<1>5. G \in [Nat \X Q -> Q]
  BY <1>3, <1>4
<1>6. \A n \in 1..m, t \in Q : G[<<n, t>>] = step(n, t)
  BY <1>4
<1>7. PICK f : Computes(f, Q, s, G, m)
  BY <1>2, <1>5, Recursion
<1>8. f \in [0..m -> Q] /\ f[0] = s /\ \A n \in 1..m : f[n] = G[<<n, f[n - 1]>>]
  BY <1>7 DEF Computes
<1>9. ASSUME NEW n \in 1..m PROVE f[n] = step(n, f[n - 1])
  <2>1. n - 1 \in 0..m
    OBVIOUS
  <2>. QED  BY <1>6, <1>8, <2>1
<1>10. f = [n \in 0..m |-> IF n = 0 THEN s ELSE step(n, f[n - 1])]
  <2>1. \A n \in 0..m : n = 0 \/ n \in 1..m
    OBVIOUS
  <2>. QED  BY <1>8, <1>9, <2>1
<1>11. PICK g : /\ Apply(s, items) = EnsureInvariants(g[m])
                /\ g = CHOOSE h : h = [n \in 0..m |-> IF n = 0 THEN s ELSE step(n, h[n - 1])]
  BY <1>0, Zenon DEF Apply, step
<1>12. g = [n \in 0..m |-> IF n = 0 THEN s ELSE step(n, g[n - 1])]
  BY <1>10, <1>11, Zenon
<1>13. g[0] = s /\ \A n \in 1..m : g[n] = step(n, g[n - 1])
  <2>1. 0 \in 0..m /\ \A n \in 1..m : n \in 0..m /\ n # 0
    OBVIOUS
  <2>2. \A n \in 0..m : g[n] = IF n = 0 THEN s ELSE step(n, g[n - 1])
    BY <1>12, Zenon
  <2>. QED  BY <2>1, <2>2
<1>14. \A n \in 0..m : f[n] = g[n]
  <2>1. SameSteps(f, g, m)
    BY <1>8, <1>9, <1>13 DEF SameSteps
  <2>. QED  BY <2>1, Unique DEF SameValues
<1>15. \A n \in 0..m : Editing(f[n])
  BY <1>2, <1>8
<1>16. Apply(s, items) = EnsureInvariants(f[m])
  <2>1. m \in 0..m
    OBVIOUS
  <2>. QED  BY <1>11, <1>14, <2>1
<1>. QED  BY <1>0, <1>8, <1>9, <1>15, <1>16, Zenon DEF AppliedBy, step

LEMMA ApplyKeeps ==
  ASSUME NEW s, Editing(s), NEW items \in Seq(Rule)
  PROVE  WellFormed(Apply(s, items)) /\ NoWorse(s, Apply(s, items))
<1>1. PICK f : AppliedBy(s, items, f)
  BY ApplySteps
<1>2. PICK m \in Nat : m = Len(items)
  BY LenProperties
<1>3. /\ f[0] = s /\ \A n \in 0..m : Editing(f[n])
      /\ \A n \in 1..m : f[n] = ApplyRuleChange(f[n - 1], items[n])
      /\ Apply(s, items) = EnsureInvariants(f[m])
  BY <1>1, <1>2 DEF AppliedBy
<1>4. Editing(f[m])
  <2>1. m \in 0..m
    OBVIOUS
  <2>. QED  BY <1>3, <2>1
<1>5. f[m] \in Seq(Rule)
  BY <1>4 DEF Editing
<1>6. NoWorse(s, Apply(s, items))
  <2> DEFINE T == {n \in Nat : n <= m => NoWorse(s, f[n])}
  <2>1. 0 \in T
    BY <1>3 DEF NoWorse
  <2>2. ASSUME NEW n \in Nat, n \in T PROVE n + 1 \in T
    <3> SUFFICES ASSUME n + 1 <= m PROVE NoWorse(s, f[n + 1])
      OBVIOUS
    <3>1. n \in 0..m /\ n + 1 \in 1..m /\ (n + 1) - 1 = n
      OBVIOUS
    <3>2. NoWorse(s, f[n]) /\ Editing(f[n]) /\ f[n + 1] = ApplyRuleChange(f[n], items[n + 1])
      BY <1>3, <2>2, <3>1
    <3>3. items[n + 1] \in Rule
      BY <1>2, <3>1, ElementOfSeq
    <3>. QED  BY <3>2, <3>3, ChangeKeeps DEF NoWorse
  <2>. HIDE DEF T
  <2>3. m \in T
    BY <2>1, <2>2, Induction
  <2>4. NoWorse(s, f[m])
    BY <2>3 DEF T
  <2>. QED  BY <1>3, <1>5, <2>4, EnsureNoWorse DEF NoWorse
<1>. QED  BY <1>3, <1>5, <1>6, EnsureWellFormed

(* What a form stands for: itself, or rules without an id for a family.      *)
Expanded(r, items) ==
  /\ items \in Seq(Rule) /\ Len(items) # 0
  /\ \A i \in 1..Len(items) : /\ items[i].pat \in Patterns
                              /\ items[i].target = r.target /\ items[i].on = r.on
  /\ (Len(items) = 1 /\ items[1] = r) \/ \A i \in 1..Len(items) : items[i].id = 0

LEMMA ExpandedItems ==
  ASSUME NEW r \in Rule, r.pat \in Patterns
  PROVE  Expanded(r, ExpandRuleSiblings(r))
<1>1. CASE FamilyOf[r.pat] = << >>
  <2>1. ExpandRuleSiblings(r) = <<r>>
    BY <1>1 DEF ExpandRuleSiblings
  <2>2. <<r>> \in Seq(Rule) /\ Len(<<r>>) = 1 /\ <<r>>[1] = r
    OBVIOUS
  <2>. QED  BY <2>1, <2>2 DEF Expanded
<1>2. CASE FamilyOf[r.pat] # << >>
  <2>1. PICK d \in Seq(ToSet(Builtins)) : d = FamilyOf[r.pat] /\ d # << >>
    BY <1>2, RuleListAssumption
  <2>2. PICK n \in Nat : n = Len(d) /\ n # 0 /\ DOMAIN d = 1..n
    BY <2>1, LenProperties, EmptySeq
  <2>3. ASSUME NEW i \in 1..n PROVE d[i] \in Patterns
    <3>1. d[i] \in ToSet(Builtins)
      BY <2>2, ElementOfSeq
    <3>. QED  BY <3>1, BuiltinRules DEF ToSet
  <2>4. PICK t : t = [i \in 1..n |-> [r EXCEPT !.id = 0, !.pat = d[i]]]
    OBVIOUS
  <2>5. ASSUME NEW i \in 1..n
        PROVE  /\ t[i] \in Rule /\ t[i].id = 0 /\ t[i].pat \in Patterns
               /\ t[i].target = r.target /\ t[i].on = r.on
    BY <2>3, <2>4 DEF Rule
  <2>6. t \in [1..n -> Rule]
    BY <2>4, <2>5
  <2>7. t \in Seq(Rule)
    BY <2>6, SeqDef
  <2>8. Len(t) = n
    BY <2>6, <2>7, LenProperties
  <2>9. t = ExpandRuleSiblings(r)
    BY <1>2, <2>1, <2>2, <2>4 DEF ExpandRuleSiblings
  <2>. QED  BY <2>2, <2>5, <2>7, <2>8, <2>9 DEF Expanded
<1>. QED  BY <1>1, <1>2

LEMMA FormIsRule ==
  ASSUME rules \in Seq(Rule), NEW r \in Forms
  PROVE  r \in Rule /\ r.pat \in Patterns
<1>1. Ids(rules) \subseteq Nat
  <2> SUFFICES ASSUME NEW i \in DOMAIN rules PROVE rules[i].id \in Nat
    BY DEF Ids
  <2>1. rules[i] \in Rule
    BY LenProperties, ElementOfSeq
  <2>. QED  BY <2>1, RuleFields
<1>. QED  BY <1>1 DEF Forms, Rule

(* What the applications of an edit need of its rules: patterns that are     *)
(* named, one switch, and at most one id, if the edit is a single rule.      *)
Asked(id, items) ==
  /\ items \in Seq(Rule)
  /\ \A i \in 1..Len(items) : items[i].pat \in Patterns
  /\ \A i, j \in 1..Len(items) : items[i].on = items[j].on
  /\ (Len(items) = 1 /\ items[1].id = id) \/ \A i \in 1..Len(items) : items[i].id = 0

LEMMA FormAsked ==
  ASSUME rules \in Seq(Rule), NEW r \in Forms
  PROVE  Asked(r.id, ExpandRuleSiblings(r))
<1>1. PICK items : items = ExpandRuleSiblings(r) /\ Expanded(r, items)
  BY FormIsRule, ExpandedItems
<1>. QED  BY <1>1 DEF Expanded, Asked

LEMMA BatchAsked ==
  ASSUME NEW ps \in Batches, NEW target \in Targets, NEW on \in BOOLEAN
  PROVE  Asked(0, BatchItems(ps, target, on))
<1>1. ASSUME NEW p \in Patterns, NEW s, s = ExpandRuleSiblings([NewRule(p, target) EXCEPT !.on = on])
      PROVE  /\ s \in Seq(Rule)
             /\ \A i \in 1..Len(s) : s[i].pat \in Patterns /\ s[i].on = on /\ s[i].id = 0
  <2>1. PICK r : r = [NewRule(p, target) EXCEPT !.on = on]
    OBVIOUS
  <2>2. r \in Rule /\ r.pat \in Patterns /\ r.id = 0 /\ r.on = on
    BY <2>1 DEF NewRule, Rule
  <2>3. Expanded(r, s)
    BY <1>1, <2>1, <2>2, ExpandedItems
  <2>4. ASSUME NEW i \in 1..Len(s) PROVE s[i].pat \in Patterns /\ s[i].on = on /\ s[i].id = 0
    BY <2>2, <2>3 DEF Expanded
  <2>. QED  BY <2>3, <2>4 DEF Expanded
<1>2. PICK s, t : /\ s = ExpandRuleSiblings([NewRule(ps[1], target) EXCEPT !.on = on])
                  /\ t = ExpandRuleSiblings([NewRule(ps[2], target) EXCEPT !.on = on])
  OBVIOUS
<1>3. ps[1] \in Patterns /\ ps[2] \in Patterns
  BY DEF Batches
<1>4. /\ s \in Seq(Rule) /\ t \in Seq(Rule)
      /\ \A i \in 1..Len(s) : s[i].pat \in Patterns /\ s[i].on = on /\ s[i].id = 0
      /\ \A i \in 1..Len(t) : t[i].pat \in Patterns /\ t[i].on = on /\ t[i].id = 0
  BY <1>1, <1>2, <1>3
<1>5. PICK u : u = s \o t
  OBVIOUS
<1>6. u = BatchItems(ps, target, on)
  BY <1>2, <1>5 DEF BatchItems
<1>7. PICK a \in Nat : a = Len(s)
  BY <1>4, LenProperties
<1>8. PICK b \in Nat : b = Len(t)
  BY <1>4, LenProperties
<1>9. /\ u \in Seq(Rule) /\ Len(u) = a + b
      /\ \A i \in 1..(a + b) : u[i] = IF i <= a THEN s[i] ELSE t[i - a]
  BY <1>4, <1>5, <1>7, <1>8, ConcatProperties
<1>10. ASSUME NEW i \in 1..(a + b) PROVE u[i].pat \in Patterns /\ u[i].on = on /\ u[i].id = 0
  <2>1. CASE i <= a
    <3>1. i \in 1..Len(s) /\ u[i] = s[i]
      BY <1>7, <1>9, <2>1
    <3>. QED  BY <1>4, <3>1
  <2>2. CASE ~(i <= a)
    <3>1. i - a \in 1..Len(t) /\ u[i] = t[i - a]
      BY <1>7, <1>8, <1>9, <2>2
    <3>. QED  BY <1>4, <3>1
  <2>. QED  BY <2>1, <2>2
<1>. QED  BY <1>6, <1>9, <1>10 DEF Asked

LEMMA EditAsked ==
  ASSUME rules \in Seq(Rule), NEW e \in Edits
  PROVE  Asked(e.id, e.items)
<1>1. ASSUME NEW r \in Forms, e = [id |-> r.id, items |-> ExpandRuleSiblings(r)]
      PROVE  Asked(e.id, e.items)
  BY <1>1, FormAsked
<1>2. ASSUME NEW ps \in Batches, NEW target \in Targets, NEW on \in BOOLEAN,
             e = [id |-> 0, items |-> BatchItems(ps, target, on)]
      PROVE  Asked(e.id, e.items)
  BY <1>2, BatchAsked
<1>. QED  BY <1>1, <1>2 DEF Edits, FormEdits, BatchEdits

-----------------------------------------------------------------------------
(* The rules before and after every call.                                    *)
RuleInv == WellFormed(rules)

LEMMA RuleInvEditing ==
  ASSUME RuleInv
  PROVE  Editing(rules) /\ DOMAIN rules = 1..Len(rules)
BY LenProperties DEF RuleInv, WellFormed, EndsInFallback, Editing

LEMMA RuleInit ==
  ASSUME Init
  PROVE  RuleInv
<1>1. << >> \in Seq(Rule)
  BY EmptySeq
<1>. QED  BY <1>1, EnsureWellFormed DEF Init, RuleInv

(* Every call but an import makes nothing worse.                             *)
KeptNoWorse == RuleInv' /\ NoWorse(rules, rules')

LEMMA UpsertKeeps ==
  ASSUME RuleInv, NEW r \in Forms, UpsertRule(r)
  PROVE  KeptNoWorse
<1>1. ExpandRuleSiblings(r) \in Seq(Rule)
  BY FormAsked DEF RuleInv, WellFormed, Asked
<1>. QED  BY <1>1, RuleInvEditing, ApplyKeeps DEF UpsertRule, KeptNoWorse, RuleInv

LEMMA BatchKeeps ==
  ASSUME RuleInv, NEW ps \in Batches, NEW target \in Targets, NEW on \in BOOLEAN,
         BatchUpsertRules(ps, target, on)
  PROVE  KeptNoWorse
BY BatchAsked, RuleInvEditing, ApplyKeeps DEF BatchUpsertRules, KeptNoWorse, RuleInv, Asked

LEMMA DeleteKeeps ==
  ASSUME RuleInv, NEW id \in Ids(rules), DeleteRule(id)
  PROVE  KeptNoWorse
<1>1. PICK u : u = Keep(rules, {i \in DOMAIN rules : rules[i].id # id})
  OBVIOUS
<1>2. u \in Seq(Rule) /\ NoWorse(rules, u)
  BY <1>1, KeepKeeps DEF RuleInv, WellFormed
<1>3. rules' = EnsureInvariants(u)
  BY <1>1 DEF DeleteRule
<1>. QED  BY <1>2, <1>3, EnsureWellFormed, EnsureNoWorse DEF KeptNoWorse, RuleInv, NoWorse

LEMMA MoveKeeps ==
  ASSUME RuleInv, NEW id, NEW direction, MoveRule(id, direction)
  PROVE  KeptNoWorse
<1>1. PICK i \in DOMAIN rules, j \in 1..(Len(rules) - 1) : rules' = EnsureInvariants(Swap(rules, i, j))
  BY DEF MoveRule
<1>2. i \in 1..Len(rules) /\ j \in 1..Len(rules)
  <2>1. Len(rules) \in Nat
    BY LenProperties DEF RuleInv, WellFormed
  <2>. QED  BY <1>1, <2>1, RuleInvEditing
<1>3. PICK u : u = Swap(rules, i, j)
  OBVIOUS
<1>4. u \in Seq(Rule) /\ NoWorse(rules, u)
  BY <1>2, <1>3, SwapKeeps DEF RuleInv, WellFormed
<1>. QED  BY <1>1, <1>3, <1>4, EnsureWellFormed, EnsureNoWorse DEF KeptNoWorse, RuleInv, NoWorse

LEMMA ImportKeeps ==
  ASSUME NEW s \in Imports, ImportConfig(s)
  PROVE  RuleInv'
<1>1. s \in Seq(Rule)
  BY RuleListAssumption
<1>. QED  BY <1>1, EnsureWellFormed DEF ImportConfig, RuleInv

LEMMA RuleStep ==
  ASSUME RuleInv, [BoundedNext]_<<rules, calls>>
  PROVE  RuleInv' /\ ((\E s \in Imports : ImportConfig(s)) \/ NoWorse(rules, rules'))
<1>1. CASE UNCHANGED <<rules, calls>>
  BY <1>1 DEF RuleInv, NoWorse
<1>2. CASE BoundedNext
  <2>1. CASE \E r \in Forms : UpsertRule(r)
    BY <2>1, UpsertKeeps DEF KeptNoWorse
  <2>2. CASE \E ps \in Batches, target \in Targets, on \in BOOLEAN : BatchUpsertRules(ps, target, on)
    BY <2>2, BatchKeeps DEF KeptNoWorse
  <2>3. CASE \E id \in Ids(rules) : DeleteRule(id)
    BY <2>3, DeleteKeeps DEF KeptNoWorse
  <2>4. CASE \E id \in Ids(rules), direction \in {"up", "down"} : MoveRule(id, direction)
    BY <2>4, MoveKeeps DEF KeptNoWorse
  <2>5. CASE \E s \in Imports : ImportConfig(s)
    BY <2>5, ImportKeeps
  <2>. QED  BY <1>2, <2>1, <2>2, <2>3, <2>4, <2>5 DEF BoundedNext, Next
<1>. QED  BY <1>1, <1>2

(* Whatever the calls, the list is well formed.                              *)
THEOREM RulesWellFormed == Spec => []RuleInv
<1>1. Init => RuleInv
  BY RuleInit
<1>2. RuleInv /\ [BoundedNext]_<<rules, calls>> => RuleInv'
  BY RuleStep
<1>. QED  BY <1>1, <1>2, PTL DEF Spec

(* The rules are well typed and none is without an id (app.go and the window *)
(* find the rules by their ids).                                             *)
THEOREM TypeCorrect == Spec => []TypeOK
<1>1. RuleInv => TypeOK
  BY RuleInvEditing DEF RuleInv, WellFormed, HasIds, Ids, TypeOK
<1>. QED  BY <1>1, RulesWellFormed, PTL

(* MATCH,DIRECT is kept, once, as the last rule: ensureInvariants.           *)
THEOREM FallbackStaysLast == Spec => []FallbackLast
<1>1. RuleInv => FallbackLast
  <2> SUFFICES ASSUME RuleInv PROVE FallbackLast
    OBVIOUS
  <2>1. rules \in Seq(Rule) /\ EndsInFallback(rules) /\ DOMAIN rules = 1..Len(rules)
    BY RuleInvEditing DEF RuleInv, WellFormed
  <2>2. rules # << >>
    BY <2>1, EmptySeq DEF EndsInFallback
  <2>. QED  BY <2>1, <2>2 DEF EndsInFallback, FallbackLast
<1>. QED  BY <1>1, RulesWellFormed, PTL

(* Loading the saved list rewrites it into itself: Load and Save of the      *)
(* store both call ensureInvariants.                                         *)
THEOREM RestartsKeep == Spec => []RestartKeeps
<1>1. RuleInv => RestartKeeps
  BY EnsureKeeps DEF RuleInv, RestartKeeps
<1>. QED  BY <1>1, RulesWellFormed, PTL

(* No call of the window makes two rules share an id, nor two equivalent     *)
(* rules: mergeDuplicateRules.  Only a file can bring them.                  *)
THEOREM TwinsAreImported == Spec => NoNewTwins
<1>1. RuleInv /\ [BoundedNext]_<<rules, calls>> =>
        [\/ \E s \in Imports : ImportConfig(s)
         \/ Numbered(rules) => Numbered(rules') /\ (NoTwins(rules) => NoTwins(rules'))]_rules
  BY RuleStep DEF NoWorse
<1>. QED  BY <1>1, RulesWellFormed, PTL DEF Spec, NoNewTwins

-----------------------------------------------------------------------------
(* What an edit asks for is in the list.                                     *)
Has(s, q) == \E i \in 1..Len(s) : EquivalentRule(s[i], q) /\ s[i].on = q.on

LEMMA ChangeHas ==
  ASSUME NEW s, Editing(s), NEW r \in Rule, NEW t, ChangedBy(s, t, r)
  PROVE  Has(t, r)
<1>1. ASSUME NEW k, NEW p, Replaced(s, t, r, k, p) PROVE Has(t, r)
  <2>1. PICK j \in 1..Len(t) : p[j] = k
    BY <1>1 DEF Replaced
  <2>2. t[j] = r
    BY <1>1, <2>1 DEF Replaced
  <2>. QED  BY <2>2 DEF Has, EquivalentRule, SameRulePattern
<1>2. ASSUME NEW k, Switched(s, t, r, k) PROVE Has(t, r)
  <2>1. k \in 1..Len(t) /\ t[k].pat = s[k].pat /\ t[k].target = s[k].target /\ t[k].on = r.on
    BY <1>2 DEF Switched
  <2>2. EquivalentRule(s[k], r)
    BY <1>2 DEF Switched
  <2>. QED  BY <2>1, <2>2 DEF Has, EquivalentRule, SameRulePattern
<1>3. ASSUME NEW x, Added(s, t, r, x) PROVE Has(t, r)
  <2>1. Len(s) \in 1..Len(t) /\ t[Len(s)] = x /\ SameRule(x, r)
    <3>1. Len(s) \in Nat /\ Len(s) # 0
      BY LenProperties DEF Editing
    <3>. QED  BY <1>3, <3>1 DEF Added
  <2>. QED  BY <2>1 DEF Has, EquivalentRule, SameRulePattern, SameRule
<1>. QED  BY <1>1, <1>2, <1>3 DEF ChangedBy

(* The next rule of a family, which has no id, leaves it there.              *)
LEMMA ChangeStillHas ==
  ASSUME NEW s, Editing(s), NEW r \in Rule, r.id = 0, NEW t, ChangedBy(s, t, r),
         NEW q, r.on = q.on, Has(s, q)
  PROVE  Has(t, q)
<1>0. PICK i \in 1..Len(s) : EquivalentRule(s[i], q) /\ s[i].on = q.on
  BY DEF Has
<1>1. ASSUME NEW k, NEW p, Replaced(s, t, r, k, p) PROVE Has(t, q)
  BY <1>1 DEF Replaced
<1>2. ASSUME NEW k, Switched(s, t, r, k) PROVE Has(t, q)
  <2>1. i \in 1..Len(t) /\ t[i].pat = s[i].pat /\ t[i].target = s[i].target /\ t[i].on = q.on
    BY <1>0, <1>2 DEF Switched
  <2>. QED  BY <1>0, <2>1 DEF Has, EquivalentRule, SameRulePattern
<1>3. ASSUME NEW x, Added(s, t, r, x) PROVE Has(t, q)
  <2>1. Len(s) \in Nat /\ Len(t) = Len(s) + 1
    BY <1>3, LenProperties DEF Added, Editing
  <2>2. CASE i = Len(s)
    <3>1. Len(s) + 1 \in 1..Len(t) /\ t[Len(s) + 1] = s[i]
      BY <1>3, <2>1, <2>2 DEF Added
    <3>. QED  BY <1>0, <3>1 DEF Has
  <2>3. CASE i # Len(s)
    <3>1. i \in 1..(Len(s) - 1) /\ i \in 1..Len(t)
      BY <2>1, <2>3
    <3>2. t[i] = s[i]
      BY <1>3, <3>1 DEF Added
    <3>. QED  BY <1>0, <3>1, <3>2 DEF Has
  <2>. QED  BY <2>2, <2>3
<1>. QED  BY <1>1, <1>2, <1>3 DEF ChangedBy

LEMMA EnsureHas ==
  ASSUME NEW s \in Seq(Rule), NEW q, q.pat # MATCH, Has(s, q)
  PROVE  Has(EnsureInvariants(s), q)
<1>1. PICK t : t = EnsureInvariants(s)
  OBVIOUS
<1>2. PICK a \in Nat, b \in Nat : \E p, c : Rebuilt(s, t, a, b, p, c)
  BY <1>1, EnsureRebuilds
<1>2a. PICK p, c : Rebuilt(s, t, a, b, p, c)
  BY <1>2
<1>3. PICK k \in 1..Len(s) : EquivalentRule(s[k], q) /\ s[k].on = q.on
  BY DEF Has
<1>4. ~IsFallback(s[k])
  BY <1>3 DEF EquivalentRule, SameRulePattern, IsFallback
<1>5. PICK i \in 1..a : p[i] = k
  BY <1>2a, <1>4 DEF Rebuilt
<1>6. SameRule(t[i], s[k]) /\ Len(t) = a + b + 1
  BY <1>2a, <1>5 DEF Rebuilt
<1>7. i \in 1..Len(t)
  BY <1>6
<1>8. Has(t, q)
  BY <1>3, <1>6, <1>7 DEF Has, SameRule, EquivalentRule, SameRulePattern
<1>. QED  BY <1>1, <1>8

LEMMA EditApplied ==
  ASSUME NEW s, Editing(s), NEW id, NEW items, Asked(id, items), NEW k \in 1..Len(items)
  PROVE  Has(Apply(s, items), items[k])
<1>1. PICK m \in Nat : m = Len(items) /\ items \in Seq(Rule)
  BY LenProperties DEF Asked
<1>2. PICK f : AppliedBy(s, items, f)
  BY <1>1, ApplySteps
<1>3. /\ \A n \in 0..m : Editing(f[n])
      /\ \A n \in 1..m : f[n] = ApplyRuleChange(f[n - 1], items[n])
      /\ Apply(s, items) = EnsureInvariants(f[m])
  BY <1>1, <1>2 DEF AppliedBy
<1>4. ASSUME NEW n \in 1..m
      PROVE  /\ items[n] \in Rule /\ items[n].pat \in Patterns
             /\ \A l \in 1..m : items[n].on = items[l].on
             /\ m # 1 => items[n].id = 0
  BY <1>1, ElementOfSeq DEF Asked
<1> DEFINE T == {n \in Nat : n <= m => \A l \in 1..n : Has(f[n], items[l])}
<1>5. 0 \in T
  OBVIOUS
<1>6. ASSUME NEW n \in Nat, n \in T PROVE n + 1 \in T
  <2> SUFFICES ASSUME n + 1 <= m, NEW l \in 1..(n + 1) PROVE Has(f[n + 1], items[l])
    OBVIOUS
  <2>1. n \in 0..m /\ n + 1 \in 1..m /\ (n + 1) - 1 = n
    OBVIOUS
  <2>2. Editing(f[n]) /\ items[n + 1] \in Rule /\ ChangedBy(f[n], f[n + 1], items[n + 1])
    <3>1. Editing(f[n]) /\ items[n + 1] \in Rule /\ f[n + 1] = ApplyRuleChange(f[n], items[n + 1])
      BY <1>3, <1>4, <2>1
    <3>. QED  BY <3>1, ChangeCases DEF Editing
  <2>3. CASE l = n + 1
    BY <2>2, <2>3, ChangeHas
  <2>4. CASE l # n + 1
    <3>1. l \in 1..n /\ l \in 1..m /\ m # 1
      BY <2>4
    <3>2. Has(f[n], items[l])
      BY <1>6, <3>1
    <3>3. items[n + 1].id = 0 /\ items[n + 1].on = items[l].on
      BY <1>4, <2>1, <3>1
    <3>. QED  BY <2>2, <3>2, <3>3, ChangeStillHas
  <2>. QED  BY <2>3, <2>4
<1>. HIDE DEF T
<1>7. m \in T
  BY <1>5, <1>6, Induction
<1>8. Has(f[m], items[k])
  BY <1>1, <1>7 DEF T
<1>9. f[m] \in Seq(Rule)
  <2>1. m \in 0..m
    OBVIOUS
  <2>. QED  BY <1>3, <2>1 DEF Editing
<1>10. items[k].pat # MATCH
  BY <1>1, <1>4, RuleListAssumption
<1>. QED  BY <1>3, <1>8, <1>9, <1>10, EnsureHas

(* A saved form, or a pasted batch, has been applied: every domain it stands *)
(* for has one rule with its target, switched as it says (applyRuleChange    *)
(* after ExpandRuleSiblings, mergeDuplicateRules).                           *)
THEOREM EditsAreApplied == Spec => []ChangeApplied
<1>1. RuleInv => ChangeApplied
  <2> SUFFICES ASSUME RuleInv, Numbered(rules), NoTwins(rules), NEW e \in Edits,
                      NEW q \in ToSet(e.items)
               PROVE  LET same == {x \in ToSet(Apply(rules, e.items)) : EquivalentRule(x, q)}
                      IN  Cardinality(same) = 1 /\ \A x \in same : x.on = q.on
    BY Zenon DEF ChangeApplied
  <2>1. PICK items : items = e.items
    OBVIOUS
  <2>2. Asked(e.id, items) /\ items \in Seq(Rule)
    BY <2>1, EditAsked DEF RuleInv, WellFormed, Asked
  <2>3. PICK k \in 1..Len(items) : q = items[k]
    BY <2>1, <2>2, LenProperties DEF ToSet
  <2>4. PICK next : next = Apply(rules, items)
    OBVIOUS
  <2>5. next \in Seq(Rule) /\ NoTwins(next) /\ Has(next, q)
    BY <2>2, <2>3, <2>4, RuleInvEditing, ApplyKeeps, EditApplied DEF WellFormed, NoWorse
  <2>6. PICK i \in 1..Len(next) : EquivalentRule(next[i], q) /\ next[i].on = q.on
    BY <2>5 DEF Has
  <2>7. PICK same : same = {x \in ToSet(next) : EquivalentRule(x, q)}
    OBVIOUS
  <2>8. same = {next[i]}
    <3>1. DOMAIN next = 1..Len(next)
      BY <2>5, LenProperties
    <3>2. next[i] \in same
      BY <2>6, <2>7, <3>1 DEF ToSet
    <3>3. ASSUME NEW x \in same PROVE x = next[i]
      <4>1. PICK j \in 1..Len(next) : x = next[j] /\ EquivalentRule(next[j], q)
        BY <2>7, <3>1, <3>3 DEF ToSet
      <4>2. EquivalentRule(next[j], next[i])
        BY <2>6, <4>1 DEF EquivalentRule, SameRulePattern
      <4>. QED  BY <2>5, <4>1, <4>2, NoTwinsByPosition
    <3>. QED  BY <3>2, <3>3
  <2>9. Cardinality(same) = 1
    BY <2>8, FS_Singleton
  <2>. QED  BY <2>1, <2>4, <2>6, <2>7, <2>8, <2>9
<1>. QED  BY <1>1, RulesWellFormed, PTL

-----------------------------------------------------------------------------
(* What decides a host: the first rule that is on and covers it.             *)
Decides(h, x) == x.on /\ x.pat \in Covers[h] \cup {MATCH}
FirstFor(h, s, i) ==
  /\ i \in 1..Len(s) /\ Decides(h, s[i])
  /\ \A j \in 1..Len(s) : j < i => ~Decides(h, s[j])
NoneFor(h, s) == \A j \in 1..Len(s) : ~Decides(h, s[j])

(* Both lists decide h alike.                                                *)
Alike(h, s, t) ==
  /\ \A i : FirstFor(h, s, i) => \E j : FirstFor(h, t, j) /\ t[j].target = s[i].target
  /\ NoneFor(h, s) => NoneFor(h, t)

LEMMA VerdictByPosition ==
  ASSUME NEW h, NEW s \in Seq(Rule)
  PROVE  /\ NoneFor(h, s) => Verdict(h, s) = "DIRECT"
         /\ \A i : FirstFor(h, s, i) => Verdict(h, s) = s[i].target
         /\ NoneFor(h, s) \/ \E i : FirstFor(h, s, i)
<1>1. PICK m \in Nat : m = Len(s)
  BY LenProperties
<1>2. PICK I : I = {i \in 1..m : Decides(h, s[i])}
  OBVIOUS
<1>3. PICK k : k = IF I # {} THEN Min(I) ELSE 0
  OBVIOUS
<1>4. Verdict(h, s) = IF k = 0 THEN "DIRECT" ELSE s[k].target
  BY <1>1, <1>2, <1>3, Zenon DEF Verdict, SelectInSeq, Decides
<1>5. CASE I = {}
  <2>1. NoneFor(h, s) /\ \A i : ~FirstFor(h, s, i)
    BY <1>1, <1>2, <1>5 DEF NoneFor, FirstFor
  <2>. QED  BY <1>3, <1>4, <1>5, <2>1
<1>6. CASE I # {}
  <2>1. k \in I /\ \A i \in I : k <= i
    <3>1. I \in SUBSET (1..m)
      BY <1>2
    <3>. QED  BY <1>3, <1>6, <3>1, FirstOfSet
  <2>2. k # 0 /\ k \in 1..m /\ Decides(h, s[k])
    BY <1>2, <2>1
  <2>3. FirstFor(h, s, k)
    BY <1>1, <1>2, <2>1, <2>2 DEF FirstFor
  <2>4. ~NoneFor(h, s)
    BY <1>1, <2>2 DEF NoneFor
  <2>5. ASSUME NEW i, FirstFor(h, s, i) PROVE i = k
    <3>1. i \in 1..m /\ i \in I /\ ~(k < i)
      BY <1>1, <1>2, <2>2, <2>5 DEF FirstFor
    <3>. QED  BY <2>1, <2>2, <3>1
  <2>. QED  BY <1>4, <2>2, <2>3, <2>4, <2>5
<1>. QED  BY <1>5, <1>6

LEMMA AlikeVerdicts ==
  ASSUME NEW h, NEW s \in Seq(Rule), NEW t \in Seq(Rule), Alike(h, s, t)
  PROVE  Verdict(h, t) = Verdict(h, s)
<1>1. CASE NoneFor(h, s)
  BY <1>1, VerdictByPosition DEF Alike
<1>2. CASE \E i : FirstFor(h, s, i)
  <2>1. PICK i : FirstFor(h, s, i)
    BY <1>2
  <2>2. PICK j : FirstFor(h, t, j) /\ t[j].target = s[i].target
    BY <2>1 DEF Alike
  <2>3. Verdict(h, s) = s[i].target
    BY <2>1, VerdictByPosition
  <2>4. Verdict(h, t) = t[j].target
    BY <2>2, VerdictByPosition
  <2>. QED  BY <2>2, <2>3, <2>4
<1>. QED  BY <1>1, <1>2, VerdictByPosition

(* A list being changed for the patterns of P: the fallback ends it, and no  *)
(* other domain is missing.                                                  *)
Within(s, P) ==
  /\ EndsInFallback(s)
  /\ \A k \in 1..Len(Builtins) : Builtins[k] \in P \/ \E i \in 1..Len(s) : s[i].pat = Builtins[k]

(* A rule of a form for P, and what it replaces.                             *)
ForP(s, r, P) ==
  /\ r \in Rule /\ MATCH \notin P /\ r.pat \in P
  /\ \A i \in 1..Len(s) : s[i].id = r.id => s[i].pat \in P

LEMMA ReplaceWithin ==
  ASSUME NEW s, Editing(s), NEW P, Within(s, P), NEW r, ForP(s, r, P),
         NEW t, NEW k, NEW p, Replaced(s, t, r, k, p)
  PROVE  Within(t, P)
<1>1. Len(s) \in Nat /\ Len(t) \in Nat /\ Len(s) # 0
  BY LenProperties DEF Editing, Replaced
<1>2. r.pat \in P /\ r.pat # MATCH /\ s[k].pat \in P /\ s[k].pat # MATCH /\ k \in 1..Len(s)
  BY DEF ForP, Replaced
<1>3. \A i \in 1..Len(s) : IsFallback(s[i]) <=> i = Len(s)
  BY DEF Within, EndsInFallback
<1>4. ASSUME NEW i \in 1..Len(s), s[i].pat \notin P PROVE \E j \in 1..Len(t) : p[j] = i /\ t[j] = s[i]
  <2>1. i # k /\ ~EquivalentRule(s[i], r)
    BY <1>2, <1>4 DEF EquivalentRule, SameRulePattern
  <2>2. PICK j \in 1..Len(t) : p[j] = i
    BY <2>1 DEF Replaced
  <2>3. t[j] = s[i]
    BY <2>1, <2>2 DEF Replaced
  <2>. QED  BY <2>2, <2>3
<1>5. PICK e \in 1..Len(t) : p[e] = Len(s) /\ t[e] = s[Len(s)]
  <2>1. Len(s) \in 1..Len(s) /\ s[Len(s)].pat \notin P
    BY <1>1, <1>3 DEF IsFallback, ForP
  <2>. QED  BY <1>4, <2>1
<1>6. ASSUME NEW j \in 1..Len(t) PROVE p[j] \in 1..Len(s) /\ (p[j] = Len(s) => j = e)
  <2>1. p[j] \in 1..Len(s) /\ p[e] \in Int
    BY <1>1, <1>5 DEF Replaced
  <2>2. j < e => p[j] < p[e]
    BY DEF Replaced
  <2>3. e < j => p[e] < p[j]
    BY DEF Replaced
  <2>. QED  BY <1>5, <2>1, <2>2, <2>3
<1>7. e = Len(t)
  <2> SUFFICES ASSUME e # Len(t) PROVE FALSE
    OBVIOUS
  <2>1. Len(t) \in 1..Len(t) /\ e < Len(t)
    BY <1>1
  <2>2. p[e] < p[Len(t)] /\ p[Len(t)] \in 1..Len(s)
    BY <1>6, <2>1 DEF Replaced
  <2>. QED  BY <1>1, <1>5, <2>2
<1>8. ASSUME NEW j \in 1..Len(t) PROVE IsFallback(t[j]) <=> j = Len(t)
  <2>1. CASE j = Len(t)
    BY <1>1, <1>3, <1>5, <1>7, <2>1
  <2>2. CASE j # Len(t)
    <3>1. p[j] \in 1..Len(s) /\ p[j] # Len(s)
      BY <1>6, <1>7, <2>2
    <3>2. t[j] = IF p[j] = k THEN r ELSE s[p[j]]
      BY DEF Replaced
    <3>3. ~IsFallback(s[p[j]]) /\ ~IsFallback(r)
      BY <1>2, <1>3, <3>1 DEF IsFallback
    <3>. QED  BY <2>2, <3>2, <3>3
  <2>. QED  BY <2>1, <2>2
<1>9. EndsInFallback(t)
  BY <1>1, <1>5, <1>8 DEF EndsInFallback
<1>10. ASSUME NEW l \in 1..Len(Builtins), Builtins[l] \notin P
       PROVE  \E j \in 1..Len(t) : t[j].pat = Builtins[l]
  <2>1. PICK i \in 1..Len(s) : s[i].pat = Builtins[l]
    BY <1>10 DEF Within
  <2>. QED  BY <1>4, <1>10, <2>1
<1>. QED  BY <1>9, <1>10 DEF Within

LEMMA SwitchWithin ==
  ASSUME NEW s, NEW P, Within(s, P), NEW r, NEW t, NEW k, Switched(s, t, r, k)
  PROVE  Within(t, P)
<1>1. Len(t) = Len(s) /\ \A i \in 1..Len(s) : t[i].pat = s[i].pat /\ t[i].target = s[i].target
  BY DEF Switched
<1>2. EndsInFallback(t)
  BY <1>1 DEF Within, EndsInFallback, IsFallback
<1>. QED  BY <1>1, <1>2 DEF Within

LEMMA AddWithin ==
  ASSUME NEW s, Editing(s), NEW P, Within(s, P), NEW r, ForP(s, r, P),
         NEW t, NEW x, Added(s, t, r, x)
  PROVE  Within(t, P)
<1>1. PICK m \in Nat : Len(s) = m + 1
  <2>1. Len(s) \in Nat /\ Len(s) # 0
    BY LenProperties DEF Editing
  <2>2. Len(s) - 1 \in Nat /\ Len(s) = (Len(s) - 1) + 1
    BY <2>1
  <2>. QED  BY <2>2
<1>2. /\ Len(t) = m + 2 /\ t[m + 1] = x /\ t[m + 2] = s[m + 1]
      /\ \A i \in 1..m : t[i] = s[i]
  <2>1. (m + 1) - 1 = m /\ (m + 1) + 1 = m + 2
    OBVIOUS
  <2>. QED  BY <1>1, <2>1 DEF Added
<1>3. ~IsFallback(x)
  BY DEF Added, SameRule, ForP, IsFallback
<1>4. \A i \in 1..(m + 1) : IsFallback(s[i]) <=> i = m + 1
  BY <1>1 DEF Within, EndsInFallback
<1>5. \A j \in 1..(m + 2) : j \in 1..m \/ j = m + 1 \/ j = m + 2
  OBVIOUS
<1>6. EndsInFallback(t)
  <2>1. \A j \in 1..m : j \in 1..(m + 1) /\ j # m + 1 /\ j # m + 2
    OBVIOUS
  <2>2. m + 1 \in 1..(m + 1) /\ m + 1 # m + 2 /\ m + 2 # 0
    OBVIOUS
  <2>3. ASSUME NEW j \in 1..(m + 2) PROVE IsFallback(t[j]) <=> j = m + 2
    BY <1>2, <1>3, <1>4, <1>5, <2>1, <2>2
  <2>. QED  BY <1>2, <2>2, <2>3 DEF EndsInFallback
<1>7. ASSUME NEW l \in 1..Len(Builtins), Builtins[l] \notin P
      PROVE  \E j \in 1..Len(t) : t[j].pat = Builtins[l]
  <2>1. PICK i \in 1..(m + 1) : s[i].pat = Builtins[l]
    BY <1>1, <1>7 DEF Within
  <2>2. CASE i = m + 1
    <3>1. m + 2 \in 1..Len(t)
      BY <1>2
    <3>. QED  BY <1>2, <2>1, <2>2, <3>1
  <2>3. CASE i # m + 1
    <3>1. i \in 1..m /\ i \in 1..Len(t)
      BY <1>2, <2>3
    <3>. QED  BY <1>2, <2>1, <3>1
  <2>. QED  BY <2>2, <2>3
<1>. QED  BY <1>6, <1>7 DEF Within

(* The change is about patterns that do not cover h.                         *)
LEMMA ReplaceAlike ==
  ASSUME NEW s, Editing(s), NEW P, NEW r, ForP(s, r, P), NEW h, Covers[h] \cap P = {},
         NEW t, NEW k, NEW p, Replaced(s, t, r, k, p)
  PROVE  Alike(h, s, t)
<1>1. ~Decides(h, r) /\ ~Decides(h, s[k])
  BY DEF ForP, Replaced, Decides
<1>2. ASSUME NEW i \in 1..Len(s), Decides(h, s[i]) PROVE \E j \in 1..Len(t) : p[j] = i /\ t[j] = s[i]
  <2>1. i # k /\ ~EquivalentRule(s[i], r)
    <3>1. s[i].pat # r.pat
      BY <1>2 DEF ForP, Decides
    <3>. QED  BY <1>1, <1>2, <3>1 DEF EquivalentRule, SameRulePattern
  <2>2. PICK j \in 1..Len(t) : p[j] = i
    BY <2>1 DEF Replaced
  <2>3. t[j] = s[i]
    BY <2>1, <2>2 DEF Replaced
  <2>. QED  BY <2>2, <2>3
<1>3. ASSUME NEW j \in 1..Len(t), Decides(h, t[j]) PROVE p[j] \in 1..Len(s) /\ Decides(h, s[p[j]])
  <2>1. p[j] \in 1..Len(s) /\ t[j] = IF p[j] = k THEN r ELSE s[p[j]]
    BY DEF Replaced
  <2>. QED  BY <1>1, <1>3, <2>1
<1>4. ASSUME NEW i, FirstFor(h, s, i) PROVE \E j : FirstFor(h, t, j) /\ t[j].target = s[i].target
  <2>1. i \in 1..Len(s) /\ Decides(h, s[i])
    BY <1>4 DEF FirstFor
  <2>2. PICK j \in 1..Len(t) : p[j] = i /\ t[j] = s[i]
    BY <1>2, <2>1
  <2>3. ASSUME NEW l \in 1..Len(t), l < j PROVE ~Decides(h, t[l])
    <3>1. p[l] < i
      BY <2>2, <2>3 DEF Replaced
    <3>. QED  BY <1>3, <1>4, <3>1 DEF FirstFor
  <2>4. FirstFor(h, t, j)
    BY <2>1, <2>2, <2>3 DEF FirstFor
  <2>. QED  BY <2>2, <2>4
<1>5. NoneFor(h, s) => NoneFor(h, t)
  BY <1>3 DEF NoneFor
<1>. QED  BY <1>4, <1>5 DEF Alike

LEMMA SwitchAlike ==
  ASSUME NEW s, NEW P, NEW r, ForP(s, r, P), NEW h, Covers[h] \cap P = {},
         NEW t, NEW k, Switched(s, t, r, k)
  PROVE  Alike(h, s, t)
<1>1. Len(t) = Len(s)
  BY DEF Switched
<1>2. ASSUME NEW i \in 1..Len(s)
      PROVE  (Decides(h, t[i]) <=> Decides(h, s[i])) /\ t[i].target = s[i].target
  <2>1. /\ t[i].pat = s[i].pat /\ t[i].target = s[i].target
        /\ t[i].on = IF i = k THEN r.on ELSE s[i].on
    BY DEF Switched
  <2>2. CASE i = k
    <3>1. s[i].pat = r.pat
      BY <2>2 DEF Switched, EquivalentRule, SameRulePattern
    <3>. QED  BY <2>1, <3>1 DEF ForP, Decides
  <2>3. CASE i # k
    BY <2>1, <2>3 DEF Decides
  <2>. QED  BY <2>2, <2>3
<1>3. ASSUME NEW i, FirstFor(h, s, i) PROVE FirstFor(h, t, i) /\ t[i].target = s[i].target
  BY <1>1, <1>2, <1>3 DEF FirstFor
<1>4. NoneFor(h, s) => NoneFor(h, t)
  BY <1>1, <1>2 DEF NoneFor
<1>. QED  BY <1>3, <1>4 DEF Alike

LEMMA AddAlike ==
  ASSUME NEW s, Editing(s), NEW P, NEW r, ForP(s, r, P), NEW h, Covers[h] \cap P = {},
         NEW t, NEW x, Added(s, t, r, x)
  PROVE  Alike(h, s, t)
<1>1. PICK m \in Nat : Len(s) = m + 1
  <2>1. Len(s) \in Nat /\ Len(s) # 0
    BY LenProperties DEF Editing
  <2>2. Len(s) - 1 \in Nat /\ Len(s) = (Len(s) - 1) + 1
    BY <2>1
  <2>. QED  BY <2>2
<1>2. /\ Len(t) = m + 2 /\ t[m + 1] = x /\ t[m + 2] = s[m + 1]
      /\ \A i \in 1..m : t[i] = s[i]
  <2>1. (m + 1) - 1 = m /\ (m + 1) + 1 = m + 2
    OBVIOUS
  <2>. QED  BY <1>1, <2>1 DEF Added
<1>3. ~Decides(h, x)
  BY DEF Added, SameRule, ForP, Decides
<1>4. \A j \in 1..(m + 2) : j \in 1..m \/ j = m + 1 \/ j = m + 2
  OBVIOUS
<1>5. \A j \in 1..(m + 1) : j \in 1..m \/ j = m + 1
  OBVIOUS
<1>6. ASSUME NEW i, FirstFor(h, s, i) PROVE \E j : FirstFor(h, t, j) /\ t[j].target = s[i].target
  <2>1. i \in 1..(m + 1) /\ Decides(h, s[i]) /\ \A j \in 1..(m + 1) : j < i => ~Decides(h, s[j])
    BY <1>1, <1>6 DEF FirstFor
  <2>2. CASE i = m + 1
    <3>1. \A j \in 1..m : ~Decides(h, t[j])
      <4>1. \A j \in 1..m : j \in 1..(m + 1) /\ j < m + 1
        OBVIOUS
      <4>. QED  BY <1>2, <2>1, <2>2, <4>1
    <3>2. m + 2 \in 1..(m + 2) /\ \A j \in 1..(m + 2) : j < m + 2 => j \in 1..m \/ j = m + 1
      OBVIOUS
    <3>3. FirstFor(h, t, m + 2)
      BY <1>2, <1>3, <2>1, <2>2, <3>1, <3>2 DEF FirstFor
    <3>. QED  BY <1>2, <2>2, <3>3
  <2>3. CASE i # m + 1
    <3>1. i \in 1..m /\ i \in 1..(m + 2) /\ t[i] = s[i]
      BY <1>2, <2>1, <2>3
    <3>2. ASSUME NEW j \in 1..(m + 2), j < i PROVE ~Decides(h, t[j])
      <4>1. j \in 1..m /\ j \in 1..(m + 1)
        BY <3>1, <3>2
      <4>. QED  BY <1>2, <2>1, <3>2, <4>1
    <3>3. FirstFor(h, t, i)
      BY <1>2, <2>1, <3>1, <3>2 DEF FirstFor
    <3>. QED  BY <3>1, <3>3
  <2>. QED  BY <2>2, <2>3
<1>7. ASSUME NoneFor(h, s) PROVE NoneFor(h, t)
  <2>1. \A j \in 1..(m + 1) : ~Decides(h, s[j])
    BY <1>1, <1>7 DEF NoneFor
  <2>2. m + 1 \in 1..(m + 1) /\ \A j \in 1..m : j \in 1..(m + 1)
    OBVIOUS
  <2>3. \A j \in 1..(m + 2) : ~Decides(h, t[j])
    BY <1>2, <1>3, <1>4, <2>1, <2>2
  <2>. QED  BY <1>2, <2>3 DEF NoneFor
<1>. QED  BY <1>6, <1>7 DEF Alike

LEMMA ChangeLocal ==
  ASSUME NEW s, Editing(s), NEW P, Within(s, P), NEW r, ForP(s, r, P), NEW h, Covers[h] \cap P = {}
  PROVE  /\ Within(ApplyRuleChange(s, r), P)
         /\ Alike(h, s, ApplyRuleChange(s, r))
<1>1. PICK t : t = ApplyRuleChange(s, r)
  OBVIOUS
<1>2. ChangedBy(s, t, r)
  BY <1>1, ChangeCases DEF Editing, ForP
<1>3. ASSUME NEW k, NEW p, Replaced(s, t, r, k, p) PROVE Within(t, P) /\ Alike(h, s, t)
  BY <1>3, ReplaceWithin, ReplaceAlike
<1>4. ASSUME NEW k, Switched(s, t, r, k) PROVE Within(t, P) /\ Alike(h, s, t)
  BY <1>4, SwitchWithin, SwitchAlike
<1>5. ASSUME NEW x, Added(s, t, r, x) PROVE Within(t, P) /\ Alike(h, s, t)
  BY <1>5, AddWithin, AddAlike
<1>. QED  BY <1>1, <1>2, <1>3, <1>4, <1>5 DEF ChangedBy

(* The rewriting: what is added for a missing domain is about P too.         *)
LEMMA EnsureAlike ==
  ASSUME NEW s, Editing(s), NEW P, Within(s, P), NEW h, Covers[h] \cap P = {}
  PROVE  Alike(h, s, EnsureInvariants(s))
<1>1. PICK t : t = EnsureInvariants(s)
  OBVIOUS
<1>2. s \in Seq(Rule) /\ Len(s) \in Nat /\ Len(s) # 0
  BY LenProperties DEF Editing
<1>3. PICK a \in Nat, b \in Nat : \E p, q : Rebuilt(s, t, a, b, p, q)
  BY <1>1, <1>2, EnsureRebuilds
<1>3a. PICK p, q : Rebuilt(s, t, a, b, p, q)
  BY <1>3
<1>4. Len(t) = a + b + 1
  BY <1>3a DEF Rebuilt
<1>5. \A i \in 1..Len(t) : i \in 1..a \/ i = a + b + 1 \/ \E j \in 1..b : i = a + j
  <2>1. ASSUME NEW i \in 1..Len(t), i \notin 1..a, i # a + b + 1 PROVE i - a \in 1..b /\ i = a + (i - a)
    BY <1>4, <2>1
  <2>. QED  BY <2>1
<1>6. \A i \in 1..Len(s) : IsFallback(s[i]) <=> i = Len(s)
  BY DEF Within, EndsInFallback
<1>7. PICK m : m = Len(s) /\ m \in 1..Len(s)
  BY <1>2
<1>8. ASSUME NEW x, NEW y, SameRule(x, y) PROVE (Decides(h, x) <=> Decides(h, y)) /\ x.target = y.target
  BY <1>8 DEF SameRule, Decides
<1>9. ASSUME NEW i \in 1..a
      PROVE  /\ p[i] \in 1..Len(s) /\ p[i] # m
             /\ (Decides(h, t[i]) <=> Decides(h, s[p[i]])) /\ t[i].target = s[p[i]].target
  <2>1. p[i] \in 1..Len(s) /\ SameRule(t[i], s[p[i]]) /\ ~IsFallback(s[p[i]])
    BY <1>3a DEF Rebuilt
  <2>. QED  BY <1>6, <1>7, <1>8, <2>1
<1>10. ASSUME NEW j \in 1..b PROVE ~Decides(h, t[a + j])
  <2>1. /\ q[j] \in 1..Len(Builtins) /\ SameRule(t[a + j], CommonDomainRules[q[j]])
        /\ \A i \in 1..a : t[i].pat # Builtins[q[j]]
    BY <1>3a DEF Rebuilt
  <2>2. t[a + j].pat = Builtins[q[j]] /\ Builtins[q[j]] # MATCH
    BY <2>1, BuiltinRule DEF SameRule
  <2>3. ASSUME NEW i \in 1..Len(s), s[i].pat = Builtins[q[j]] PROVE FALSE
    <3>1. ~IsFallback(s[i])
      BY <2>2, <2>3 DEF IsFallback
    <3>2. PICK l \in 1..a : p[l] = i
      BY <1>3a, <3>1 DEF Rebuilt
    <3>3. SameRule(t[l], s[i])
      BY <1>3a, <3>2 DEF Rebuilt
    <3>. QED  BY <2>1, <2>3, <3>2, <3>3 DEF SameRule
  <2>4. Builtins[q[j]] \in P
    BY <2>1, <2>3 DEF Within
  <2>. QED  BY <2>2, <2>4 DEF Decides
<1>11. (Decides(h, t[a + b + 1]) <=> Decides(h, s[m])) /\ t[a + b + 1].target = s[m].target
  <2>1. LastFallback(s) = s[m]
    BY <1>2, <1>6, <1>7, LastFallbackIsOne
  <2>2. SameRule(t[a + b + 1], s[m])
    BY <1>3a, <2>1 DEF Rebuilt
  <2>. QED  BY <1>8, <2>2
<1>12. ASSUME NEW i \in 1..Len(s), i # m PROVE \E j \in 1..a : p[j] = i
  BY <1>3a, <1>6, <1>7, <1>12 DEF Rebuilt
<1>13. /\ \A j \in 1..a : j \in 1..Len(t)
       /\ a + b + 1 \in 1..Len(t)
  BY <1>4
<1>14. ASSUME NEW i, FirstFor(h, s, i) PROVE \E j : FirstFor(h, t, j) /\ t[j].target = s[i].target
  <2>1. i \in 1..Len(s) /\ Decides(h, s[i])
    BY <1>14 DEF FirstFor
  <2>2. CASE i = m
    <3>1. ASSUME NEW j \in 1..Len(t), j < a + b + 1 PROVE ~Decides(h, t[j])
      <4>1. CASE j \in 1..a
        <5>1. p[j] \in 1..Len(s) /\ p[j] < i
          BY <1>2, <1>7, <1>9, <2>2, <4>1
        <5>. QED  BY <1>9, <1>14, <4>1, <5>1 DEF FirstFor
      <4>2. CASE \E l \in 1..b : j = a + l
        BY <1>10, <4>2
      <4>. QED  BY <1>5, <3>1, <4>1, <4>2
    <3>2. FirstFor(h, t, a + b + 1)
      BY <1>11, <1>13, <2>1, <2>2, <3>1 DEF FirstFor
    <3>. QED  BY <1>11, <2>2, <3>2
  <2>3. CASE i # m
    <3>1. PICK j \in 1..a : p[j] = i
      BY <1>12, <2>1, <2>3
    <3>2. ASSUME NEW l \in 1..Len(t), l < j PROVE ~Decides(h, t[l])
      <4>1. l \in 1..a
        BY <3>2
      <4>2. p[l] < i
        BY <1>3a, <3>1, <3>2, <4>1 DEF Rebuilt
      <4>. QED  BY <1>9, <1>14, <4>1, <4>2 DEF FirstFor
    <3>3. FirstFor(h, t, j)
      BY <1>9, <1>13, <2>1, <3>1, <3>2 DEF FirstFor
    <3>. QED  BY <1>9, <3>1, <3>3
  <2>. QED  BY <2>2, <2>3
<1>15. ASSUME NoneFor(h, s) PROVE NoneFor(h, t)
  BY <1>5, <1>7, <1>9, <1>10, <1>11, <1>15 DEF NoneFor
<1>. QED  BY <1>1, <1>14, <1>15 DEF Alike

LEMMA AlikeSteps ==
  ASSUME NEW h, NEW s, NEW t, NEW u, Alike(h, s, t), Alike(h, t, u)
  PROVE  Alike(h, s, u)
<1>1. ASSUME NEW i, FirstFor(h, s, i) PROVE \E l : FirstFor(h, u, l) /\ u[l].target = s[i].target
  <2>1. PICK j : FirstFor(h, t, j) /\ t[j].target = s[i].target
    BY <1>1 DEF Alike
  <2>2. PICK l : FirstFor(h, u, l) /\ u[l].target = t[j].target
    BY <2>1 DEF Alike
  <2>. QED  BY <2>1, <2>2
<1>. QED  BY <1>1 DEF Alike

LEMMA AlikeItself ==
  ASSUME NEW h, NEW s
  PROVE  Alike(h, s, s)
BY DEF Alike

LEMMA IsLocal ==
  ASSUME NEW s, Editing(s), NEW P, MATCH \notin P, Within(s, P), NEW h, Covers[h] \cap P = {},
         NEW id, NEW items, Asked(id, items),
         \A n \in 1..Len(items) : items[n].pat \in P,
         \A i \in 1..Len(s) : s[i].id = id => s[i].pat \in P
  PROVE  Verdict(h, Apply(s, items)) = Verdict(h, s)
<1>1. PICK m \in Nat : m = Len(items) /\ items \in Seq(Rule)
  BY LenProperties DEF Asked
<1>2. PICK f : AppliedBy(s, items, f)
  BY <1>1, ApplySteps
<1>3. /\ f[0] = s /\ \A n \in 0..m : Editing(f[n])
      /\ \A n \in 1..m : f[n] = ApplyRuleChange(f[n - 1], items[n])
      /\ Apply(s, items) = EnsureInvariants(f[m])
  BY <1>1, <1>2 DEF AppliedBy
<1> DEFINE T == {n \in Nat : n <= m => Within(f[n], P) /\ Alike(h, s, f[n])}
<1>4. 0 \in T
  BY <1>3, AlikeItself
<1>5. ASSUME NEW n \in Nat, n \in T PROVE n + 1 \in T
  <2> SUFFICES ASSUME n + 1 <= m PROVE Within(f[n + 1], P) /\ Alike(h, s, f[n + 1])
    OBVIOUS
  <2>1. n \in 0..m /\ n + 1 \in 1..m /\ (n + 1) - 1 = n
    OBVIOUS
  <2>2. /\ Editing(f[n]) /\ f[n + 1] = ApplyRuleChange(f[n], items[n + 1])
        /\ Within(f[n], P) /\ Alike(h, s, f[n])
    BY <1>3, <1>5, <2>1
  <2>3. items[n + 1] \in Rule /\ items[n + 1].pat \in P
    BY <1>1, <2>1, ElementOfSeq
  <2>4. \A i \in 1..Len(f[n]) : f[n][i].id = items[n + 1].id => f[n][i].pat \in P
    <3>1. CASE m = 1 /\ items[1].id = id
      <4>1. n = 0
        BY <3>1
      <4>. QED  BY <1>3, <3>1, <4>1
    <3>2. CASE \A i \in 1..m : items[i].id = 0
      BY <2>1, <2>2, <3>2 DEF Editing, HasIds
    <3>. QED  BY <1>1, <3>1, <3>2 DEF Asked
  <2>5. ForP(f[n], items[n + 1], P)
    BY <2>3, <2>4 DEF ForP
  <2>6. Within(f[n + 1], P) /\ Alike(h, f[n], f[n + 1])
    BY <2>2, <2>5, ChangeLocal
  <2>. QED  BY <2>2, <2>6, AlikeSteps
<1>. HIDE DEF T
<1>6. m \in T
  BY <1>4, <1>5, Induction
<1>7. Within(f[m], P) /\ Alike(h, s, f[m]) /\ Editing(f[m])
  <2>1. m \in 0..m
    OBVIOUS
  <2>. QED  BY <1>3, <1>6, <2>1 DEF T
<1>8. Alike(h, s, Apply(s, items))
  BY <1>3, <1>7, EnsureAlike, AlikeSteps
<1>9. s \in Seq(Rule) /\ Apply(s, items) \in Seq(Rule)
  BY <1>1, ApplyKeeps DEF Editing, WellFormed
<1>. QED  BY <1>8, <1>9, AlikeVerdicts

(* A saved form, or a pasted batch, decides differently only hosts it is     *)
(* about: the first match of Engine.Match, after the change and the          *)
(* rewriting of the list.                                                    *)
THEOREM EditsAreLocal == Spec => []EditIsLocal
<1>1. RuleInv => EditIsLocal
  <2> SUFFICES ASSUME RuleInv, NEW e \in Edits, MATCH \notin EditPatterns(e),
                      NEW h \in Hosts, Covers[h] \cap EditPatterns(e) = {}
               PROVE  Verdict(h, Apply(rules, e.items)) = Verdict(h, rules)
    BY Zenon DEF EditIsLocal
  <2>1. PICK id, items : id = e.id /\ items = e.items
    OBVIOUS
  <2>2. Asked(id, items)
    BY <2>1, EditAsked DEF RuleInv, WellFormed
  <2>3. PICK P : P = EditPatterns(e)
    OBVIOUS
  <2>4. ASSUME NEW n \in 1..Len(items) PROVE items[n].pat \in P
    <3>1. items[n] \in ToSet(items)
      BY <2>2, LenProperties DEF Asked, ToSet
    <3>. QED  BY <2>1, <2>3, <3>1 DEF EditPatterns
  <2>5. ASSUME NEW i \in 1..Len(rules), rules[i].id = id PROVE rules[i].pat \in P
    <3>1. rules[i] \in {x \in ToSet(rules) : x.id = id}
      BY <2>5, RuleInvEditing DEF ToSet
    <3>. QED  BY <2>1, <2>3, <3>1 DEF EditPatterns
  <2>6. Within(rules, P)
    BY DEF RuleInv, WellFormed, HasBuiltins, Within
  <2>. QED  BY <2>1, <2>2, <2>3, <2>4, <2>5, <2>6, RuleInvEditing, IsLocal
<1>. QED  BY <1>1, RulesWellFormed, PTL
=============================================================================
