------------------------------- MODULE RuleList -------------------------------
(***************************************************************************)
(* The ordered list of routing rules: the window's calls that change it    *)
(* (app.go), the rewriting every change goes through (ensureInvariants of  *)
(* internal/config), the built-in domain families and the first match that *)
(* decides a host (internal/rules).                                        *)
(*                                                                         *)
(* Type and value of a rule are one pattern; folder and remark do not      *)
(* decide anything and are left out.  Each call changes the list under the *)
(* store's lock, in one step.                                              *)
(***************************************************************************)
EXTENDS Naturals, FiniteSets, SequencesExt

CONSTANTS Patterns,   \* type and value of rules, MATCH excepted
          Builtins,   \* the built-in domains, in their order
          FamilyOf,   \* the built-in domains of a pattern's family; << >> without one
          Hosts,      \* hosts to decide
          Covers,     \* the patterns that match a host
          Targets,    \* where rules send a connection
          Imports,    \* rule lists of configurations to import
          MaxRules,   \* bound on the length of the list
          MaxCalls    \* bound on the calls of the window

MATCH == "MATCH"

Rule == [id : Nat, pat : Patterns \cup {MATCH}, target : Targets, on : BOOLEAN]

ASSUME RuleListAssumption ==
  /\ MATCH \notin Patterns
  /\ Builtins \in Seq(Patterns) /\ IsInjective(Builtins)
  /\ FamilyOf \in [Patterns -> Seq(ToSet(Builtins))]
  /\ Covers \in [Hosts -> SUBSET Patterns]
  /\ {"PROXY", "DIRECT"} \subseteq Targets /\ Targets \subseteq {"PROXY", "DIRECT", "REJECT"}
  /\ Imports \subseteq Seq(Rule) /\ MaxRules \in Nat /\ MaxCalls \in Nat

VARIABLES rules, calls

-----------------------------------------------------------------------------
(* rules.SameRulePattern and rules.EquivalentRule. *)
SameRulePattern(r, q) == r.pat = q.pat
EquivalentRule(r, q) == SameRulePattern(r, q) /\ r.target = q.target

IsFallback(r) == r.pat = MATCH /\ r.target = "DIRECT"

Ids(s) == {s[i].id : i \in DOMAIN s}

(* The loops that rebuild the list from the rules at the positions of K. *)
Keep(s, K) ==
  LET kept[n \in 0..Len(s)] ==
        IF n = 0 THEN << >> ELSE IF n \in K THEN Append(kept[n - 1], s[n]) ELSE kept[n - 1]
  IN  kept[Len(s)]

(* An id is given out by uuid.NewString; 0 stands for the empty one. *)
NewIdZero(s) == 0
NewId(s) == CHOOSE i \in 1..(Len(s) + 1) : i \notin Ids(s)

WithIds(s) ==
  LET given[n \in 0..Len(s)] ==
        IF n = 0 THEN s
        ELSE LET t == given[n - 1]
             IN  IF t[n].id = 0 THEN [t EXCEPT ![n].id = NewId(t)] ELSE t
  IN  given[Len(s)]

NewRule(p, target) == [id |-> 0, pat |-> p, target |-> target, on |-> TRUE]
CommonDomainRules == [i \in DOMAIN Builtins |-> NewRule(Builtins[i], "PROXY")]
Fallback == NewRule(MATCH, "DIRECT")

(* Store.ensureInvariants: a fallback at the end, every built-in domain      *)
(* somewhere, everything with an id.                                         *)
MissingFrom(s) ==
  Keep(CommonDomainRules,
       {b \in DOMAIN Builtins : \A i \in DOMAIN s : ~SameRulePattern(s[i], CommonDomainRules[b])})

LastMatch(s) ==
  IF \E i \in DOMAIN s : s[i].pat = MATCH THEN s[SelectLastInSeq(s, LAMBDA r : r.pat = MATCH)] ELSE Fallback
LastFallback(s) ==
  IF \E i \in DOMAIN s : IsFallback(s[i]) THEN s[SelectLastInSeq(s, IsFallback)] ELSE Fallback

WithoutFallbackNone(s) == s
WithoutFallback(s) == Keep(s, {i \in DOMAIN s : ~IsFallback(s[i])})

EnsureInvariants(s) ==
  LET filtered == WithoutFallback(s)
  IN  WithIds(filtered \o MissingFrom(filtered) \o <<LastFallback(s)>>)

-----------------------------------------------------------------------------
(* rules.ExpandRuleSiblings: a rule for a domain of a family stands for the  *)
(* whole family and loses its id.                                            *)
ExpandRuleSiblings(r) ==
  IF FamilyOf[r.pat] = << >>
  THEN <<r>>
  ELSE [i \in DOMAIN FamilyOf[r.pat] |-> [r EXCEPT !.id = 0, !.pat = FamilyOf[r.pat][i]]]

(* mergeDuplicateRules: of the rules equivalent to keep only keep stays. *)
MergeNothing(s, keep) == s
MergeSameTarget(s, keep) ==
  Keep(s, {i \in DOMAIN s : s[i].id = keep.id \/ s[i].target # keep.target \/ s[i].pat = MATCH})
MergeDuplicateRules(s, keep) ==
  Keep(s, {i \in DOMAIN s : s[i].id = keep.id \/ ~EquivalentRule(s[i], keep)})

(* An equivalent rule is switched on or off. *)
SwitchForgotten(s, i, r) == s
Switch(s, i, r) == [s EXCEPT ![i].on = r.on]

(* applyRuleChange: the rule with that id is replaced, or an equivalent one  *)
(* is switched, or the rule is added just before the last.                   *)
ApplyRuleChange(s, r) ==
  LET byId == SelectInSeq(s, LAMBDA q : q.id = r.id /\ r.id # 0)
      same == SelectInSeq(s, LAMBDA q : EquivalentRule(q, r))
  IN  CASE byId # 0 -> MergeDuplicateRules(ReplaceAt(s, byId, r), r)
        [] byId = 0 /\ same # 0 -> Switch(s, same, r)
        [] byId = 0 /\ same = 0 ->
             InsertAt(s, Len(s), IF r.id = 0 THEN [r EXCEPT !.id = NewId(s)] ELSE r)

Apply(s, items) ==
  LET after[n \in 0..Len(items)] ==
        IF n = 0 THEN s ELSE ApplyRuleChange(after[n - 1], items[n])
  IN  EnsureInvariants(after[Len(items)])

-----------------------------------------------------------------------------
Init == rules = EnsureInvariants(<< >>) /\ calls = 0

(* The form of one rule: a new one (id 0) or one of the list. *)
Forms == [id : Ids(rules) \cup {0}, pat : Patterns, target : Targets, on : BOOLEAN]

UpsertRule(r) == rules' = Apply(rules, ExpandRuleSiblings(r))

(* Several lines pasted at once, all with one target. *)
Batches == {ps \in Patterns \X Patterns : ps[1] # ps[2]}

BatchItems(ps, target, on) ==
  LET line(p) == ExpandRuleSiblings([NewRule(p, target) EXCEPT !.on = on])
  IN  line(ps[1]) \o line(ps[2])

BatchUpsertRules(ps, target, on) == rules' = Apply(rules, BatchItems(ps, target, on))

(* The fallback cannot be deleted. *)
DeleteRule(id) ==
  /\ \A i \in DOMAIN rules : rules[i].id = id => rules[i].pat # MATCH
  /\ rules' = EnsureInvariants(Keep(rules, {i \in DOMAIN rules : rules[i].id # id}))

(* MATCH rules do not move, and nothing moves below the last. *)
Swap(s, i, j) == [s EXCEPT ![i] = s[j], ![j] = s[i]]

MoveRule(id, direction) ==
  \E i \in DOMAIN rules :
    LET j == IF direction = "down" THEN i + 1 ELSE i - 1
    IN  /\ rules[i].id = id /\ \A k \in 1..(i - 1) : rules[k].id # id
        /\ rules[i].pat # MATCH
        /\ j \in 1..(Len(rules) - 1)
        /\ rules' = EnsureInvariants(Swap(rules, i, j))

ImportConfig(s) == rules' = EnsureInvariants(s)

Next ==
  \/ \E r \in Forms : UpsertRule(r)
  \/ \E ps \in Batches, target \in Targets, on \in BOOLEAN : BatchUpsertRules(ps, target, on)
  \/ \E id \in Ids(rules) : DeleteRule(id)
  \/ \E id \in Ids(rules), direction \in {"up", "down"} : MoveRule(id, direction)
  \/ \E s \in Imports : ImportConfig(s)

BoundedNext ==
  /\ calls < MaxCalls /\ calls' = calls + 1
  /\ Next
  /\ Len(rules') <= MaxRules

Spec == Init /\ [][BoundedNext]_<<rules, calls>>

-----------------------------------------------------------------------------
(* Engine.Match: the first enabled rule that matches, DIRECT without one. *)
Verdict(h, s) ==
  LET i == SelectInSeq(s, LAMBDA r : r.on /\ r.pat \in Covers[h] \cup {MATCH})
  IN  IF i = 0 THEN "DIRECT" ELSE s[i].target

NoTwins(s) == \A i, j \in DOMAIN s : EquivalentRule(s[i], s[j]) => i = j

(* No two rules share an id; in a file written by hand they may. *)
Numbered(s) == \A i, j \in DOMAIN s : s[i].id = s[j].id => i = j

TypeOK == rules \in Seq(Rule) /\ 0 \notin Ids(rules)

(* README: MATCH,DIRECT is always kept, once, as the last rule.              *)
FallbackLast ==
  /\ rules # << >>
  /\ \A i \in DOMAIN rules : IsFallback(rules[i]) <=> i = Len(rules)

(* Saving the list and loading it again, which rewrites it twice, changes    *)
(* nothing: not the order, not an id a window may hold.                      *)
RestartKeeps == EnsureInvariants(rules) = rules

(* No change made in the window makes two rules share an id, nor makes two   *)
(* equivalent rules where there were none: the edited one takes the place of *)
(* its duplicates.                                                           *)
NoNewTwins ==
  [][\/ \E s \in Imports : ImportConfig(s)
     \/ Numbered(rules) => Numbered(rules') /\ (NoTwins(rules) => NoTwins(rules'))]_rules

(* What the window asks for at once: the rules to apply one after the other, *)
(* and the id of the rule they may replace.                                  *)
FormEdits == {[id |-> r.id, items |-> ExpandRuleSiblings(r)] : r \in Forms}
BatchEdits ==
  {[id |-> 0, items |-> BatchItems(ps, target, on)] : ps \in Batches, target \in Targets, on \in BOOLEAN}
Edits == FormEdits \cup BatchEdits

(* A saved form, or a pasted batch, decides differently only hosts that the  *)
(* patterns it stands for, or the pattern of the rule it replaces, match.    *)
EditPatterns(e) ==
  {q.pat : q \in ToSet(e.items)} \cup {q.pat : q \in {x \in ToSet(rules) : x.id = e.id}}

EditIsLocal ==
  \A e \in Edits :
    LET next == Apply(rules, e.items)
    IN  MATCH \notin EditPatterns(e) =>
          \A h \in Hosts : Covers[h] \cap EditPatterns(e) = {} => Verdict(h, next) = Verdict(h, rules)

(* After a form is saved, or lines are pasted, every domain they stand for   *)
(* has a rule with their target, switched as they say, and no other rule for *)
(* both.                                                                     *)
ChangeApplied ==
  Numbered(rules) /\ NoTwins(rules) => \A e \in Edits :
    LET next == Apply(rules, e.items)
    IN  \A q \in ToSet(e.items) :
          LET same == {x \in ToSet(next) : EquivalentRule(x, q)}
          IN  Cardinality(same) = 1 /\ \A x \in same : x.on = q.on

(* Saving the form of a rule with another target changes that rule: the old  *)
(* one does not stay in the list, before the new one.                        *)
EditReplaces ==
  [][\A r \in Forms : UpsertRule(r) =>
       \A old \in ToSet(rules) :
         old.id = r.id /\ old.pat = r.pat /\ old.target # r.target => old \notin ToSet(rules')]_rules
=============================================================================
