------------------------------ MODULE MCRuleList ------------------------------
(* Finite instance of RuleList: a family of two built-in domains with a      *)
(* subdomain that belongs to it, and a domain of the user's own.             *)
EXTENDS RuleList

TwoTargets == {"PROXY", "DIRECT"}
ThreePatterns == {"openai.com", "chatgpt.com", "example.com"}
TwoBuiltins == <<"openai.com", "chatgpt.com">>
OneFamily == [p \in Patterns |-> IF p = "example.com" THEN << >> ELSE TwoBuiltins]

(* A host for each pattern, one that two patterns match, one that none does. *)
FourHosts == {"chat", "example", "both", "other"}
HostCovers ==
  [h \in Hosts |-> CASE h = "chat" -> {"chatgpt.com"}
                     [] h = "example" -> {"example.com"}
                     [] h = "both" -> {"openai.com", "example.com"}
                     [] h = "other" -> {}]

R(id, pat, target, on) == [id |-> id, pat |-> pat, target |-> target, on |-> on]

(* A file with nothing; one with the fallback in the middle, rules without   *)
(* ids, a built-in domain switched off and a MATCH of another target; one    *)
(* with two equivalent rules; one with two rules under one id.               *)
FourImports ==
  {<< >>,
   <<R(3, "example.com", "DIRECT", TRUE), R(7, MATCH, "DIRECT", TRUE),
     R(0, "chatgpt.com", "PROXY", FALSE), R(0, MATCH, "PROXY", TRUE)>>,
   <<R(1, "example.com", "PROXY", TRUE), R(2, "example.com", "PROXY", TRUE)>>,
   <<R(1, "example.com", "DIRECT", TRUE), R(1, "chatgpt.com", "DIRECT", TRUE)>>}
=============================================================================
