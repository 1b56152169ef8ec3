----------------------------- MODULE MCSystemPac -----------------------------
(* Finite instances of SystemPac: a user without a proxy and one with a *)
(* manual company proxy.                                                 *)
EXTENDS SystemPac

Direct == [url |-> "none", enable |-> FALSE, server |-> "none"]
Company == [url |-> "none", enable |-> TRUE, server |-> "corp"]

DirectOrCompany == {Direct, Company}
CompanyOnly == {Company}
Manual == {FALSE}
AlwaysAuto == {TRUE}

(* Configurations to import: from before the PAC was ever enabled, of a user *)
(* with a company proxy, and one that has PRM's own PAC as the user's.       *)
Fresh == [saved |-> NoSettings, auto |-> FALSE]
ManualImports == {Fresh, [Fresh EXCEPT !.saved = Company], [Fresh EXCEPT !.saved = Own]}
AutoImports == {[saved |-> Company, auto |-> TRUE]}
=============================================================================
