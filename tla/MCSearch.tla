------------------------------- MODULE MCSearch -------------------------------
(* An instance of Search for TLC.  "bak" is a typo whose best corrections    *)
(* are "bank" and "bake", and its business type is "bake"; two documents     *)
(* have the typo itself.  The dictionary corrects "bake" to "bank" too.  One *)
(* client asks for "bak", the other for "bake" among what is open.           *)
EXTENDS Search, TLC

CONSTANTS r1, r2, d1, d2, d3, bak, bank, bake, all, open

MCRequests == {r1, r2}
MCDocs == {d1, d2, d3}
MCTexts == {bak, bank, bake}
MCFilters == {all, open}
MCQueries == (r1 :> {<<bak, all>>}) @@ (r2 :> {<<bake, open>>})
MCMatch == (bak :> {d1, d3}) @@ (bank :> {d1}) @@ (bake :> {d2})
MCLoose == (bak :> {d3}) @@ (bank :> {}) @@ (bake :> {d2})
MCPasses == (all :> {d1, d2, d3}) @@ (open :> {d1, d2})
MCCorrection == (bak :> [to |-> bank, high |-> <<bank, bake>>])
             @@ (bank :> NoCorrection)
             @@ (bake :> [to |-> bank, high |-> <<bank>>])
MCSimplified == (bak :> bake) @@ (bank :> NoText) @@ (bake :> NoText)

=============================================================================
