------------------------------ MODULE ScopeRefinement ------------------------------
(***************************************************************************)
(* How review feedback changes the operations a draft covers:              *)
(* FeedbackScopeRefiner.refine.  The decision comes from a language model, *)
(* so its lists are arbitrary; each names operations by id, path or tag    *)
(* and is resolved against all operations of the target.                   *)
(***************************************************************************)
EXTENDS ApiCatalog

PatchModes  == {"update_scope", "mixed_mutation"}
KeepModes   == {"keep", "invalid_feedback", "agent_failed", "other"}
RefineModes == PatchModes \cup KeepModes
                 \cup {"reset_all", "replace_with_specific", "add_specific", "remove_specific"}

RefinementType == [ mode    : RefineModes,
                    matched : SUBSET Operations,
                    final   : SUBSET Operations,
                    add     : SUBSET Operations,
                    remove  : SUBSET Operations ]

\* _apply_patch_decision: a final scope wins; otherwise remove, then add.
Patched(current, all, d) ==
    IF d.final \cap all # {} THEN d.final \cap all
    ELSE (current \ d.remove) \cup (d.add \cap all)

\* What the decision makes of the scope before the last check.
Proposed(current, all, d) ==
    LET matched == d.matched \cap all IN
    CASE d.mode = "reset_all"                                -> all
      [] d.mode \in PatchModes                               -> Patched(current, all, d)
      [] d.mode = "replace_with_specific"                    -> matched
      [] d.mode = "add_specific"                             -> current \cup matched
      [] d.mode = "remove_specific"                          -> current \ matched
      [] d.mode \in KeepModes                                -> current

\* Mutant: nothing is checked against the previous scope, everything is tested.
Refine_FallsBackToAll(current, all, d) ==
    IF Proposed(current, all, d) = {} THEN all ELSE Proposed(current, all, d)

\* An empty scope is never applied: the current one stays.
Refine(current, all, d) ==
    IF Proposed(current, all, d) = {} THEN current ELSE Proposed(current, all, d)
=============================================================================
