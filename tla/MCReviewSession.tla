----------------------------- MODULE MCReviewSession -----------------------------
(* ReviewSession for TLC: two targets, three operations in two groups, and the  *)
(* decisions that tell the branches of the scope selection and of the feedback  *)
(* refinement apart.                                                            *)
EXTENDS ReviewSession

MCOperations == 1..3
MCIds        == {"coins", "nfts"}
MCGroupOf    == [o \in MCOperations |-> IF o = 3 THEN "nfts" ELSE "coins"]
MCTargets    == {"local", "staging"}
MCCatalog    == [local |-> {1, 2, 3}, staging |-> {2}]

Scope(mode, groups, operations, withoutGroups, without) ==
    [ mode |-> mode, selectedGroups |-> groups, selectedOperations |-> operations,
      excludedGroups |-> withoutGroups, excludedOperations |-> without ]

MCDecisions == { Scope("all", {}, {}, {}, {}),
                 Scope("groups", {"coins"}, {}, {}, {}),
                 Scope("operations", {}, {3}, {}, {}),
                 Scope("custom", {}, {}, {"coins"}, {}),
                 Scope("custom", {}, {}, {}, {}) }

Feedback(mode, matched, add, remove) ==
    [ mode |-> mode, matched |-> matched, final |-> {}, add |-> add, remove |-> remove ]

MCRefinements == { Feedback("keep", {}, {}, {}),
                   Feedback("reset_all", {}, {}, {}),
                   Feedback("replace_with_specific", {3}, {}, {}),
                   Feedback("add_specific", {1}, {}, {}),
                   Feedback("remove_specific", {2}, {}, {}),
                   Feedback("mixed_mutation", {}, {3}, {1}) }
=============================================================================
