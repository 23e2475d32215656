---------------------------- MODULE MCHeadlessService ----------------------------
(* HeadlessService for TLC: two clients, one operation, a report session with the *)
(* messages the service sends and one that only looks like a cancellation.        *)
EXTENDS HeadlessService

MCDraftAt   == <<"round_01">>
MCCatalog   == [local |-> Operations]
MCGroupOf   == [o \in Operations |-> "coins"]
MCDecisions == { [ mode |-> "all", selectedGroups |-> {}, selectedOperations |-> {},
                   excludedGroups |-> {}, excludedOperations |-> {} ] }
MCRefinements == { [ mode |-> "keep", matched |-> {}, final |-> {}, add |-> {},
                     remove |-> {} ] }

Maybe(intent) == [ exact |-> "neither", saysYes |-> FALSE, saysNo |-> FALSE,
                   change |-> intent = "revise_and_rerun", intent |-> intent,
                   confidence |-> 80 ]
MCMessages == { CancelMessage, FinalizeMessage, ConfirmationMessage,
                Maybe("cancel_report"), Maybe("finalize_report"),
                Maybe("revise_and_rerun") }

\* The texts of the service ("hủy", "lưu", "đồng ý") and of clients.
MCTexts == { {"review_action", "report_related"}, {"report_related"}, {"review_action"},
             {"digits"}, {"scope_reply"}, {"asks_recommendation"},
             {"applies_recommendation"}, {"possible_new_workflow"} }
MCRoutes == Routings
=============================================================================
