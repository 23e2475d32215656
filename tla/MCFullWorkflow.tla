------------------------------ MODULE MCFullWorkflow ------------------------------
(* FullWorkflow for TLC: one target with two operations, three decisions and two  *)
(* feedback decisions, and a message for each way a report turn can go.           *)
EXTENDS FullWorkflow

MCOperations == 1..2
MCIds        == {"coins", "nfts"}
MCGroupOf    == <<"coins", "nfts">>
MCDraftAt    == <<"round_01", "round_02">>
MCCatalog    == [local |-> MCOperations]

Scope(mode, groups) ==
    [ mode |-> mode, selectedGroups |-> groups, selectedOperations |-> {},
      excludedGroups |-> {}, excludedOperations |-> {} ]
MCDecisions == { Scope("all", {}), Scope("groups", {"coins"}), Scope("custom", {}) }

Feedback(mode, matched) ==
    [ mode |-> mode, matched |-> matched, final |-> {}, add |-> {}, remove |-> {} ]
MCRefinements == { Feedback("keep", {}), Feedback("replace_with_specific", {2}) }

Text(exact, command, signals) ==
    [ exact |-> exact, saysYes |-> exact = "yes", saysNo |-> exact = "no",
      command |-> command, signals |-> signals ]
Answer(intent, confidence) == [ intent |-> intent, confidence |-> confidence ]
Intent == INSTANCE ReportIntent
MCMessages ==
    { Intent!Message(Text("neither", "none", {"question_mark"}), Answer("unknown", 0)),
      Intent!Message(Text("neither", "none", {"rewrites"}), Answer("cancel_report", 95)),
      Intent!Message(Text("neither", "none", {"runs_again"}), Answer("unknown", 0)),
      Intent!Message(Text("neither", "none", {}), Answer("cancel_report", 95)),
      Intent!Message(Text("neither", "none", {}), Answer("finalize_report", 80)),
      Intent!Message(Text("yes", "finalize", {}), Answer("unknown", 0)),
      Intent!Message(Text("no", "none", {}), Answer("unknown", 0)) }

\* A text for each sign it may be taken by, and those taken by several.
MCTexts == { {"empty"}, {}, {"digits"}, {"help", "command"}, {"status", "command"},
             {"help", "report_related"}, {"status"},
             {"asks_recommendation"}, {"asks_recommendation", "applies_recommendation"},
             {"applies_recommendation"}, {"asks_catalog", "asks_review_scope"},
             {"names_group", "scope_reply"}, {"names_operation", "scope_reply"},
             {"scope_reply"}, {"review_action"}, {"review_action", "report_related"},
             {"possible_new_workflow"}, {"strong_new_workflow", "scope_reply"},
             {"possible_new_workflow", "strong_new_workflow", "review_action"} }
MCRoutes == Routings
=============================================================================
