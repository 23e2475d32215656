--------------------------- MODULE ConversationRouting ---------------------------
(***************************************************************************)
(* What a message on a workflow thread is taken for: ConversationRouter    *)
(* (tasks/conversation_router.py), rules on keywords by phase, and         *)
(* HybridConversationRouter (tasks/hybrid_conversation_router.py), which   *)
(* lets a language model overrule some of them.                            *)
(*                                                                         *)
(* A text is the set of keyword tests it passes: it may be several things  *)
(* at once, and the order of the rules decides.                            *)
(***************************************************************************)

CONSTANT Texts    \* the texts that are sent

\* The keyword tests; "command" marks a text that is only a help or status command.
Signs == { "empty", "digits", "command", "help", "status", "asks_review_scope",
           "asks_recommendation", "applies_recommendation", "asks_catalog",
           "names_group", "names_operation", "scope_reply", "review_action",
           "report_related", "possible_new_workflow", "strong_new_workflow" }

ASSUME TextsAssumption ==
    /\ Texts \subseteq SUBSET Signs
    /\ \A text \in Texts : "empty" \in text => text = {"empty"}

\* The phases of a snapshot that is saved, "none" when there is no snapshot.
Phases == { "none", "pending_target_selection", "pending_scope_confirmation",
            "pending_review", "approved", "report_interaction", "rerun_requested",
            "finalized", "cancelled", "error" }

\* Mutant: a message about a finished report still reaches its graph.
ReportPhases_Finished == { "report_interaction", "rerun_requested", "finalized" }

ReportPhases == { "report_interaction", "rerun_requested" }

-----------------------------------------------------------------------------
(* The rules *)

\* Help and status come before what a phase makes of a text.
Meta(text, otherwise) ==
    IF "help" \in text THEN "help"
    ELSE IF "status" \in text THEN "status"
    ELSE otherwise

TargetRule(text) ==
    Meta(text, IF "strong_new_workflow" \in text THEN "clarify"
               ELSE "resume_target_selection")

\* Questions about the scope come before replies to it.
ScopeRule(text, recommended) ==
    IF "asks_recommendation" \in text THEN "ask_scope_recommendation"
    ELSE IF "applies_recommendation" \in text
         THEN IF recommended THEN "apply_scope_recommendation" ELSE "clarify"
    ELSE IF "asks_catalog" \in text THEN "show_scope_catalog"
    ELSE IF "names_group" \in text THEN "show_scope_group_details"
    ELSE IF "names_operation" \in text THEN "show_scope_operation_details"
    ELSE Meta(text, IF "scope_reply" \in text THEN "resume_scope_confirmation"
                    ELSE "clarify")

ReviewRule(text) ==
    IF "asks_review_scope" \in text THEN "show_review_scope"
    ELSE Meta(text, IF /\ "review_action" \in text
                       /\ "possible_new_workflow" \notin text
                    THEN "resume_review" ELSE "clarify")

ReportRule(text) ==
    Meta(text, IF /\ "strong_new_workflow" \in text
                  /\ "report_related" \notin text
               THEN "clarify" ELSE "continue_report_interaction")

\* A workflow that is over takes no message; a request starts one on another thread.
TerminalRule(text) ==
    Meta(text, IF text \cap {"strong_new_workflow", "possible_new_workflow"} # {}
               THEN "start_new_workflow" ELSE "clarify")

Rule(text, phase, recommended) ==
    IF "empty" \in text                          THEN "clarify"
    ELSE IF phase = "none"                       THEN Meta(text, "start_new_workflow")
    ELSE IF phase = "pending_target_selection"   THEN TargetRule(text)
    ELSE IF phase = "pending_scope_confirmation" THEN ScopeRule(text, recommended)
    ELSE IF phase = "pending_review"             THEN ReviewRule(text)
    ELSE IF phase \in ReportPhases               THEN ReportRule(text)
    ELSE IF phase = "approved"                   THEN Meta(text, "status")
    ELSE IF phase \in {"finalized", "cancelled"} THEN TerminalRule(text)
    ELSE Meta(text, "unknown")

-----------------------------------------------------------------------------
(* The language model *)

\* What the model may answer; "no_answer" stands for a model that is not configured,
\* fails, or is less than 60 percent sure, "accept_recommendation" for a scope reply
\* that accepts the latest recommendation.
Answers == { "show_scope_catalog", "show_scope_group_details",
             "show_scope_operation_details", "ask_scope_recommendation",
             "apply_scope_recommendation", "accept_recommendation",
             "resume_scope_confirmation", "show_review_scope", "resume_review",
             "continue_report_interaction", "start_new_workflow", "help", "status",
             "clarify", "no_answer" }

\* _should_use_ai: a text the rules are sure of is not given to the model.
AsksModel(text, phase, rule) ==
    /\ phase \in {"pending_scope_confirmation", "pending_review"} \cup ReportPhases
    /\ text \cap {"empty", "digits"} = {}
    /\ rule \in {"help", "status"} => "command" \notin text
    /\ phase = "pending_scope_confirmation" =>
          rule \in {"resume_scope_confirmation", "clarify", "help", "status"}

\* The answers that a phase takes as they are.
OwnAnswers(phase) ==
    IF phase = "pending_scope_confirmation"
    THEN { "show_scope_catalog", "show_scope_group_details",
           "show_scope_operation_details", "ask_scope_recommendation",
           "resume_scope_confirmation" }
    ELSE IF phase = "pending_review" THEN {"show_review_scope", "resume_review"}
    ELSE IF phase \in ReportPhases   THEN {"continue_report_interaction"}
    ELSE {}

\* Mutant: the answer is taken whatever the phase.
PhasePolicy_AnyPhase(answer, rule, phase, recommended) ==
    IF answer = "no_answer" THEN rule ELSE answer

\* _apply_phase_policy: an answer of another phase leaves the rule's decision.
PhasePolicy(answer, rule, phase, recommended) ==
    IF answer \in {"help", "status"} \cup OwnAnswers(phase) THEN answer
    ELSE IF /\ phase = "pending_scope_confirmation"
            /\ answer \in {"apply_scope_recommendation", "accept_recommendation"}
    THEN IF recommended THEN "apply_scope_recommendation"
         ELSE IF answer = "accept_recommendation" THEN "resume_scope_confirmation"
         ELSE "clarify"
    ELSE IF answer \in {"start_new_workflow", "clarify"} THEN "clarify"
    ELSE rule

\* HybridConversationRouter.route
Decide(text, answer, phase, recommended) ==
    LET rule == Rule(text, phase, recommended)
    IN  IF AsksModel(text, phase, rule)
        THEN PhasePolicy(answer, rule, phase, recommended) ELSE rule

\* The intents a message may be given by the snapshot it finds.
Routings ==
    { [ phase |-> phase, recommended |-> recommended,
        intent |-> Decide(text, answer, phase, recommended) ] :
      phase \in Phases, recommended \in BOOLEAN, text \in Texts, answer \in Answers }
=============================================================================
