------------------------------ MODULE ReportIntent ------------------------------
(***************************************************************************)
(* What a message about the final report asks for: ReportIntentAgent       *)
(* (core/report_intent_agent.py).  Whole-text commands decide first, then  *)
(* the language model if it is sure enough, then keywords; a text that     *)
(* asks for a rewrite or a rerun is kept from being anything destructive.  *)
(*                                                                         *)
(* A text is known by the keyword tests it passes, those of the agent and  *)
(* those of the confirmation classifier of the report graph; the two look  *)
(* at the same text and know nothing of each other.  An empty text is       *)
(* answered by the router and never gets here.                             *)
(***************************************************************************)
EXTENDS Integers

Intents == { "ask_report_question", "share_report", "revise_report_text",
             "revise_and_rerun", "finalize_report", "cancel_report", "unknown" }

\* "runs_again" is a word for running again, "adjusts_tests" a change of what is
\* tested; a change of a path is one only to the safety test.
Signals == { "rewrites", "runs_again", "adjusts_tests", "adjusts_path", "shares",
             "question_mark", "question_word" }

\* exact is a whole reply, saysYes and saysNo a token in it, command a whole command.
\* A whole reply or command passes no other test, and only finalizing has commands
\* that also say yes.
TextType ==
    { t \in [ exact   : {"yes", "no", "neither"},
              saysYes : BOOLEAN,
              saysNo  : BOOLEAN,
              command : {"none", "cancel", "finalize"},
              signals : SUBSET Signals ] :
        /\ t.exact # "neither" \/ t.command # "none" => t.signals = {}
        /\ t.command # "none" => t.exact # "no" /\ ~t.saysNo
        /\ t.command = "cancel" => t.exact = "neither" /\ ~t.saysYes }

\* The language model's intent, with a confidence in percent; a model that is absent or
\* fails answers "unknown".
DecisionType == [ intent : Intents, confidence : 0..100 ]

\* A message: what the confirmation classifier and the agent make of its text, and
\* whether the text asks for a change of the report or the run.
MessageType == [ exact      : {"yes", "no", "neither"},
                 saysYes    : BOOLEAN,
                 saysNo     : BOOLEAN,
                 change     : BOOLEAN,
                 intent     : Intents,
                 confidence : 0..100 ]

-----------------------------------------------------------------------------

Decision(intent, confidence) == [intent |-> intent, confidence |-> confidence]

\* _accept_ai_decision
Accepted(d) ==
    CASE d.intent = "cancel_report"   -> d.confidence >= 70
      [] d.intent = "finalize_report" -> d.confidence >= 68
      [] d.intent = "unknown"         -> FALSE
      [] OTHER                        -> d.confidence >= 55

Rewrites(t) == "rewrites" \in t.signals
Reruns(t)   == t.signals \cap {"runs_again", "adjusts_tests", "adjusts_path"} # {}

AtLeast(d, intent, minimum) ==
    Decision(intent, IF d.confidence < minimum THEN minimum ELSE d.confidence)

\* Mutant: the safety layer forgets one destructive intent.
SafetyDisambiguation_Cancels(t, d) ==
    IF d.intent \in {"finalize_report", "ask_report_question", "unknown"}
    THEN IF Rewrites(t)    THEN AtLeast(d, "revise_report_text", 82)
         ELSE IF Reruns(t) THEN AtLeast(d, "revise_and_rerun", 80)
         ELSE d
    ELSE d

SafetyDisambiguation(t, d) ==
    IF d.intent \in { "cancel_report", "finalize_report", "ask_report_question",
                      "unknown" }
    THEN IF Rewrites(t)    THEN AtLeast(d, "revise_report_text", 82)
         ELSE IF Reruns(t) THEN AtLeast(d, "revise_and_rerun", 80)
         ELSE d
    ELSE d

\* _detect_with_heuristics, and the safe default when nothing is found.
Heuristic(t) ==
    IF Rewrites(t)                          THEN Decision("revise_report_text", 84)
    ELSE IF "runs_again" \in t.signals      THEN Decision("revise_and_rerun", 92)
    ELSE IF "adjusts_tests" \in t.signals   THEN Decision("revise_and_rerun", 78)
    ELSE IF "shares" \in t.signals          THEN Decision("share_report", 86)
    ELSE IF "question_mark" \in t.signals   THEN Decision("ask_report_question", 90)
    ELSE IF "question_word" \in t.signals   THEN Decision("ask_report_question", 80)
    ELSE IF "adjusts_path" \in t.signals    THEN Decision("revise_and_rerun", 76)
    ELSE Decision("ask_report_question", 45)

\* detect; no fallback resolver is configured.
Detect(t, answer) ==
    IF t.command = "cancel"        THEN Decision("cancel_report", 99)
    ELSE IF t.command = "finalize" THEN Decision("finalize_report", 98)
    ELSE SafetyDisambiguation(t, IF Accepted(answer) THEN answer ELSE Heuristic(t))

Message(t, answer) ==
    [ exact |-> t.exact, saysYes |-> t.saysYes, saysNo |-> t.saysNo,
      change     |-> Rewrites(t) \/ Reruns(t),
      intent     |-> Detect(t, answer).intent,
      confidence |-> Detect(t, answer).confidence ]
=============================================================================
