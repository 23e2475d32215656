---------------------------- MODULE MCReportSession ----------------------------
(* ReportSession for TLC: every combination of reply tokens, commands and what a  *)
(* text may ask for, with every intent of the model, at confidences on both sides *)
(* of the thresholds of the agent and of the graph.                               *)
EXTENDS ReportSession

MCTexts == { t \in TextType : t.signals \in { {}, {"rewrites"}, {"adjusts_path", "shares"} } }

MCAnswers == [intent : {"cancel_report", "finalize_report"}, confidence : {60, 87, 91, 92}]
                 \cup [intent : Intents \ {"cancel_report", "finalize_report"}, confidence : {60}]

MCMessages == { Message(text, answer) : text \in MCTexts, answer \in MCAnswers }
=============================================================================
