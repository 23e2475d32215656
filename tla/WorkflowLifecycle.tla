----------------------------- MODULE WorkflowLifecycle -----------------------------
(***************************************************************************)
(* What the callers of FullWorkflowOrchestrator (REST, Telegram, CLI) can  *)
(* rely on: the phases a workflow thread goes through, that a test run     *)
(* happens only after an approval, and that only a finalized run is        *)
(* recorded.  These are the phases the code goes through.  The diagram the *)
(* callers are given (docs/headless_rest_api_usage.md, section 7) has only *)
(* some of them, and the two parts are kept apart here.                    *)
(***************************************************************************)
EXTENDS Naturals

VARIABLES
    phase,     \* phase of the thread's snapshot, "none" without one
    runs,      \* test runs executed on the thread
    recorded   \* the run the database records, 0 if none

vars == <<phase, runs, recorded>>

\* The arrows of the diagram that a reply takes, without the one to "finalized".
Drawn ==
    [ pending_target_selection   |-> { "pending_scope_confirmation" },
      pending_scope_confirmation |-> { "pending_review" },
      pending_review             |-> { "pending_review", "approved", "cancelled" },
      report_interaction         |-> { "report_interaction", "rerun_requested",
                                       "cancelled" },
      rerun_requested            |-> {} ]

\* What the code does beyond them: a target may lead to a review at once, or be turned
\* down or cancelled; a question may be asked again; a report that asked for a rerun
\* still answers; and a call that fails leads to "error", which the diagram does not have.
Undrawn ==
    [ pending_target_selection   |-> { "pending_target_selection", "pending_review",
                                       "cancelled", "error" },
      pending_scope_confirmation |-> { "pending_scope_confirmation", "error" },
      pending_review             |-> { "error" },
      report_interaction         |-> { "error" },
      rerun_requested            |-> { "rerun_requested" } ]

\* The phases a reply may lead to; "error" and "cancelled" take no reply.
AfterReply == [ p \in DOMAIN Drawn |-> Drawn[p] \cup Undrawn[p] ]

Init == phase = "none" /\ runs = 0 /\ recorded = 0

\* A thread that has a workflow may be given a new one, but not during a run.
Start ==
    /\ phase # "approved"
    /\ phase' \in { "pending_target_selection", "pending_scope_confirmation",
                    "pending_review", "error" }
    /\ UNCHANGED <<runs, recorded>>

Reply ==
    /\ phase \in DOMAIN AfterReply
    /\ phase' \in AfterReply[phase]
    /\ UNCHANGED <<runs, recorded>>

\* Only an approved workflow is executed; the run may fail before or after that.
Run ==
    /\ phase = "approved"
    /\ \/ phase' = "report_interaction" /\ runs' = runs + 1
       \/ phase' = "error" /\ runs' \in {runs, runs + 1}
    /\ UNCHANGED recorded

\* Finalizing records the last run.
Finalize ==
    /\ phase = "report_interaction"
    /\ phase' = "finalized"
    /\ recorded' = runs
    /\ UNCHANGED runs

\* The process stops and forgets the phase.
Stop ==
    /\ phase' = "none"
    /\ UNCHANGED <<runs, recorded>>

Next == Start \/ Reply \/ Run \/ Finalize \/ Stop

Spec == Init /\ [][Next]_vars
=============================================================================
