-------------------------------- MODULE TestExecution --------------------------------
(***************************************************************************)
(* The execution of an approved draft and the validation of its results    *)
(* (core/execution_engine.py, core/request_runtime_builder.py,             *)
(* core/auth_header_builder.py, core/runtime_json_body_resolver.py and     *)
(* core/validator.py, driven by WorkflowRuntimeBridge.run_post_approval).  *)
(*                                                                         *)
(* A case is executed after the other: its body is planned, built and      *)
(* mutated, the request is sent once, and whatever comes of it is a        *)
(* result.  The operation of a case is part of it, since both come from    *)
(* one draft.                                                              *)
(***************************************************************************)
EXTENDS PayloadPlanning, CaseVerdict, Sequences

CONSTANTS
    Cases,     \* test cases, as drafted by the language model and reviewed
    Plans,     \* payload plans the language model may answer with
    MaxCases   \* bound on the cases of a draft

\* What an operation says of its body, when not a JSON schema.
BodyLabels == { "no_request_body_schema", "non_json_request_body", "missing_json_schema" }

OperationType == [ body   : BodyLabels \cup {"schema"},
                   schema : SchemaType,
                   auth   : BOOLEAN ]   \* auth_required

\* header is the spelling of an authorization header the case brings along.
CaseType == [ operation : OperationType,
              test      : TestTypes,
              mention   : MentionType,
              skip      : BOOLEAN,
              explicit  : { p \in PayloadType : p.kind # "other" },
              header    : {"none", "Authorization", "authorization"},
              expected  : SUBSET Statuses ]

ASSUME InputsAssumption == /\ Cases \subseteq CaseType
                           /\ Plans \subseteq PlanType
                           /\ MaxCases \in Nat

VARIABLES
    target,    \* what the target's configuration provides
    draft,     \* the cases to execute
    next,      \* the case that is next
    at,        \* where the execution is
    origin,    \* who made the plan
    plan,      \* payload_plan
    base,      \* base_payload
    request,   \* the request that is built
    results,   \* results of the execution, in the order of the draft
    verdicts   \* of the validation

vars == <<target, draft, next, at, origin, plan, base, request, results, verdicts>>

TargetType == [ url : BOOLEAN, token : BOOLEAN ]

RequestType == [ body : PayloadType, label : BodyLabels \cup Labels \cup {"skipped_case"} ]

ResultType == [ origin : {"none", "ai", "fallback"}, body : PayloadType,
                label  : BodyLabels \cup Labels \cup {"skipped_case"},
                auth   : SUBSET {"case", "token"}, skip : BOOLEAN,
                expected : SUBSET Statuses, status : Statuses \cup {NoStatus},
                error : {"none", "empty", "text"} ]

TypeOK ==
    /\ target \in TargetType
    /\ draft \in Seq(Cases) /\ Len(draft) <= MaxCases
    /\ next \in 1..Len(draft) + 1
    /\ at \in { "case", "plan", "base", "apply", "build", "send",
                "executed", "validated", "raised" }
    /\ at \in { "plan", "base", "apply", "build", "send" } => next <= Len(draft)
    /\ origin \in { "none", "ai", "fallback" }
    /\ plan \in PlanType
    /\ base \in PayloadType
    /\ request \in RequestType
    /\ results \in Seq(ResultType)
    /\ verdicts \in Seq(Verdicts)

NoRequest == [ body |-> NoPayload, label |-> "missing_json_schema" ]

NothingPlanned == /\ origin = "none" /\ plan = Synthesize
                  /\ base = NoPayload /\ request = NoRequest

Init ==
    /\ target \in TargetType
    /\ draft \in UNION { [1..n -> Cases] : n \in 0..MaxCases }
    /\ next = 1
    /\ at = "case"
    /\ NothingPlanned
    /\ results = <<>>
    /\ verdicts = <<>>

Case      == draft[next]
Operation == Case.operation

-----------------------------------------------------------------------------
(* RequestRuntimeBuilder.build *)

\* A case to skip takes its body as it is; so does one whose operation has no JSON
\* schema for it.
TakeCase ==
    /\ at = "case" /\ next <= Len(draft)
    /\ IF Case.skip \/ Operation.body # "schema"
       THEN /\ request' = [ body  |-> Case.explicit,
                            label |-> IF Case.skip THEN "skipped_case" ELSE Operation.body ]
            /\ at' = "build"
       ELSE /\ at' = "plan"
            /\ UNCHANGED request
    /\ UNCHANGED <<target, draft, next, origin, plan, base, results, verdicts>>

\* The model's plan, or the fallback's when there is no model or it fails.
PlanPayload ==
    /\ at = "plan"
    /\ \/ /\ plan' \in Plans
          /\ origin' = "ai"
       \/ /\ plan' = FallbackPlan(Case.test, Case.mention, Case.explicit, Operation.schema)
          /\ origin' = "fallback"
    /\ at' = "base"
    /\ UNCHANGED <<target, draft, next, base, request, results, verdicts>>

BuildBasePayload ==
    /\ at = "base"
    /\ base' = BasePayload(plan, Case.explicit, Operation.schema)
    /\ at' = "apply"
    /\ UNCHANGED <<target, draft, next, origin, plan, request, results, verdicts>>

ApplyPayloadPlan ==
    /\ at = "apply"
    /\ request' = [ body  |-> ApplyPlan(plan, base, Case.explicit, Operation.schema),
                    label |-> SourceLabel(plan) ]
    /\ at' = "build"
    /\ UNCHANGED <<target, draft, next, origin, plan, base, results, verdicts>>

\* Header names are compared as they are spelled.
AuthHeaders(case) ==
    LET own == IF case.header = "none" THEN {} ELSE {"case"}
    IN  IF case.test = "unauthorized_or_forbidden"
        THEN IF case.header = "Authorization" THEN {} ELSE own
        ELSE IF case.operation.auth /\ case.header # "Authorization" /\ target.token
        THEN own \cup {"token"}
        ELSE own

\* Mutant: an unusable target is noticed when the request is to be sent.
BuildRequest_LateCheck ==
    /\ at = "build"
    /\ at' = IF target.url \/ Case.skip THEN "send" ELSE "raised"
    /\ UNCHANGED <<target, draft, next, origin, plan, base, request, results, verdicts>>

\* Without a base_url there is no request, to skip or to send, and the batch raises.
BuildRequest ==
    /\ at = "build"
    /\ at' = IF target.url THEN "send" ELSE "raised"
    /\ UNCHANGED <<target, draft, next, origin, plan, base, request, results, verdicts>>

-----------------------------------------------------------------------------
(* ExecutionEngine *)

Result(status, error) ==
    [ origin |-> origin, body |-> request.body, label |-> request.label,
      auth |-> AuthHeaders(Case), skip |-> Case.skip, expected |-> Case.expected,
      status |-> status, error |-> error ]

NextCase ==
    /\ next' = next + 1
    /\ at' = "case"
    /\ origin' = "none" /\ plan' = Synthesize /\ base' = NoPayload /\ request' = NoRequest

\* Mutant: a case to skip leaves no result.
SkipCase_NoResult ==
    /\ at = "send" /\ Case.skip
    /\ NextCase
    /\ UNCHANGED <<target, draft, results, verdicts>>

SkipCase ==
    /\ at = "send" /\ Case.skip
    /\ results' = Append(results, Result(NoStatus, "none"))
    /\ NextCase
    /\ UNCHANGED <<target, draft, verdicts>>

\* The request is answered, or the client raises with a text or without.
SendRequest ==
    /\ at = "send" /\ ~Case.skip
    /\ \/ \E status \in Statuses : results' = Append(results, Result(status, "none"))
       \/ \E error \in {"empty", "text"} :
             results' = Append(results, Result(NoStatus, error))
    /\ NextCase
    /\ UNCHANGED <<target, draft, verdicts>>

FinishExecution ==
    /\ at = "case" /\ next = Len(draft) + 1
    /\ at' = "executed"
    /\ UNCHANGED <<target, draft, next, origin, plan, base, request, results, verdicts>>

\* validate_batch: results carry no schema and no required fields, so of the checks only
\* that of the status is made.
ValidateBatch ==
    /\ at = "executed"
    /\ verdicts' = [ i \in 1..Len(results) |-> ValidateCase(results[i], {}) ]
    /\ at' = "validated"
    /\ UNCHANGED <<target, draft, next, origin, plan, base, request, results>>

Next ==
    \/ TakeCase \/ PlanPayload \/ BuildBasePayload \/ ApplyPayloadPlan \/ BuildRequest
    \/ SkipCase \/ SendRequest \/ FinishExecution \/ ValidateBatch

\* One thread runs the batch.
Spec == Init /\ [][Next]_vars
-----------------------------------------------------------------------------
(* Properties *)

\* A batch that raises has sent nothing: what is wrong with the target shows before the
\* first request, so a run without a report has had no effect on the tested service.
RaisesBeforeSending == at = "raised" => results = <<>>

\* There is a verdict for every case of the draft, in its order: a case to skip is told
\* from one that was sent, and each is measured by what its own case expected.
VerdictsAreOfTheDraft ==
    at = "validated" =>
        /\ Len(verdicts) = Len(draft)
        /\ \A i \in 1..Len(draft) : /\ results[i].expected = draft[i].expected
                                    /\ verdicts[i] = "skip" <=> draft[i].skip

\* A case that says what to expect never passes without an answer, although a client's
\* exception may come without a text and is then no execution error.
PassedWasAnswered ==
    \A i \in DOMAIN verdicts :
        verdicts[i] = "pass" =>
            \/ results[i].status \in results[i].expected
            \/ results[i].expected = {}

\* The target's token is never sent with a case about unauthorized access.
TokenIsWithheld ==
    \A i \in DOMAIN results :
        draft[i].test = "unauthorized_or_forbidden" => "token" \notin results[i].auth

\* A body has the label's fault: a field that the schema requires is not in it, or a
\* property has a value of a type other than declared.
HasFault(case, r) ==
    LET schema == case.operation.schema
    IN  CASE r.label = "mutated_missing_required" ->
                 \E f \in schema.required : ~Has(r.body, f)
          [] r.label = "mutated_invalid_type_or_format" ->
                 \E f \in Properties(schema) :
                     /\ schema.type[f] # "untyped"
                     /\ Has(r.body, f) /\ r.body.fields[f] # schema.type[f]
          [] r.label = "explicit_payload_final" -> r.body = case.explicit
          [] r.label = "synthesized_valid_payload" -> r.body = ExampleForSchema(schema)
          [] OTHER -> TRUE

\* A schema from which the fallback can make the case's fault: the example is built from
\* the properties, one of them has a type, and a field is required if one is to be missed.
\* Where nothing is required an optional field is removed and the label is the same.
Faultable(case) ==
    LET schema == case.operation.schema
    IN  /\ schema.example = Synthetic
        /\ \E f \in Properties(schema) : schema.type[f] # "untyped"
        /\ case.test = "missing_required" => schema.required # {}

\* Of the fallback's plans the label is true, although it is read off the plan alone: a
\* case about a missing or an invalid field is sent with that fault, where the schema
\* allows for it.  Of the language model's plans it need not be.
FallbackLabelIsTrue ==
    \A i \in DOMAIN results :
        results[i].origin = "fallback" /\ Faultable(draft[i])
            => HasFault(draft[i], results[i])
=============================================================================
