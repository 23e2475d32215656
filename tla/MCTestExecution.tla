------------------------------ MODULE MCTestExecution ------------------------------
(* Drafts of two cases for TLC: over operations whose schemas name required fields    *)
(* that are and are not properties, leave types out, or have an example, and language *)
(* model plans that contradict themselves.                                            *)
EXTENDS TestExecution

Schema(type, required, example) ==
    [ type |-> type, required |-> required, example |-> example ]

Schemas == { Schema(<<"string", "integer">>, {2}, Synthetic),
             Schema(<<"untyped", "boolean">>, {}, Synthetic),
             Schema(<<"array">>, {2}, Synthetic),
             Schema(<<"string", "integer">>, {1}, Object([f \in {2} |-> "integer"])),
             Schema([f \in {} |-> "untyped"], {}, [kind |-> "other"]) }

NoBody == Schema([f \in {} |-> "untyped"], {}, NoPayload)

Unnamed == [ quoted |-> NoField, words |-> {} ]

CaseOf(operation, test) ==
    [ operation |-> operation, test |-> test, mention |-> Unnamed, skip |-> FALSE,
      explicit |-> NoPayload, header |-> "none", expected |-> {400} ]

WithBody == { [ body |-> "schema", schema |-> s, auth |-> FALSE ] : s \in Schemas }
Plain    == [ body |-> "no_request_body_schema", schema |-> NoBody, auth |-> TRUE ]

SecondWord == [ quoted |-> NoField, words |-> {2} ]

MCCases ==
    { [ CaseOf(o, t) EXCEPT !.mention = SecondWord ] :
        o \in WithBody, t \in {"missing_required", "invalid_type_or_format"} }
    \cup { [ CaseOf(o, "missing_required") EXCEPT !.explicit = Object(p) ] :
             o \in { w \in WithBody : w.schema.required = {2} },
             p \in { [f \in {} |-> "null"], [f \in {1} |-> "string"] } }
    \cup { [ CaseOf(Plain, "unauthorized_or_forbidden") EXCEPT !.header = h, !.expected = {} ] :
             h \in {"none", "Authorization", "authorization"} }
    \cup { [ CaseOf(Plain, "positive") EXCEPT !.skip = s, !.expected = {200} ] :
             s \in BOOLEAN }

MCPlans == { [ Synthesize EXCEPT !.trust = TRUE, !.explicit = TRUE, !.remove = {1} ],
             [ Synthesize EXCEPT !.kind = "remove_required_field", !.target = 2 ],
             [ Synthesize EXCEPT !.remove = {1}, !.overrides = [f \in {1} |-> "integer"] ] }
=============================================================================
