------------------------------- MODULE PayloadPlanning -------------------------------
(***************************************************************************)
(* The JSON body of a test case: the plan of core/ai_payload_planner_      *)
(* service.py, what core/runtime_payload_planning_graph.py and             *)
(* core/runtime_payload_mutator.py make of it, and the label that          *)
(* core/runtime_json_body_resolver.py puts on the result.                  *)
(*                                                                         *)
(* A value is known by its JSON type only, and a field by its place in the *)
(* schema's properties.                                                    *)
(***************************************************************************)
EXTENDS Naturals

CONSTANT MaxFields   \* bound on the fields of a schema

ASSUME MaxFieldsAssumption == MaxFields \in Nat

Fields  == 1..MaxFields
NoField == 0

Types == { "string", "integer", "number", "boolean", "array", "object", "null" }
\* What a property's schema says of its type, behind anyOf, oneOf and allOf.
DeclaredTypes == (Types \ {"null"}) \cup {"untyped"}

FieldValues == UNION { [S -> Types] : S \in SUBSET Fields }

\* A body that is no object is never looked into.
PayloadType == [ kind : {"none", "other"} ] \cup [ kind : {"object"}, fields : FieldValues ]

NoPayload == [ kind |-> "none" ]
Object(f) == [ kind |-> "object", fields |-> f ]
IsEmptyObject(p) == p.kind = "object" /\ p = Object([f \in {} |-> "null"])
Has(p, f) == p.kind = "object" /\ f \in DOMAIN p.fields

Synthetic == [ kind |-> "synthetic" ]

\* example is the value of a schema that is no object or has an example, a default or
\* an enum; Synthetic, if the properties make it.  A required field need not be one.
SchemaType == [ type     : UNION { [S -> DeclaredTypes] : S \in SUBSET Fields },
                required : SUBSET Fields,
                example  : PayloadType \cup {Synthetic} ]

Properties(schema) == DOMAIN schema.type

TestTypes == { "positive", "missing_required", "invalid_type_or_format",
               "unauthorized_or_forbidden", "resource_not_found" }

\* quoted is the first field the texts of the case quote, words those they name.
MentionType == [ quoted : Fields \cup {NoField}, words : SUBSET Fields ]

Strategies == { "infer_from_schema", "number_for_string", "string_for_integer",
                "string_for_number", "string_for_boolean", "string_for_array",
                "string_for_object" }
NoStrategy == "none"
Kinds == { "none", "remove_required_field", "invalid_type_or_format", "semantic_positive" }

PlanType == [ trust : BOOLEAN, explicit : BOOLEAN, kind : Kinds,
              target : Fields \cup {NoField}, strategy : Strategies \cup {NoStrategy},
              remove : SUBSET Fields, overrides : FieldValues ]

-----------------------------------------------------------------------------
(* DeterministicFallbackPayloadPlanner *)

FirstIn(S) == CHOOSE f \in S : \A g \in S : f <= g

NoOverrides == [f \in {} |-> "null"]

Candidates(schema, onlyRequired) ==
    IF onlyRequired /\ schema.required # {} THEN schema.required ELSE Properties(schema)

\* Mutant: any property may be taken for a required field.
InferTargetField_Optional(mention, schema, onlyRequired) ==
    LET named == mention.words \cap Properties(schema)
    IN  IF Properties(schema) = {} THEN NoField
        ELSE IF mention.quoted \in Properties(schema) THEN mention.quoted
        ELSE FirstIn(IF named # {} THEN named ELSE Properties(schema))

\* The field a case is about: one it quotes, else one it names, else the first.
InferTargetField(mention, schema, onlyRequired) ==
    LET fields == Candidates(schema, onlyRequired)
        named  == mention.words \cap fields
    IN  IF fields = {} THEN NoField
        ELSE IF mention.quoted \in fields THEN mention.quoted
        ELSE FirstIn(IF named # {} THEN named ELSE fields)

InferInvalidStrategy(schema, f) ==
    IF f \notin Properties(schema) THEN "infer_from_schema"
    ELSE CASE schema.type[f] = "string"  -> "number_for_string"
           [] schema.type[f] = "integer" -> "string_for_integer"
           [] schema.type[f] = "number"  -> "string_for_number"
           [] schema.type[f] = "boolean" -> "string_for_boolean"
           [] schema.type[f] = "array"   -> "string_for_array"
           [] schema.type[f] = "object"  -> "string_for_object"
           [] OTHER                      -> "infer_from_schema"

Synthesize == [ trust |-> FALSE, explicit |-> FALSE, kind |-> "none", target |-> NoField,
                strategy |-> NoStrategy, remove |-> {}, overrides |-> NoOverrides ]

RemovePlan(target) ==
    [ Synthesize EXCEPT !.kind = "remove_required_field", !.target = target,
                        !.remove = {target} \ {NoField} ]

InvalidPlan(target, schema) ==
    [ Synthesize EXCEPT !.kind = "invalid_type_or_format", !.target = target,
                        !.strategy = InferInvalidStrategy(schema, target) ]

FallbackPlan(test, mention, explicit, schema) ==
    IF explicit.kind # "none" /\ ~IsEmptyObject(explicit)
    THEN [ Synthesize EXCEPT !.trust = TRUE, !.explicit = TRUE ]
    ELSE CASE test = "missing_required" ->
                  RemovePlan(InferTargetField(mention, schema, TRUE))
           [] test = "invalid_type_or_format" ->
                  InvalidPlan(InferTargetField(mention, schema, FALSE), schema)
           [] OTHER -> Synthesize

-----------------------------------------------------------------------------
(* RuntimePayloadPlanningGraph and RuntimePayloadMutator *)

\* The example of a property has the property's type; without a type it is null.
ExampleForSchema(schema) ==
    IF schema.example # Synthetic THEN schema.example
    ELSE Object([ f \in Properties(schema) |->
                    IF schema.type[f] = "untyped" THEN "null" ELSE schema.type[f] ])

BasePayload(plan, explicit, schema) ==
    IF plan.explicit /\ plan.trust /\ explicit.kind # "none" THEN explicit
    ELSE ExampleForSchema(schema)

RemoveFields(p, gone) ==
    IF p.kind = "object"
    THEN Object([ f \in DOMAIN p.fields \ gone |-> p.fields[f] ])
    ELSE p

ApplyFieldOverrides(p, o) ==
    IF p.kind = "object"
    THEN Object([ f \in DOMAIN o \cup DOMAIN p.fields |->
                    IF f \in DOMAIN o THEN o[f] ELSE p.fields[f] ])
    ELSE p

\* "none" if there is no invalid value to be had.
InvalidValue(type, strategy) ==
    LET bad(t) == IF t = "string" THEN "integer" ELSE "string"
    IN  CASE strategy \in {"infer_from_schema", NoStrategy} ->
                 IF type = "untyped" THEN "none" ELSE bad(type)
          [] strategy = "number_for_string" -> "integer"
          [] OTHER                          -> "string"

\* The target is mutated, or the first other field that can be: with the strategy of
\* the target.
MutateInvalidField(p, target, strategy, schema) ==
    LET bad(f)  == InvalidValue(schema.type[f], strategy)
        mutable == { f \in Properties(schema) : Has(p, f) /\ bad(f) # "none" }
        f       == IF target \in mutable THEN target ELSE FirstIn(mutable)
    IN  IF mutable = {} THEN p
        ELSE Object([ p.fields EXCEPT ![f] = bad(f) ])

FieldsToRemove(plan) ==
    IF plan.remove = {} /\ plan.kind = "remove_required_field"
    THEN {plan.target} \ {NoField}
    ELSE plan.remove

ApplyPlan(plan, base, explicit, schema) ==
    LET working == IF plan.trust /\ explicit.kind # "none" /\ ~IsEmptyObject(explicit)
                   THEN explicit ELSE base
        reduced == RemoveFields(working, FieldsToRemove(plan))
    IN  IF plan.overrides = NoOverrides /\ plan.kind = "invalid_type_or_format"
             /\ plan.target # NoField
        THEN MutateInvalidField(reduced, plan.target, plan.strategy, schema)
        ELSE ApplyFieldOverrides(reduced, plan.overrides)

Labels == { "explicit_payload_final", "mutated_invalid_type_or_format",
            "mutated_missing_required", "synthesized_with_semantic_overrides",
            "synthesized_valid_payload" }

\* The label is read off the plan, not off the body.
SourceLabel(plan) ==
    IF plan.trust /\ plan.explicit THEN "explicit_payload_final"
    ELSE IF plan.kind = "invalid_type_or_format" THEN "mutated_invalid_type_or_format"
    ELSE IF plan.kind = "remove_required_field" \/ plan.remove # {}
         THEN "mutated_missing_required"
    ELSE IF plan.kind = "semantic_positive" \/ plan.overrides # NoOverrides
         THEN "synthesized_with_semantic_overrides"
    ELSE "synthesized_valid_payload"
=============================================================================
