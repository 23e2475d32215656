------------------------------- MODULE CaseGeneration -------------------------------
(***************************************************************************)
(* Test cases made from an operation without a language model              *)
(* (core/testcase_generator.py), and what is made of a case a language     *)
(* model drafted (core/testcase_normalizer.py).  Parameters and headers of *)
(* a case are left out but for the token.                                  *)
(***************************************************************************)
EXTENDS SchemaFaker, FiniteSets

TestTypes == { "positive", "missing_required", "invalid_type_or_format",
               "unauthorized", "not_found" }

\* Of an operation, body is the schema of its JSON request body if it has one, auth
\* whether it wants a token, path whether it has a path parameter, and responses the
\* schema of its JSON response, if any, by numeric status.

\* The first field of a set that a schema lists.
First(fields) == CHOOSE f \in fields : \A g \in fields : f <= g

Without(v, fields) == [v EXCEPT !.fields = [ f \in DOMAIN @ \ fields |-> @[f] ]]

\* The example of the body, when it is an object, without the fields to ignore.
JsonBody(op, ignore) ==
    LET generated == [ i \in DOMAIN op.body |-> ExampleForSchema(op.body[i], 0) ]
        objects   == SelectSeq(generated, LAMBDA v : v.kind = "object")
    IN  [ i \in DOMAIN objects |-> Without(objects[i], ignore) ]


RemoveRequired(v, s) ==
    IF s.required # {} THEN Without(v, {First(s.required)}) ELSE v

ScalarsMutated == { "string", "integer", "number", "boolean" }

\* The fields whose one type is a scalar that another value is put in for.
Spoilable(v, s) ==
    { f \in UNION { DOMAIN p : p \in Range(s.props) } \cap DOMAIN v.fields :
        \E t \in ScalarsMutated : s.props[1][f].types = <<t>> }

MutateOneInvalidField(v, s) ==
    IF Spoilable(v, s) = {} THEN v
    ELSE LET f == First(Spoilable(v, s))
         IN  [v EXCEPT !.fields[f] = IF s.props[1][f].types = <<"string">>
                                     THEN Value("integer") ELSE Value("string")]

\* A body that is {} counts as none when it is to be mutated.
MutatedBody(op, test, ignore) ==
    LET bodies == JsonBody(op, ignore)
        filled == SelectSeq(bodies, LAMBDA v : v.fields # <<>>)
    IN  CASE test = "missing_required" ->
                 [ i \in DOMAIN filled |-> RemoveRequired(filled[i], op.body[1]) ]
          [] test = "invalid_type_or_format" ->
                 [ i \in DOMAIN filled |-> MutateOneInvalidField(filled[i], op.body[1]) ]
          [] OTHER -> bodies

PositiveExpectedStatuses(op) ==
    LET success == DOMAIN op.responses \cap 200..299
    IN  IF success = {} THEN {200, 201} ELSE success

\* The first schema of a success that a positive case expects the response to have.
ExpectedResponseSchema(op, test) ==
    LET success == { r \in DOMAIN op.responses \cap 200..299 : op.responses[r] # <<>> }
    IN  IF test = "positive" /\ success # {} THEN op.responses[First(success)] ELSE <<>>

DefaultExpectedStatuses(op, test) ==
    CASE test = "positive"     -> PositiveExpectedStatuses(op)
      [] test = "unauthorized" -> {401, 403}
      [] test = "not_found"    -> {404}
      [] OTHER                 -> {400, 422}

Applies(op, test) ==
    /\ test = "unauthorized" => op.auth
    /\ test = "not_found" => op.path

WithToken(op, test, hasToken) == op.auth /\ hasToken /\ test # "unauthorized"

\* The cases generate makes of an operation and a test type: one, or none.
BuildCase(op, test, ignore, hasToken) ==
    IF ~ Applies(op, test) THEN {}
    ELSE { [ test     |-> test,
             body     |-> MutatedBody(op, test, ignore),
             token    |-> WithToken(op, test, hasToken),
             expected |-> DefaultExpectedStatuses(op, test),
             schema   |-> ExpectedResponseSchema(op, test) ] }

\* A draft of a language model: its body, the statuses it expects and whether it is to
\* be skipped.  The token it may carry is dropped.
Normalize(op, draft, ignore, hasToken) ==
    LET valid == { c \in draft.expected : c \in 100..599 }
    IN  IF draft.skip THEN {}
        ELSE { [ test     |-> draft.test,
                 body     |-> [ i \in DOMAIN draft.body |-> Without(draft.body[i], ignore) ],
                 token    |-> WithToken(op, draft.test, hasToken),
                 expected |-> IF valid # {} THEN valid
                              ELSE DefaultExpectedStatuses(op, draft.test),
                 schema   |-> ExpectedResponseSchema(op, draft.test) ] }
=============================================================================
