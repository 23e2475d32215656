------------------------------ MODULE ResponseValidator ------------------------------
(***************************************************************************)
(* The schema and required-field checks of a response (core/validator.py). *)
(* A complaint is known by its kind: a schema issue, a warning among the   *)
(* schema issues, or a required field that is missing.                     *)
(***************************************************************************)
EXTENDS JsonSchema

Complaints == { "mismatch", "unresolved", "missing" }

\* The type a schema without one is taken to mean; a list of types is none of those
\* the validator knows.
ExpectedType(s) ==
    IF Len(s.types) = 1 THEN s.types[1]
    ELSE IF s.types # <<>> THEN "unknown"
    ELSE IF s.props # <<>> THEN "object"
    ELSE IF s.items # <<>> THEN "array"
    ELSE "unknown"

OnlyARef(s) == s = [Anything EXCEPT !.ref = s.ref] /\ s.ref # {}

RECURSIVE ValidatePayload(_, _)

\* A candidate matches also when all there is against it are warnings.
MatchesAnySchema(v, candidates) ==
    \E s \in Range(candidates) : ValidatePayload(v, s) \subseteq {"unresolved"}

\* Mutant: a field that is there is not looked into.
ValidateFields_Shallow(fields, s) ==
    IF s.required \subseteq DOMAIN fields THEN {} ELSE {"missing"}

ValidateFields(fields, s) ==
    (IF s.required \subseteq DOMAIN fields THEN {} ELSE {"missing"})
    \cup UNION { UNION { ValidatePayload(fields[f], p[f]) : f \in DOMAIN p \cap DOMAIN fields } :
                  p \in Range(s.props) }

ValidateItems(items, s) ==
    UNION { ValidatePayload(i, each) : i \in Range(items), each \in Range(s.items) }

\* A combination hides the keys beside it.
ValidatePayload(v, s) ==
    LET type == ExpectedType(s)
    IN  IF OnlyARef(s) THEN {"unresolved"}
        ELSE IF s.subs["allOf"] # <<>>
             THEN UNION { ValidatePayload(v, sub) : sub \in Range(s.subs["allOf"]) }
        ELSE IF s.subs["oneOf"] # <<>>
             THEN IF MatchesAnySchema(v, s.subs["oneOf"]) THEN {} ELSE {"mismatch"}
        ELSE IF s.subs["anyOf"] # <<>>
             THEN IF MatchesAnySchema(v, s.subs["anyOf"]) THEN {} ELSE {"mismatch"}
        ELSE IF type = "unknown" THEN {}
        ELSE IF ~ OfType(v, type) THEN {"mismatch"}
        ELSE CASE type = "object" -> ValidateFields(v.fields, s)
               [] type = "array"  -> ValidateItems(v.items, s)
               [] OTHER           -> {}
-----------------------------------------------------------------------------
(* What validate_case makes of it; the schemas that are given and the body are      *)
(* sequences, empty when there is none.                                             *)

Check(holds) == IF holds THEN "passed" ELSE "failed"

\* A schema that is only a reference is dropped with a warning.
SchemaToCheck(given) == SelectSeq(given, LAMBDA s : ~ OnlyARef(s))

\* null is no body.
Body(body) == SelectSeq(body, LAMBDA v : v # Null)

SchemaCheck(given, body) ==
    IF SchemaToCheck(given) = <<>> THEN "unknown"
    ELSE Check(/\ Body(body) # <<>>
               /\ ValidatePayload(body[1], given[1]) \subseteq {"missing"})

\* fields are those the case names itself.  With a schema they only decide that the
\* fields the schema requires are counted; without one they are looked up.
RequiredCheck(given, fields, body) ==
    IF SchemaToCheck(given) # <<>>
    THEN IF Body(body) = <<>> \/ fields \cup given[1].required = {} THEN "unknown"
         ELSE Check("missing" \notin ValidatePayload(body[1], given[1]))
    ELSE IF fields = {} THEN "unknown"
         ELSE IF Body(body) = <<>> THEN "failed"
         ELSE IF body[1].kind # "object" THEN "unknown"
         ELSE Check(fields \subseteq DOMAIN body[1].fields)
=============================================================================
