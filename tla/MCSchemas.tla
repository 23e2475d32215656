---------------------------------- MODULE MCSchemas ----------------------------------
(* From a document to a verdict, for TLC: a document is loaded, a case is made of its *)
(* operation, and a response is judged by the schema the case expects.                *)
EXTENDS SpecIngestion, RefResolver, CaseGeneration, ResponseValidator, Relation

VARIABLES
    case,      \* the case that was made, as a set of at most one
    made,      \* by whom it was made, and without which fields
    response,  \* the body of the response to it; <<>> is none
    verdict    \* the checks that were made of it

vars == <<specVars, case, made, response, verdict>>

NoVerdict == [ schema |-> "unknown", required |-> "unknown" ]

-----------------------------------------------------------------------------
(* The schemas, documents and responses that are tried *)

Leaves  == { Typed(t) : t \in {"string", "integer", "boolean"} } \cup { Anything }
Special == { [Anything EXCEPT !.types = <<"null", "string">>],
             [Typed("number") EXCEPT !.example = <<Value("integer")>>],
             Typed("null"), [Anything EXCEPT !.items = <<Typed("string")>>] }

\* The partial functions on two fields.
Props(S) == UNION { [D -> S] : D \in SUBSET {1, 2} }

Objects == { ObjectOf(p, r) : p \in Props(Leaves), r \in SUBSET {1, 2} }

Left  == ObjectOf([f \in {1} |-> Typed("string")], {1})
Right == ObjectOf([f \in {2} |-> Typed("integer")], {2})
Both  == Combined("allOf", <<Left, Right>>)
Either == Combined("anyOf", <<Typed("integer"), Typed("null")>>)

Nested == { ArrayOf(s) : s \in {Anything, Typed("integer"), Left, Either} }
     \cup { ObjectOf([f \in {1} |-> s], r) :
              s \in {Left, Both, Either, ArrayOf(Left), ObjectOf([f \in {1} |-> Left], {1})},
              r \in {{}, {1}} }
     \cup { Both, Either,
            Combined("oneOf", <<Left, Right>>), Combined("oneOf", <<Typed("string"), Left>>),
            Combined("allOf", <<Both, Typed("object")>>),
            Combined("allOf", <<Left, [Right EXCEPT !.example = <<Object(<<>>)>>]>>),
            [Both EXCEPT !.required = {2}],
            [Left EXCEPT !.extra = <<Typed("integer")>>],
            [Left EXCEPT !.types = <<>>], [Typed("object") EXCEPT !.required = {1}],
            [Left EXCEPT !.example = <<Object([f \in {1, 2} |-> Value("string")])>>] }

Components ==
    { <<>>,
      [ A |-> Left, B |-> ObjectOf(<<RefTo("A"), Typed("string")>>, {1}), C |-> RefTo("B") ],
      [ A |-> ObjectOf(<<RefTo("B"), RefTo("C")>>, {1}), B |-> Left, C |-> RefTo("B") ],
      [ A |-> ObjectOf(<<RefTo("A")>>, {}), B |-> Typed("string") ],
      [ A |-> ArrayOf(RefTo("B")), B |-> Combined("anyOf", <<Left, RefTo("A")>>) ],
      [ A |-> RefTo("A"), B |-> Both ] }

References == { RefTo("A"), RefTo("B"), ArrayOf(RefTo("C")),
                [RefTo("A") EXCEPT !.required = {1, 2}],
                Combined("allOf", <<RefTo("A"), Right>>),
                [Typed("object") EXCEPT !.extra = <<RefTo("B")>>],
                ObjectOf(<<RefTo("B")>>, {1}) }

Nothing   == <<>>   \* the object without keys
At(name)  == [ ref |-> name ]
Operation == [ shared |-> <<>>, own |-> <<>>, body |-> Nothing,
               responses |-> [ r \in {404} |-> Nothing ], security |-> <<>> ]

Media(type, s) == [ type |-> type, schema |-> s ]
BodyOf(media)   == [ content |-> media ]
JsonBodyOf(s)   == BodyOf(<<Media("json", s)>>)
Response(s)    == [ r \in {200} |-> [ schema |-> s ] ]

Parameter(name, location, s) == [ name |-> name, location |-> location, schema |-> s ]

\* Parameters, bodies and responses to refer to: also by a reference, or in a circle.
SharedObjects == [ id      |-> Parameter("id", "path", Typed("integer")),
                   alias   |-> At("id"),
                   body    |-> JsonBodyOf(RefTo("A")),
                   again   |-> At("body"),
                   circle  |-> At("circle"),
                   ok      |-> [ schema |-> RefTo("A") ],
                   success |-> At("ok") ]

Document(schemas, op) ==
    [ components |-> [ schemas |-> schemas, objects |-> SharedObjects ],
      operations |-> <<op>>, security |-> << <<{"key"}>> >> ]

Requirements == { <<>> } \cup
    { <<list>> : list \in { <<>>, <<{}>>, <<{"key"}>>, <<{"key"}, {}>> } }

MCDocuments ==
         \* request bodies,
         { Document(<<>>, [Operation EXCEPT !.body = JsonBodyOf(s)]) :
             s \in Objects \cup Nested \cup Special }
    \cup { Document(c, [Operation EXCEPT !.body = JsonBodyOf(s)]) :
             c \in Components, s \in References }
         \* responses,
    \cup { Document(c, [Operation EXCEPT !.responses = Response(s)]) :
             c \in Components, s \in References }
    \cup { Document(<<>>, [Operation EXCEPT !.responses = Response(s)]) :
             s \in Objects \cup Nested \cup Special }
         \* references to objects,
    \cup { Document([ A |-> Left ],
                    [Operation EXCEPT !.own = own, !.body = body,
                                      !.responses = [ r \in {200} |-> At(ok) ]]) :
             own \in { <<>>, <<At("id")>>, <<At("alias")>>,
                       <<[ ref |-> "id", schema |-> RefTo("A") ]>> },
             body \in { At("body"), At("again"), At("circle"), At("none"),
                        [ ref |-> "circle", content |-> <<Media("json", Right)>> ] },
             ok \in { "ok", "success" } }
         \* and all else.
    \cup { [ Document([ A |-> Left ],
                      [ shared    |-> <<Parameter("id", "path", Typed("integer"))>>,
                        own       |-> own,
                        body      |-> BodyOf(content),
                        responses |-> (201 :> [ schema |-> RefTo("A") ] @@ 202 :> Nothing),
                        security  |-> mine ]) EXCEPT !.security = all ] :
             own \in { <<>>, <<Parameter("id", "path", RefTo("A"))>>,
                       <<Parameter("id", "query", RefTo("B"))>> },
             content \in { <<>>, <<Media("form", RefTo("B"))>>,
                           <<Media("form", RefTo("B")), Media("json", RefTo("A"))>> },
             mine \in Requirements, all \in Requirements }

\* Another request loads a document that means something else by a name of these.
Other == Document([ A |-> Right ], [Operation EXCEPT !.body = JsonBodyOf(RefTo("A"))])

MCSpecs == <<MCDocuments, {Other}>>

\* The resolver of RefResolver, on a schema that it is handed for the first time.
MCRaises(components, s)  == Unresolvable(components.schemas, s, {})
MCResolve(components, s) == ResolveSchema(components.schemas, s)

SomeValues == { Value(k) : k \in {"string", "integer", "boolean", "null"} }

Responses ==
    SomeValues
    \cup { Object(f) : f \in Props({Value("string"), Value("integer"), Null}) }
    \cup { Array(<<v>>) : v \in SomeValues } \cup { Array(<<>>) }
    \cup { Object([f \in {1} |-> Object(g)]) : g \in Props({Value("string"), Value("integer")}) }
    \cup { Object([f \in {1} |-> Array(<<Object(g)>>)]) : g \in Props({Value("string")}) }
    \cup { Array(<<Object([f \in {1} |-> Value("string")]), Object(<<>>)>>) }

Drafts == { [ test |-> t, body |-> b, expected |-> e, skip |-> k ] :
              t \in {"positive", "unauthorized"}, b \in {<<>>, <<Object(<<Null>>)>>},
              e \in {{}, {200, 404}, {99, 600}}, k \in BOOLEAN }

-----------------------------------------------------------------------------
(* The steps *)

MCInit == Init /\ case = {} /\ made = [by |-> "none", ignore |-> {}]
          /\ response = <<>> /\ verdict = NoVerdict

Load(l) == case = {} /\ LoadForTarget(l) /\ UNCHANGED <<case, made, response, verdict>>

\* The operation as the generator sees it.
OperationOf(parsed) ==
    LET json == SelectSeq(parsed.body, LAMBDA media : media.type = "json")
    IN  [ body      |-> [ i \in DOMAIN json |-> json[i].schema ],
          auth      |-> parsed.auth,
          path      |-> \E k \in DOMAIN parsed.parameters : k[2] = "path",
          responses |-> parsed.responses ]

\* Cases are made of the document of the first request, when there is no other: what is
\* made and judged does not depend on what others load.
Generate ==
    /\ load[1].at = "loaded" /\ load[2].at = "idle" /\ case = {}
    /\ \E hasToken \in BOOLEAN, i \in DOMAIN load[1].operations, ignore \in {{}, {1}} :
           LET op == OperationOf(load[1].operations[i])
           IN  \/ /\ made' = [by |-> "generator", ignore |-> ignore]
                  /\ \E test \in TestTypes : case' = BuildCase(op, test, ignore, hasToken)
               \/ /\ made' = [by |-> "model", ignore |-> ignore]
                  /\ \E draft \in Drafts : case' = Normalize(op, draft, ignore, hasToken)
    /\ case' # {}
    /\ UNCHANGED <<specVars, response, verdict>>

\* fields are those an execution result may name itself.
Judge ==
    /\ verdict = NoVerdict
    /\ \E c \in case, body \in { <<v>> : v \in Responses } \cup {<<>>}, fields \in {{}, {1}} :
           /\ made.by = "generator" /\ c.test = "positive" /\ ~ c.token
           /\ response' = body
           /\ verdict' = [ schema   |-> SchemaCheck(c.schema, body),
                           required |-> RequiredCheck(c.schema, fields, body) ]
    /\ UNCHANGED <<specVars, case, made>>

MCNext == (\E l \in Loaders : Load(l)) \/ Generate \/ Judge

MCSpec == MCInit /\ [][MCNext]_vars
-----------------------------------------------------------------------------
(* References *)

\* The names a schema refers to.
RECURSIVE NamesIn(_)
NamesIn(s) == s.ref \cup UNION { NamesIn(inner) : inner \in Inside(s) }

\* Whether following references between schemas from s comes to one of a cycle or to an
\* unknown name.
LeadsAstray(components, s) ==
    LET names == DOMAIN components \cup NamesIn(s) \cup
                     UNION { NamesIn(components[n]) : n \in DOMAIN components }
        refers == [ x, y \in names |->
                      x \in DOMAIN components /\ y \in NamesIn(components[x]) ]
        leads == TransitiveClosure(refers, names)
        met   == NamesIn(s) \cup { y \in names : \E x \in NamesIn(s) : leads[x, y] }
    IN  \E y \in met : leads[y, y] \/ y \notin DOMAIN components

SchemasLoaded(parsed) ==
    { media.schema : media \in Range(parsed.body) } \cup
    UNION { Range(s) : s \in Range(parsed.parameters) \cup Range(parsed.responses) }

\* The objects of an operation that refer to one that is itself a reference.
Chained(components, op) ==
    { object \in ObjectsOf(op) :
        "ref" \in DOMAIN object /\ "ref" \in DOMAIN components.objects[object.ref] }

\* A document is loaded exactly if every object that an operation refers to is there and
\* no reference of a schema that it then has runs in a circle or leads nowhere, unless
\* another document came between.  In what is loaded no schema has a reference left, for
\* the faker and the validator cannot follow one.  A reference to an object is followed
\* once: only without a second one is every response loaded with the schema that is
\* behind it, and else it may silently be loaded without.
LoadedIffResolvable ==
    \A l \in Loaders \ overtaken, i \in {1} :
        load[l].at \in {"raised", "loaded"} =>
            LET components == load[l].spec.components
                op         == load[l].spec.operations[i]
                astray     ==
                    \/ \E object \in ObjectsOf(op) :
                          "ref" \in DOMAIN object /\ object.ref \notin DOMAIN components.objects
                    \/ \E s \in SchemasOf(components, op) : LeadsAstray(components.schemas, s)
            IN  IF load[l].at = "raised" THEN astray
                ELSE /\ ~ astray
                     /\ \A s \in SchemasLoaded(load[l].operations[i]) : NamesIn(s) = {}
                     /\ Chained(components, op) = {} =>
                          \A r \in DOMAIN op.responses :
                              load[l].operations[i].responses[r] = <<>> <=>
                                  op.responses[r] = Nothing
-----------------------------------------------------------------------------
(* Cases *)

\* The nesting the faker counts.
RECURSIVE Depth(_)
Depth(s) == IF s.example # <<>> \/ Inside(s) = {} THEN 0
            ELSE 1 + Max({ Depth(inner) : inner \in Inside(s) })

\* What the faker makes a valid example of: not of an allOf inside another or with an
\* example of a part, not of items without a type, and not of required fields that are
\* not declared.
RECURSIVE Fakable(_)
Fakable(s) ==
    /\ Depth(s) <= MaxDepth
    /\ s.example = <<>> => s.required \subseteq UNION { DOMAIN p : p \in Range(s.props) }
    /\ s.items # <<>> => s.types # <<>>
    /\ \A part \in Range(s.subs["allOf"]) : part.subs["allOf"] = <<>> /\ part.example = <<>>
    /\ \A inner \in Inside(s) : Fakable(inner)

\* The schema of the body that a case made by the generator is for.
BodySchemas ==
    IF made.by = "generator"
    THEN UNION { Range(OperationOf(op).body) : op \in Range(load[1].operations) }
    ELSE {}

\* A positive case sends a body the validator of this project would accept by the
\* schema of the request: what two modules make of a schema agrees.
PositiveBodyIsAccepted ==
    \A c \in case, s \in BodySchemas :
        c.test = "positive" /\ made.ignore = {} /\ Fakable(s) =>
            \A v \in Range(c.body) : ValidatePayload(v, s) = {}

\* The requirements of an operation: its own, or else those of the document.
Requires(op) ==
    UNION { Range(list) : list \in Range(IF op.security # <<>> THEN op.security
                                         ELSE load[1].spec.security) }

\* A call without a token is to be refused: each requirement asks for a scheme.
Secured(op) == Requires(op) # {} /\ {} \notin Requires(op)

\* Where a call may be anonymous, the ingestor takes the operation for a secured one.
MayBeAnonymous(op) == {} \in Requires(op)

-----------------------------------------------------------------------------
(* Verdicts *)

\* The schemas the validator reads as the standard does: every schema with keys of a
\* type names that type, none says what additional fields are, and a combination has no
\* keys beside it.
RECURSIVE Supported(_)
Supported(s) ==
    /\ Len(s.types) <= 1
    /\ s.props # <<>> \/ s.required # {} => s.types = <<"object">>
    /\ s.items # <<>> => s.types = <<"array">>
    /\ s.extra = <<>>
    /\ s.subs # NoSubs => s = [Anything EXCEPT !.subs = s.subs]
    /\ \A inner \in Inside(s) : Supported(inner)

Judged == { s \in UNION { Range(c.schema) : c \in case } :
              verdict # NoVerdict /\ response # <<>> /\ Supported(s) }

RECURSIVE HasOneOf(_)
HasOneOf(s) == s.subs["oneOf"] # <<>> \/ \E inner \in Inside(s) : HasOneOf(inner)

Passed == [ schema |-> "passed", required |-> "passed" ]

\* A response fails by its schema only if it does not conform to it, and conforms if it
\* passes both checks; of a oneOf it may then match several.
VerdictIsConformance ==
    \A s \in Judged :
        /\ "failed" \in {verdict.schema, verdict.required} =>
              ~ Conforms(response[1], s) \/ response[1] = Null
        /\ verdict = Passed /\ ~ HasOneOf(s) => Conforms(response[1], s)
=============================================================================
