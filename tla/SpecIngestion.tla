-------------------------------- MODULE SpecIngestion --------------------------------
(***************************************************************************)
(* Loading the OpenAPI document of a target (core/openapi_ingestor.py).    *)
(* TestOrchestrator has one ingestor, and the ingestor one resolver, for   *)
(* every review it starts: each request is a loader of its own, and all    *)
(* share the resolver.                                                     *)
(***************************************************************************)
EXTENDS Naturals, Sequences, Functions, TLC

CONSTANTS
    Loaders,
    Specs,         \* documents that the target of each loader may publish
    Raises(_, _),  \* whether the resolver of some components raises on a schema, and
    Resolve(_, _)  \* what it makes of it otherwise: see RefResolver

\* components: schemas by name, and objects by name: parameters, bodies and responses.
\* An object is a record of the keys it has: ref (the name of another), name, location,
\* content (the media types of a body in order) and schema (of a parameter, or of a
\* JSON response).  operations: each has the parameters of its path and its own, a
\* body, and responses by status.  security: of the document and of an operation, is
\* empty when the key is absent, or else holds the list of its requirements, each the
\* set of schemes it asks for: none, if a call may be anonymous.

VARIABLES
    resolver,  \* the components the ingestor resolves references in; <<>> is none
    load,      \* what each loader has made of its document
    overtaken  \* loaders whose resolver another one replaced

specVars == <<resolver, load, overtaken>>

NotLoading == [ at |-> "idle" ]

Init ==
    /\ resolver = <<>>
    /\ load = [l \in Loaders |-> NotLoading]
    /\ overtaken = {}

-----------------------------------------------------------------------------
(* One operation of a document *)

\* An object that is a reference becomes what it refers to, with its own keys over it.
\* One reference is followed: of one that leads to another, that other is left.
ResolveObject(components, object) ==
    IF "ref" \notin DOMAIN object THEN object
    ELSE [ k \in DOMAIN object \ {"ref"} |-> object[k] ] @@ components.objects[object.ref]

SchemaOf(object) == IF "schema" \in DOMAIN object THEN <<object.schema>> ELSE <<>>

\* The parameters of the path, then those of the operation, the last of a name and a
\* location counts.  One without a location is passed over.
Parameters(components, op) ==
    LET given == op.shared \o op.own
        all == SelectSeq([ i \in DOMAIN given |-> ResolveObject(components, given[i]) ],
                         LAMBDA object : "location" \in DOMAIN object)
        key == [ i \in DOMAIN all |-> <<all[i].name, all[i].location>> ]
    IN  [ k \in Range(key) |->
            SchemaOf(all[CHOOSE i \in DOMAIN all :
                           key[i] = k /\ \A j \in DOMAIN all : key[j] = k => j <= i]) ]

\* The JSON body, or else the first there is.
BodyMedia(components, op) ==
    LET body  == ResolveObject(components, op.body)
        given == IF "content" \in DOMAIN body THEN body.content ELSE <<>>
        json  == SelectSeq(given, LAMBDA media : media.type = "json")
        all   == json \o given
    IN  IF all = <<>> THEN <<>> ELSE <<Head(all)>>

ResponseSchemas(components, op) ==
    [ r \in DOMAIN op.responses |-> SchemaOf(ResolveObject(components, op.responses[r])) ]

\* The list that is there is counted, whatever its requirements ask for.
DetectAuthRequired(op, spec) ==
    IF op.security # <<>> THEN op.security[1] # <<>>
    ELSE spec.security # <<>> /\ spec.security[1] # <<>>

ObjectsOf(op) ==
    Range(op.shared) \cup Range(op.own) \cup {op.body} \cup Range(op.responses)

\* Every schema that is resolved for an operation.
SchemasOf(components, op) ==
    { media.schema : media \in Range(BodyMedia(components, op)) } \cup
    UNION { Range(s) : s \in Range(Parameters(components, op)) } \cup
    UNION { Range(s) : s \in Range(ResponseSchemas(components, op)) }

\* An object that is referred to is not there, or one of the schemas cannot be resolved.
Unparsable(components, op) ==
    \/ \E object \in ObjectsOf(op) :
          "ref" \in DOMAIN object /\ object.ref \notin DOMAIN components.objects
    \/ \E s \in SchemasOf(components, op) : Raises(components, s)

ParseOperation(components, spec, op) ==
    LET Resolved(found) == [ i \in DOMAIN found |-> Resolve(components, found[i]) ]
        parameters == Parameters(components, op)
        media      == BodyMedia(components, op)
        responses  == ResponseSchemas(components, op)
    IN  [ parameters |-> [ k \in DOMAIN parameters |-> Resolved(parameters[k]) ],
          body       |-> [ i \in DOMAIN media |->
                             [media[i] EXCEPT !.schema = Resolve(components, @)] ],
          responses  |-> [ r \in DOMAIN responses |-> Resolved(responses[r]) ],
          auth       |-> DetectAuthRequired(op, spec) ]

-----------------------------------------------------------------------------
(* load_for_target *)

\* The document is read or fetched and parsed, which may raise.
LoadRawSpec(l) ==
    /\ load[l].at = "idle"
    /\ \/ \E spec \in Specs[l] :
             load' = [load EXCEPT ![l] = [ at |-> "fetched", spec |-> spec ]]
       \/ load' = [load EXCEPT ![l] = [ at |-> "unavailable" ]]
    /\ UNCHANGED <<resolver, overtaken>>

Parsing(l) == load[l].at = "parsing"

\* Mutant: the resolver is made once.
SetResolver_Once(l) ==
    /\ load[l].at = "fetched"
    /\ resolver' = IF resolver = <<>> THEN load[l].spec.components ELSE resolver
    /\ overtaken' = overtaken \cup { other \in Loaders : Parsing(other) }
    /\ load' = [load EXCEPT ![l] = [ at |-> "parsing", spec |-> load[l].spec,
                                     operations |-> <<>> ]]

\* The resolver of the ingestor becomes the one of this document, also for those that
\* are still parsing another.
SetResolver(l) ==
    /\ load[l].at = "fetched"
    /\ resolver' = load[l].spec.components
    /\ overtaken' = overtaken \cup { other \in Loaders : Parsing(other) }
    /\ load' = [load EXCEPT ![l] = [ at |-> "parsing", spec |-> load[l].spec,
                                     operations |-> <<>> ]]

\* The next operation is parsed with the resolver there is now; one that cannot be
\* parsed fails the whole document.
ParseNextOperation(l) ==
    LET parsed == load[l].operations
        op     == load[l].spec.operations[Len(parsed) + 1]
    IN  /\ load[l].at = "parsing"
        /\ Len(parsed) < Len(load[l].spec.operations)
        /\ load' = [load EXCEPT ![l] =
             IF Unparsable(resolver, op)
             THEN [ at |-> "raised", spec |-> load[l].spec ]
             ELSE [@ EXCEPT !.operations =
                     Append(parsed, ParseOperation(resolver, load[l].spec, op))]]
        /\ UNCHANGED <<resolver, overtaken>>

FinishLoad(l) ==
    /\ load[l].at = "parsing"
    /\ Len(load[l].operations) = Len(load[l].spec.operations)
    /\ load' = [load EXCEPT ![l].at = "loaded"]
    /\ UNCHANGED <<resolver, overtaken>>

LoadForTarget(l) ==
    LoadRawSpec(l) \/ SetResolver(l) \/ ParseNextOperation(l) \/ FinishLoad(l)

Spec == Init /\ [][\E l \in Loaders : LoadForTarget(l)]_specVars
-----------------------------------------------------------------------------
\* Loads share a resolver that no lock protects.  The operations that one returns are
\* those of its own document whatever was loaded before or is loaded at the same time,
\* as long as no other begins to parse before it is done: then its references may be
\* resolved in the other's document.
OperationsAreOfTheSpec ==
    \A l \in Loaders \ overtaken :
        load[l].at = "loaded" =>
            \A i \in DOMAIN load[l].operations :
                load[l].operations[i] =
                    ParseOperation(load[l].spec.components, load[l].spec,
                                   load[l].spec.operations[i])
=============================================================================
