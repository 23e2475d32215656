--------------------------------- MODULE RefResolver ---------------------------------
(***************************************************************************)
(* Resolution of the references in a schema of an OpenAPI document         *)
(* (resolve_schema of core/openapi_ref_resolver.py).  A document is a      *)
(* function from the names of its components to their schemas.             *)
(***************************************************************************)
EXTENDS JsonSchema

\* The referenced schema; the keys beside the reference win over its own.
Override(base, s) ==
    [ ref      |-> base.ref,
      types    |-> IF s.types # <<>> THEN s.types ELSE base.types,
      props    |-> IF s.props # <<>> THEN s.props ELSE base.props,
      required |-> IF s.required # {} THEN s.required ELSE base.required,
      items    |-> IF s.items # <<>> THEN s.items ELSE base.items,
      extra    |-> IF s.extra # <<>> THEN s.extra ELSE base.extra,
      subs     |-> [ c \in Combiners |-> IF s.subs[c] # <<>> THEN s.subs[c] ELSE base.subs[c] ],
      example  |-> IF s.example # <<>> THEN s.example ELSE base.example ]

Dereferenced(document, s) == Override(document[CHOOSE name \in s.ref : TRUE], s)

\* Mutant: what was seen is one set for all: a reference a schema makes twice is circular.
RECURSIVE Unresolvable_Shared(_, _, _)
Unresolvable_Shared(document, s, seen) ==
    IF s.ref # {}
    THEN \/ s.ref \subseteq seen
         \/ ~ s.ref \subseteq DOMAIN document
         \/ Unresolvable_Shared(document, Dereferenced(document, s), seen \cup s.ref)
    ELSE \E inner \in Inside(s) :
            Unresolvable_Shared(document, inner,
                                seen \cup UNION { other.ref : other \in Inside(s) \ {inner} })

\* Whether resolving s raises: a reference is met again on the way, or leads nowhere.
RECURSIVE Unresolvable(_, _, _)
Unresolvable(document, s, seen) ==
    IF s.ref # {}
    THEN \/ s.ref \subseteq seen
         \/ ~ s.ref \subseteq DOMAIN document
         \/ Unresolvable(document, Dereferenced(document, s), seen \cup s.ref)
    ELSE \E inner \in Inside(s) : Unresolvable(document, inner, seen)

RECURSIVE ResolveSchema(_, _)
ResolveSchema(document, s) ==
    LET Resolved(inner) == ResolveSchema(document, inner)
    IN  IF s.ref # {} THEN Resolved(Dereferenced(document, s))
        ELSE [s EXCEPT
                !.props = [ i \in DOMAIN @ |-> [ f \in DOMAIN @[i] |-> Resolved(@[i][f]) ] ],
                !.items = [ i \in DOMAIN @ |-> Resolved(@[i]) ],
                !.extra = [ i \in DOMAIN @ |-> Resolved(@[i]) ],
                !.subs  = [ c \in Combiners |-> [ i \in DOMAIN @[c] |-> Resolved(@[c][i]) ] ]]
=============================================================================
