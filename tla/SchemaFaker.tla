--------------------------------- MODULE SchemaFaker ---------------------------------
(***************************************************************************)
(* The example values a request is built from (core/schema_faker.py).      *)
(* Numbers, formats and minima are data of a scalar and left out.          *)
(***************************************************************************)
EXTENDS JsonSchema

CONSTANT MaxDepth   \* FakerOptions.max_depth

ASSUME MaxDepthAssumption == MaxDepth \in Nat

\* Mutant: the properties of the last schema replace those before.
MergeObjectSchemas_LastProps(a, b) ==
    [ a EXCEPT
        !.ref      = IF @ # {} THEN @ ELSE b.ref,
        !.types    = IF @ # <<>> THEN @ ELSE b.types,
        !.props    = IF b.props # <<>> THEN b.props ELSE <<<<>>>>,
        !.required = @ \cup b.required,
        !.items    = IF @ # <<>> THEN @ ELSE b.items,
        !.extra    = IF @ # <<>> THEN @ ELSE b.extra,
        !.subs     = [ c \in Combiners |->
                         IF c = "allOf" \/ @[c] # <<>> THEN @[c] ELSE b.subs[c] ],
        !.example  = IF @ # <<>> THEN @ ELSE b.example ]

\* Properties and required fields are united, of other keys the first counts, and an
\* allOf inside an allOf is dropped.
MergeObjectSchemas(a, b) ==
    [ a EXCEPT
        !.ref      = IF @ # {} THEN @ ELSE b.ref,
        !.types    = IF @ # <<>> THEN @ ELSE b.types,
        !.props    = << FoldLeft(LAMBDA p, q : q @@ p, <<>>, @ \o b.props) >>,
        !.required = @ \cup b.required,
        !.items    = IF @ # <<>> THEN @ ELSE b.items,
        !.extra    = IF @ # <<>> THEN @ ELSE b.extra,
        !.subs     = [ c \in Combiners |->
                         IF c = "allOf" \/ @[c] # <<>> THEN @[c] ELSE b.subs[c] ],
        !.example  = IF @ # <<>> THEN @ ELSE b.example ]

\* The type that is used of a list.
FirstType(types) ==
    LET nonNull == SelectSeq(types, LAMBDA t : t # "null")
    IN  Head(nonNull \o types)

RECURSIVE ExampleForSchema(_, _)
ExampleForSchema(s, depth) ==
    LET Example(inner) == ExampleForSchema(inner, depth + 1)
        type == IF s.types = <<>> THEN "none" ELSE FirstType(s.types)
    IN  IF depth > MaxDepth THEN Null
        ELSE IF s.example # <<>> THEN Head(s.example)
        ELSE IF s.subs["allOf"] # <<>>
             THEN Example(FoldLeft(MergeObjectSchemas, Anything, s.subs["allOf"]))
        ELSE IF s.subs["oneOf"] # <<>> THEN Example(Head(s.subs["oneOf"]))
        ELSE IF s.subs["anyOf"] # <<>> THEN Example(Head(s.subs["anyOf"]))
        ELSE IF type = "object" \/ (type = "none" /\ s.props # <<>>)
             THEN IF s.props = <<>> THEN Object(<<>>)
                  ELSE Object([ f \in DOMAIN s.props[1] |-> Example(s.props[1][f]) ])
        ELSE IF type = "array"
             THEN Array([ i \in { j \in DOMAIN s.items : s.items[j] # Anything } |->
                            Example(s.items[i]) ])
        ELSE IF type \in Scalars THEN Value(type)
        ELSE Null
=============================================================================
