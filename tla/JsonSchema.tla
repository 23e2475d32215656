--------------------------------- MODULE JsonSchema ---------------------------------
(***************************************************************************)
(* JSON values and the schemas of an OpenAPI document, as far as the       *)
(* parts that read them tell them apart, and what it means for a value to  *)
(* conform to a schema.  A key that a schema may leave out is a sequence   *)
(* or a set, empty when it does.  Field names are numbered in the order    *)
(* in which a schema lists them.                                           *)
(***************************************************************************)
EXTENDS Naturals, SequencesExt

Scalars == { "string", "integer", "number", "boolean", "null" }
Types   == Scalars \cup { "object", "array" }

Combiners == { "allOf", "oneOf", "anyOf" }

NoSubs == [ c \in Combiners |-> <<>> ]

\* The schema that says nothing.
Anything == [ ref      |-> {},      \* the component it refers to
              types    |-> <<>>,    \* several when type is a list
              props    |-> <<>>,    \* the schemas of its properties, by field
              required |-> {},
              items    |-> <<>>,
              extra    |-> <<>>,    \* additionalProperties
              subs     |-> NoSubs,
              example  |-> <<>> ]   \* an example, a default or the first of an enum

Typed(t)     == [Anything EXCEPT !.types = <<t>>]
ObjectOf(p, r) == [Typed("object") EXCEPT !.props = <<p>>, !.required = r]
ArrayOf(s)   == [Typed("array") EXCEPT !.items = <<s>>]
RefTo(name)  == [Anything EXCEPT !.ref = {name}]
Combined(c, s) == [Anything EXCEPT !.subs[c] = s]

Value(kind)   == [ kind |-> kind, fields |-> <<>>, items |-> <<>> ]
Object(f)     == [Value("object") EXCEPT !.fields = f]
Array(vs)     == [Value("array") EXCEPT !.items = vs]
Null          == Value("null")

\* The schemas directly inside a schema.
Inside(s) ==
    UNION ({ Range(p) : p \in Range(s.props) } \cup { Range(s.subs[c]) : c \in Combiners })
        \cup Range(s.items) \cup Range(s.extra)

OfType(v, t) == v.kind = t \/ (v.kind = "integer" /\ t = "number")

\* What the standard means by it.
RECURSIVE Conforms(_, _)
Conforms(v, s) ==
    /\ s.types # <<>> => \E t \in Range(s.types) : OfType(v, t)
    /\ v.kind = "object" =>
           /\ s.required \subseteq DOMAIN v.fields
           /\ \A p \in Range(s.props) :
                  \A f \in DOMAIN p \cap DOMAIN v.fields : Conforms(v.fields[f], p[f])
           /\ \A each \in Range(s.extra) :
                  \A f \in DOMAIN v.fields \ UNION { DOMAIN p : p \in Range(s.props) } :
                      Conforms(v.fields[f], each)
    /\ v.kind = "array" =>
           \A each \in Range(s.items), i \in Range(v.items) : Conforms(i, each)
    /\ \A i \in DOMAIN s.subs["allOf"] : Conforms(v, s.subs["allOf"][i])
    /\ s.subs["anyOf"] # <<>> =>
           \E i \in DOMAIN s.subs["anyOf"] : Conforms(v, s.subs["anyOf"][i])
    /\ s.subs["oneOf"] # <<>> =>
           \E i \in DOMAIN s.subs["oneOf"] : \A j \in DOMAIN s.subs["oneOf"] :
               Conforms(v, s.subs["oneOf"][j]) <=> i = j
=============================================================================
