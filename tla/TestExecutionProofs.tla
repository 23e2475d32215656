----------------------------- MODULE TestExecutionProofs -----------------------------
(***************************************************************************)
(* What TestExecution promises for every draft, every plan a language      *)
(* model may make, every schema and every answer of the tested service.    *)
(***************************************************************************)
EXTENDS TestExecution, WellFoundedInduction, TLAPS

-----------------------------------------------------------------------------
(* The operators of PayloadPlanning *)

\* A set of fields that has one has a first one.
LEMMA FirstInIsIn ==
  ASSUME NEW S \in SUBSET Fields, S # {}
  PROVE  FirstIn(S) \in S
  <1> DEFINE Less == OpToRel(<, Nat)
  <1>1. S \subseteq Nat
    BY MaxFieldsAssumption DEF Fields
  <1>2. \E f \in S : \A g \in S : ~(<<g, f>> \in Less)
    BY <1>1, NatLessThanWellFounded, WFMin
  <1>3. \A f, g \in Nat : g < f => <<g, f>> \in Less
    BY DEF OpToRel
  <1>4. \E f \in S : \A g \in S : f <= g
    <2> HIDE DEF Less
    <2>1. PICK f \in S : \A g \in S : ~(<<g, f>> \in Less)
      BY <1>2
    <2>2. \A g \in S : ~(g < f)
      BY <1>1, <1>3, <2>1
    <2>3. \A g \in S : f <= g
      BY <1>1, <2>2
    <2> QED
      BY <2>3
  <1> QED
    BY <1>4 DEF FirstIn

LEMMA FieldValuesIntro ==
  ASSUME NEW S \in SUBSET Fields, NEW f \in [S -> Types]
  PROVE  Object(f) \in PayloadType
  <1>1. f \in FieldValues
    BY DEF FieldValues
  <1> QED
    BY <1>1 DEF Object, PayloadType

LEMMA ObjectHasValues ==
  ASSUME NEW p \in PayloadType, p.kind = "object"
  PROVE  /\ p = Object(p.fields)
         /\ DOMAIN p.fields \in SUBSET Fields
         /\ p.fields \in [DOMAIN p.fields -> Types]
  BY DEF PayloadType, FieldValues, Object

\* The target field is a field, and a candidate if there is one.
LEMMA TargetIsCandidate ==
  ASSUME NEW m \in MentionType, NEW s \in SchemaType, NEW b \in BOOLEAN
  PROVE  /\ Candidates(s, b) \in SUBSET Fields
         /\ Candidates(s, b) # {} => InferTargetField(m, s, b) \in Candidates(s, b)
         /\ Candidates(s, b) = {} => InferTargetField(m, s, b) = NoField
  <1>1. Candidates(s, b) \in SUBSET Fields
    BY DEF Candidates, Properties, SchemaType
  <1>2. CASE Candidates(s, b) = {}
    BY <1>2 DEF InferTargetField
  <1>3. CASE Candidates(s, b) # {}
    <2> DEFINE named == m.words \cap Candidates(s, b)
               from  == IF named # {} THEN named ELSE Candidates(s, b)
    <2>1. from \in SUBSET Fields /\ from # {} /\ from \subseteq Candidates(s, b)
      BY <1>1, <1>3
    <2>2. FirstIn(from) \in Candidates(s, b)
      BY <2>1, FirstInIsIn
    <2> QED
      BY <1>1, <1>3, <2>2 DEF InferTargetField
  <1> QED
    BY <1>1, <1>2, <1>3

LEMMA FallbackPlanType ==
  ASSUME NEW t \in TestTypes, NEW m \in MentionType, NEW e \in PayloadType,
         NEW s \in SchemaType
  PROVE  FallbackPlan(t, m, e, s) \in PlanType
  <1>1. NoOverrides \in FieldValues
    BY DEF NoOverrides, FieldValues
  <1>2. Synthesize \in PlanType
    BY <1>1 DEF Synthesize, PlanType, Kinds, NoField, NoStrategy
  <1>3. \A b \in BOOLEAN : InferTargetField(m, s, b) \in Fields \cup {NoField}
    BY TargetIsCandidate
  <1>4. \A f \in Fields \cup {NoField} : InferInvalidStrategy(s, f) \in Strategies
    BY DEF InferInvalidStrategy, Strategies
  <1>5. \A f \in Fields \cup {NoField} : RemovePlan(f) \in PlanType
    BY <1>1 DEF RemovePlan, Synthesize, PlanType, Kinds, NoStrategy
  <1>6. \A f \in Fields \cup {NoField} : InvalidPlan(f, s) \in PlanType
    BY <1>1, <1>4 DEF InvalidPlan, Synthesize, PlanType, Kinds
  <1>7. [ Synthesize EXCEPT !.trust = TRUE, !.explicit = TRUE ] \in PlanType
    BY <1>1 DEF Synthesize, PlanType, Kinds, NoField, NoStrategy
  <1> QED
    BY <1>2, <1>3, <1>5, <1>6, <1>7 DEF FallbackPlan

LEMMA ExampleType ==
  ASSUME NEW s \in SchemaType
  PROVE  ExampleForSchema(s) \in PayloadType
  <1>1. CASE s.example # Synthetic
    BY <1>1 DEF ExampleForSchema, SchemaType
  <1>2. CASE s.example = Synthetic
    <2>1. Properties(s) \in SUBSET Fields /\ s.type \in [Properties(s) -> DeclaredTypes]
      BY DEF SchemaType, Properties
    <2>2. [ f \in Properties(s) |-> IF s.type[f] = "untyped" THEN "null" ELSE s.type[f] ]
            \in [Properties(s) -> Types]
      BY <2>1 DEF DeclaredTypes, Types
    <2> QED
      BY <1>2, <2>1, <2>2, FieldValuesIntro DEF ExampleForSchema
  <1> QED
    BY <1>1, <1>2

LEMMA RemoveFieldsType ==
  ASSUME NEW p \in PayloadType, NEW S
  PROVE  /\ RemoveFields(p, S) \in PayloadType
         /\ \A f \in S : ~Has(RemoveFields(p, S), f)
  <1>1. CASE p.kind = "object"
    <2> DEFINE left == [ f \in DOMAIN p.fields \ S |-> p.fields[f] ]
    <2>1. DOMAIN p.fields \ S \in SUBSET Fields /\ left \in [DOMAIN p.fields \ S -> Types]
      BY <1>1, ObjectHasValues
    <2>2. RemoveFields(p, S) = Object(left)
      BY <1>1 DEF RemoveFields
    <2>3. Object(left) \in PayloadType
      BY <2>1, FieldValuesIntro
    <2>4. Object(left).fields = left /\ DOMAIN left = DOMAIN p.fields \ S
      BY DEF Object
    <2> QED
      BY <2>2, <2>3, <2>4 DEF Has
  <1>2. CASE p.kind # "object"
    BY <1>2 DEF RemoveFields, Has
  <1> QED
    BY <1>1, <1>2

LEMMA OverridesType ==
  ASSUME NEW p \in PayloadType, NEW o \in FieldValues
  PROVE  ApplyFieldOverrides(p, o) \in PayloadType
  <1>1. CASE p.kind = "object"
    <2> DEFINE all    == DOMAIN o \cup DOMAIN p.fields
               merged == [ f \in all |-> IF f \in DOMAIN o THEN o[f] ELSE p.fields[f] ]
    <2>1. DOMAIN o \in SUBSET Fields /\ o \in [DOMAIN o -> Types]
      BY DEF FieldValues
    <2>2. all \in SUBSET Fields /\ merged \in [all -> Types]
      BY <1>1, <2>1, ObjectHasValues
    <2>3. Object(merged) \in PayloadType
      BY <2>2, FieldValuesIntro
    <2> QED
      BY <1>1, <2>3 DEF ApplyFieldOverrides
  <1>2. CASE p.kind # "object"
    BY <1>2 DEF ApplyFieldOverrides
  <1> QED
    BY <1>1, <1>2

\* Without overrides nothing is overridden.
LEMMA NoOverridesKeep ==
  ASSUME NEW p \in PayloadType
  PROVE  ApplyFieldOverrides(p, NoOverrides) = p
  <1>1. CASE p.kind = "object"
    <2>1. p = Object(p.fields) /\ p.fields = [ f \in DOMAIN p.fields |-> p.fields[f] ]
      BY <1>1, ObjectHasValues
    <2>2. DOMAIN NoOverrides = {}
      BY DEF NoOverrides
    <2>3. [ f \in DOMAIN NoOverrides \cup DOMAIN p.fields |->
              IF f \in DOMAIN NoOverrides THEN NoOverrides[f] ELSE p.fields[f] ] = p.fields
      BY <2>1, <2>2
    <2> QED
      BY <1>1, <2>1, <2>3 DEF ApplyFieldOverrides
  <1>2. CASE p.kind # "object"
    BY <1>2 DEF ApplyFieldOverrides
  <1> QED
    BY <1>1, <1>2

LEMMA MutateType ==
  ASSUME NEW p \in PayloadType, NEW s \in SchemaType, NEW t, NEW g
  PROVE  MutateInvalidField(p, t, g, s) \in PayloadType
  <1> DEFINE bad(f)  == InvalidValue(s.type[f], g)
             mutable == { f \in Properties(s) : Has(p, f) /\ bad(f) # "none" }
             first   == IF t \in mutable THEN t ELSE FirstIn(mutable)
  <1>1. CASE mutable = {}
    BY <1>1 DEF MutateInvalidField
  <1>2. CASE mutable # {}
    <2>1. mutable \in SUBSET Fields
      BY DEF Properties, SchemaType
    <2>2. first \in mutable
      <3> HIDE DEF mutable
      <3> QED
        BY <1>2, <2>1, FirstInIsIn
    <2>3. Has(p, first) /\ bad(first) \in Types
      <3>1. \A f \in mutable : Has(p, f) /\ bad(f) # "none"
        OBVIOUS
      <3>2. \A f : bad(f) \in {"none", "integer", "string"}
        BY DEF InvalidValue
      <3> HIDE DEF mutable, first, bad
      <3> QED
        BY <2>2, <3>1, <3>2 DEF Types
    <2>4. MutateInvalidField(p, t, g, s) = Object([ p.fields EXCEPT ![first] = bad(first) ])
      BY <1>2 DEF MutateInvalidField
    <2> HIDE DEF first, bad
    <2>5. DOMAIN p.fields \in SUBSET Fields /\ p.fields \in [DOMAIN p.fields -> Types]
      BY <2>3, ObjectHasValues DEF Has
    <2>6. [ p.fields EXCEPT ![first] = bad(first) ] \in [DOMAIN p.fields -> Types]
      BY <2>3, <2>5
    <2> QED
      BY <2>4, <2>5, <2>6, FieldValuesIntro
  <1> QED
    BY <1>1, <1>2

LEMMA ApplyPlanType ==
  ASSUME NEW pl \in PlanType, NEW b \in PayloadType, NEW e \in PayloadType,
         NEW s \in SchemaType
  PROVE  ApplyPlan(pl, b, e, s) \in PayloadType
  <1> DEFINE working == IF pl.trust /\ e.kind # "none" /\ ~IsEmptyObject(e) THEN e ELSE b
             reduced == RemoveFields(working, FieldsToRemove(pl))
  <1>1. reduced \in PayloadType
    BY RemoveFieldsType
  <1>2. pl.overrides \in FieldValues
    BY DEF PlanType
  <1> HIDE DEF reduced
  <1>3. /\ MutateInvalidField(reduced, pl.target, pl.strategy, s) \in PayloadType
        /\ ApplyFieldOverrides(reduced, pl.overrides) \in PayloadType
    BY <1>1, <1>2, MutateType, OverridesType
  <1> QED
    BY <1>3 DEF ApplyPlan, reduced

LEMMA SourceLabelType ==
  ASSUME NEW pl PROVE SourceLabel(pl) \in Labels
  BY DEF SourceLabel, Labels

-----------------------------------------------------------------------------
(* The fallback's plans *)

\* The body and the label that the fallback's plan for a case leads to.
FallbackBody(c) ==
    LET s  == c.operation.schema
        pl == FallbackPlan(c.test, c.mention, c.explicit, s)
    IN  [ body  |-> ApplyPlan(pl, BasePayload(pl, c.explicit, s), c.explicit, s),
          label |-> SourceLabel(pl) ]

LEMMA FaultIsMade ==
  ASSUME NEW c \in CaseType, Faultable(c)
  PROVE  HasFault(c, FallbackBody(c))
  <1> DEFINE s  == c.operation.schema
             e  == c.explicit
             pl == FallbackPlan(c.test, c.mention, e, s)
             bp == BasePayload(pl, e, s)
  <1>1. /\ s \in SchemaType /\ e \in PayloadType /\ c.test \in TestTypes
        /\ c.mention \in MentionType
    BY DEF CaseType, OperationType
  <1>2. Properties(s) # {} /\ s.example = Synthetic
    BY DEF Faultable
  <1>3. ExampleForSchema(s) \in PayloadType
    BY <1>1, ExampleType
  <1>4. CASE e.kind # "none" /\ ~IsEmptyObject(e)
    <2>1. pl = [ Synthesize EXCEPT !.trust = TRUE, !.explicit = TRUE ]
      BY <1>4 DEF FallbackPlan
    <2>2. SourceLabel(pl) = "explicit_payload_final" /\ bp = e
      BY <1>4, <2>1 DEF SourceLabel, Synthesize, BasePayload
    <2>3. /\ pl.trust /\ pl.overrides = NoOverrides /\ pl.kind = "none"
          /\ FieldsToRemove(pl) = {}
      BY <2>1 DEF Synthesize, FieldsToRemove
    <2>4. RemoveFields(e, {}) = e
      <3>1. CASE e.kind = "object"
        BY <1>1, <3>1, ObjectHasValues DEF RemoveFields
      <3>2. CASE e.kind # "object"
        BY <3>2 DEF RemoveFields
      <3> QED
        BY <3>1, <3>2
    <2>5. ApplyPlan(pl, bp, e, s) = e
      BY <1>1, <1>4, <2>3, <2>4, NoOverridesKeep DEF ApplyPlan
    <2> QED
      BY <2>2, <2>5 DEF HasFault, FallbackBody
  <1>5. CASE ~(e.kind # "none" /\ ~IsEmptyObject(e)) /\ c.test = "missing_required"
    <2> DEFINE t == InferTargetField(c.mention, s, TRUE)
    <2>1. t \in s.required /\ t \in Fields
      <3>1. s.required # {} /\ Candidates(s, TRUE) = s.required
        BY <1>5 DEF Faultable, Candidates
      <3>2. t \in Candidates(s, TRUE) /\ s.required \subseteq Fields
        BY <1>1, <3>1, TargetIsCandidate DEF SchemaType
      <3> HIDE DEF t
      <3> QED
        BY <3>1, <3>2
    <2> HIDE DEF t
    <2>2. pl = RemovePlan(t)
      BY <1>5 DEF FallbackPlan, t
    <2>3. t # NoField
      BY <2>1, MaxFieldsAssumption DEF Fields, NoField
    <2>4. /\ ~pl.trust /\ pl.overrides = NoOverrides /\ pl.kind = "remove_required_field"
          /\ FieldsToRemove(pl) = {t} /\ SourceLabel(pl) = "mutated_missing_required"
      BY <2>2, <2>3 DEF RemovePlan, Synthesize, FieldsToRemove, SourceLabel
    <2>5. bp \in PayloadType
      BY <1>3, <2>4 DEF BasePayload
    <2>6. ApplyPlan(pl, bp, e, s) = RemoveFields(bp, {t})
      BY <2>4, <2>5, RemoveFieldsType, NoOverridesKeep DEF ApplyPlan
    <2>7. ~Has(RemoveFields(bp, {t}), t)
      BY <2>5, RemoveFieldsType
    <2> QED
      BY <2>1, <2>4, <2>6, <2>7 DEF HasFault, FallbackBody
  <1>6. CASE ~(e.kind # "none" /\ ~IsEmptyObject(e)) /\ c.test = "invalid_type_or_format"
    <2> DEFINE t == InferTargetField(c.mention, s, FALSE)
               g == InferInvalidStrategy(s, t)
               b == ExampleForSchema(s)
    <2>1. t \in Properties(s) /\ t \in Fields /\ t # NoField
      <3>1. Candidates(s, FALSE) = Properties(s)
        BY DEF Candidates
      <3>2. t \in Properties(s) /\ Properties(s) \subseteq Fields
        BY <1>1, <1>2, <3>1, TargetIsCandidate
      <3> HIDE DEF t
      <3> QED
        BY <3>2, MaxFieldsAssumption DEF Fields, NoField
    <2> HIDE DEF t
    <2>2. pl = InvalidPlan(t, s)
      BY <1>6 DEF FallbackPlan, t
    <2>3. /\ ~pl.trust /\ pl.overrides = NoOverrides /\ pl.kind = "invalid_type_or_format"
          /\ FieldsToRemove(pl) = {} /\ pl.target = t /\ pl.strategy = g
          /\ SourceLabel(pl) = "mutated_invalid_type_or_format"
      BY <2>1, <2>2 DEF InvalidPlan, Synthesize, FieldsToRemove, SourceLabel
    <2>4. bp = b /\ b \in PayloadType
      BY <1>3, <2>3 DEF BasePayload
    <2>5. /\ b.kind = "object" /\ DOMAIN b.fields = Properties(s)
          /\ \A f \in Properties(s) : Has(b, f)
      BY <1>2 DEF ExampleForSchema, Object, Has
    <2>6. RemoveFields(b, {}) = b
      <3> HIDE DEF b
      <3> QED
        BY <2>4, <2>5, ObjectHasValues DEF RemoveFields
    <2>7. ApplyPlan(pl, bp, e, s) = MutateInvalidField(b, t, g, s)
      <3> HIDE DEF b, g
      <3> QED
        BY <2>1, <2>3, <2>4, <2>6 DEF ApplyPlan
    <2> DEFINE bad(f)  == InvalidValue(s.type[f], g)
               mutable == { f \in Properties(s) : Has(b, f) /\ bad(f) # "none" }
               first   == IF t \in mutable THEN t ELSE FirstIn(mutable)
    <2>8. s.type \in [Properties(s) -> DeclaredTypes] /\ Properties(s) \in SUBSET Fields
      BY <1>1 DEF SchemaType, Properties
    <2>9. \A f \in Properties(s) :
             s.type[f] # "untyped" =>
               InvalidValue(s.type[f], "infer_from_schema") \notin {"none", s.type[f]}
      BY <2>8 DEF InvalidValue, DeclaredTypes, Types
    <2>10. /\ first \in mutable
           /\ s.type[first] # "untyped" /\ bad(first) # s.type[first]
      <3>1. mutable \in SUBSET Fields
        BY <2>8
      <3>2. CASE s.type[t] = "untyped"
        <4>1. g = "infer_from_schema"
          BY <2>1, <3>2 DEF InferInvalidStrategy
        <4>2. \A f \in Properties(s) : s.type[f] = "untyped" => bad(f) = "none"
          BY <4>1 DEF InvalidValue
        <4>3. mutable # {} /\ t \notin mutable
          BY <2>5, <2>9, <3>2, <4>1, <4>2 DEF Faultable
        <4>4. first \in mutable
          <5> HIDE DEF mutable
          <5> QED
            BY <3>1, <4>3, FirstInIsIn
        <4>5. \A f \in mutable : s.type[f] # "untyped" /\ bad(f) # s.type[f]
          BY <2>9, <4>1, <4>2
        <4> HIDE DEF first, mutable, bad
        <4> QED
          BY <4>4, <4>5
      <3>3. CASE s.type[t] # "untyped"
        <4>1. s.type[t] \in Types \ {"null"}
          BY <2>1, <2>8, <3>3 DEF DeclaredTypes
        <4>2. bad(t) # "none" /\ bad(t) # s.type[t]
          BY <2>1, <4>1 DEF InferInvalidStrategy, InvalidValue, Types, NoStrategy
        <4>3. t \in mutable /\ first = t
          BY <2>1, <2>5, <4>2
        <4> HIDE DEF first, mutable, bad
        <4> QED
          BY <3>3, <4>2, <4>3
      <3> QED
        BY <3>2, <3>3
    <2>11. MutateInvalidField(b, t, g, s) = Object([ b.fields EXCEPT ![first] = bad(first) ])
      BY <2>10 DEF MutateInvalidField
    <2>12. /\ first \in Properties(s) /\ first \in DOMAIN b.fields
      BY <2>5, <2>10
    <2> HIDE DEF first, bad, b, g
    <2>13. /\ Has(MutateInvalidField(b, t, g, s), first)
           /\ MutateInvalidField(b, t, g, s).fields[first] = bad(first)
      BY <2>11, <2>12 DEF Has, Object
    <2> QED
      BY <2>3, <2>7, <2>10, <2>12, <2>13 DEF HasFault, FallbackBody
  <1>7. CASE /\ ~(e.kind # "none" /\ ~IsEmptyObject(e))
             /\ c.test \notin {"missing_required", "invalid_type_or_format"}
    <2>1. pl = Synthesize
      BY <1>7 DEF FallbackPlan
    <2>2. /\ ~pl.trust /\ pl.overrides = NoOverrides /\ pl.kind = "none"
          /\ FieldsToRemove(pl) = {} /\ SourceLabel(pl) = "synthesized_valid_payload"
      BY <2>1 DEF Synthesize, FieldsToRemove, SourceLabel
    <2>3. bp = ExampleForSchema(s)
      BY <2>2 DEF BasePayload
    <2>4. RemoveFields(bp, {}) = bp
      <3>1. bp.kind = "object"
        BY <1>2, <2>3 DEF ExampleForSchema, Object
      <3> QED
        BY <1>3, <2>3, <3>1, ObjectHasValues DEF RemoveFields
    <2>5. ApplyPlan(pl, bp, e, s) = bp
      BY <1>3, <2>2, <2>3, <2>4, NoOverridesKeep DEF ApplyPlan
    <2> QED
      BY <2>2, <2>3, <2>5 DEF HasFault, FallbackBody
  <1> QED
    BY <1>4, <1>5, <1>6, <1>7

-----------------------------------------------------------------------------
(* The batch *)

\* What the fallback has planned is carried from node to node until it is sent.
PlanInv ==
    /\ at \in {"case", "plan"} => origin = "none"
    /\ at \in {"base", "apply"} /\ origin = "fallback" =>
          plan = FallbackPlan(Case.test, Case.mention, Case.explicit, Operation.schema)
    /\ at = "apply" /\ origin = "fallback" =>
          base = BasePayload(plan, Case.explicit, Operation.schema)
    /\ at \in {"build", "send"} /\ origin = "fallback" => request = FallbackBody(Case)

UrlInv ==
    /\ at = "send" => target.url
    /\ at = "raised" => ~target.url
    /\ ~target.url => results = <<>>

\* A result is that of its case.
ResultOf(c, r) ==
    /\ r.expected = c.expected /\ r.skip = c.skip
    /\ c.test = "unauthorized_or_forbidden" => "token" \notin r.auth
    /\ r.origin = "fallback" => r.body = FallbackBody(c).body /\ r.label = FallbackBody(c).label

ResultsInv ==
    /\ Len(results) = next - 1
    /\ \A i \in 1..Len(results) : ResultOf(draft[i], results[i])

EndInv ==
    /\ at \in {"executed", "validated"} => next = Len(draft) + 1
    /\ at # "validated" => verdicts = <<>>
    /\ at = "validated" =>
          verdicts = [ i \in 1..Len(results) |-> ValidateCase(results[i], {}) ]

Inv == TypeOK /\ PlanInv /\ UrlInv /\ ResultsInv /\ EndInv

LEMMA CaseIsTyped ==
  ASSUME TypeOK, next <= Len(draft)
  PROVE  /\ Case \in CaseType /\ Operation \in OperationType
         /\ Operation.schema \in SchemaType /\ Case.explicit \in PayloadType
         /\ Case.test \in TestTypes /\ Case.mention \in MentionType
         /\ Case.skip \in BOOLEAN /\ Case.expected \in SUBSET Statuses
  <1>1. next \in 1..Len(draft)
    BY DEF TypeOK
  <1>2. draft[next] \in Cases
    BY <1>1 DEF TypeOK
  <1>3. Case \in CaseType
    BY <1>2, InputsAssumption DEF Case
  <1> QED
    BY <1>3 DEF CaseType, OperationType, Operation

LEMMA NothingPlannedType ==
  /\ Synthesize \in PlanType /\ NoPayload \in PayloadType /\ NoRequest \in RequestType
  <1>1. NoOverrides \in FieldValues
    BY DEF NoOverrides, FieldValues
  <1>2. Synthesize \in PlanType
    BY <1>1 DEF Synthesize, PlanType, Kinds, NoField, NoStrategy
  <1>3. NoPayload \in PayloadType
    BY DEF NoPayload, PayloadType
  <1> QED
    BY <1>2, <1>3 DEF NoRequest, RequestType, BodyLabels

LEMMA InitInv == Init => Inv
  <1> SUFFICES ASSUME Init PROVE Inv
    OBVIOUS
  <1> USE DEF Init
  <1>1. draft \in Seq(Cases) /\ Len(draft) \in Nat /\ Len(draft) <= MaxCases
    BY InputsAssumption
  <1>2. /\ origin = "none" /\ plan \in PlanType /\ base \in PayloadType
        /\ request \in RequestType
    BY NothingPlannedType DEF NothingPlanned
  <1>3. TypeOK
    BY <1>1, <1>2 DEF TypeOK
  <1>4. PlanInv
    BY <1>2 DEF PlanInv
  <1>5. UrlInv /\ ResultsInv /\ EndInv
    BY DEF UrlInv, ResultsInv, EndInv
  <1> QED
    BY <1>3, <1>4, <1>5 DEF Inv

LEMMA LabelTypes ==
  \A l \in Labels \cup BodyLabels \cup {"skipped_case"}, b \in PayloadType :
      [ body |-> b, label |-> l ] \in RequestType
  BY DEF RequestType

\* A step that takes a result keeps what is known of results.
LEMMA ResultIsKept ==
  ASSUME Inv, NEW status \in Statuses \cup {NoStatus}, NEW error \in {"none", "empty", "text"},
         at = "send", results' = Append(results, Result(status, error)),
         NextCase, UNCHANGED <<target, draft, verdicts>>
  PROVE  Inv'
  <1> USE DEF Inv
  <1>1. next <= Len(draft) /\ next \in Nat /\ Len(draft) \in Nat
    BY DEF TypeOK
  <1>2. Case \in CaseType /\ Case.skip \in BOOLEAN /\ Case.expected \in SUBSET Statuses
    BY <1>1, CaseIsTyped
  <1> DEFINE r == Result(status, error)
  <1>3. AuthHeaders(Case) \in SUBSET {"case", "token"}
    BY DEF AuthHeaders
  <1>4. r \in ResultType
    BY <1>2, <1>3 DEF Result, ResultType, TypeOK, RequestType
  <1>5. ResultOf(Case, r)
    <2>1. /\ r.expected = Case.expected /\ r.skip = Case.skip /\ r.auth = AuthHeaders(Case)
          /\ r.body = request.body /\ r.label = request.label /\ r.origin = origin
      BY DEF Result
    <2>2. Case.test = "unauthorized_or_forbidden" => "token" \notin AuthHeaders(Case)
      BY DEF AuthHeaders
    <2> QED
      BY <2>1, <2>2 DEF ResultOf, PlanInv
  <1> HIDE DEF r
  <1>6. results \in Seq(ResultType) /\ results' = Append(results, r) /\ Len(results) = next - 1
    BY DEF TypeOK, ResultsInv, r
  <1>7. /\ results' \in Seq(ResultType) /\ Len(results') = next
        /\ \A i \in 1..Len(results) : results'[i] = results[i]
        /\ results'[next] = r
    BY <1>1, <1>4, <1>6
  <1>8. TypeOK'
    <2>1. next' \in 1..Len(draft) + 1
      BY <1>1 DEF NextCase, TypeOK
    <2> QED
      BY <1>7, <2>1, NothingPlannedType DEF TypeOK, NextCase
  <1>9. PlanInv'
    BY DEF NextCase, PlanInv
  <1>10. UrlInv'
    BY DEF NextCase, UrlInv
  <1>11. ResultsInv'
    <2>1. Len(results') = next' - 1
      BY <1>1, <1>7 DEF NextCase
    <2>2. \A i \in 1..Len(results') : ResultOf(draft'[i], results'[i])
      <3> SUFFICES ASSUME NEW i \in 1..Len(results') PROVE ResultOf(draft'[i], results'[i])
        OBVIOUS
      <3>1. CASE i \in 1..Len(results)
        BY <1>7, <3>1 DEF ResultsInv
      <3>2. CASE i = next
        BY <1>5, <1>7, <3>2 DEF Case
      <3> QED
        BY <1>1, <1>6, <1>7, <3>1, <3>2
    <2> QED
      BY <2>1, <2>2 DEF ResultsInv
  <1>12. EndInv'
    BY DEF NextCase, EndInv
  <1> QED
    BY <1>8, <1>9, <1>10, <1>11, <1>12

LEMMA NextInv == Inv /\ [Next]_vars => Inv'
  <1> SUFFICES ASSUME Inv, [Next]_vars PROVE Inv'
    OBVIOUS
  <1> USE DEF Inv
  <1>1. CASE TakeCase
    <2>1. Case.explicit \in PayloadType /\ Operation \in OperationType
      BY <1>1, CaseIsTyped DEF TakeCase
    <2>2. request' \in RequestType
      <3>1. Operation.body # "schema" => Operation.body \in BodyLabels
        BY <2>1 DEF OperationType
      <3>2. CASE Case.skip
        BY <1>1, <2>1, <3>2, LabelTypes DEF TakeCase
      <3>3. CASE ~Case.skip /\ Operation.body # "schema"
        BY <1>1, <2>1, <3>1, <3>3, LabelTypes DEF TakeCase
      <3>4. CASE ~Case.skip /\ Operation.body = "schema"
        BY <1>1, <3>4 DEF TakeCase, TypeOK
      <3> QED
        BY <3>2, <3>3, <3>4
    <2>3. at' \in {"build", "plan"} /\ next <= Len(draft) /\ origin = "none" /\ at = "case"
      BY <1>1 DEF TakeCase, PlanInv
    <2>4. UNCHANGED <<target, draft, next, origin, plan, base, results, verdicts>>
      BY <1>1 DEF TakeCase
    <2>5. TypeOK'
      BY <2>2, <2>3, <2>4 DEF TypeOK
    <2>6. PlanInv' /\ UrlInv' /\ ResultsInv' /\ EndInv'
      BY <2>3, <2>4 DEF PlanInv, UrlInv, ResultsInv, EndInv
    <2> QED
      BY <2>5, <2>6
  <1>2. CASE PlanPayload
    <2>1. /\ at = "plan" /\ at' = "base" /\ next <= Len(draft)
          /\ UNCHANGED <<target, draft, next, base, request, results, verdicts>>
      BY <1>2 DEF PlanPayload, TypeOK
    <2>2. FallbackPlan(Case.test, Case.mention, Case.explicit, Operation.schema) \in PlanType
      BY <2>1, CaseIsTyped, FallbackPlanType
    <2>3. plan' \in PlanType /\ origin' \in {"ai", "fallback"}
      BY <1>2, <2>2, InputsAssumption DEF PlanPayload
    <2>4. Case' = Case /\ Operation' = Operation
      BY <2>1 DEF Case, Operation
    <2>5. PlanInv'
      BY <1>2, <2>1, <2>4 DEF PlanPayload, PlanInv
    <2>6. TypeOK'
      BY <2>1, <2>3 DEF TypeOK
    <2>7. UrlInv' /\ ResultsInv' /\ EndInv'
      BY <2>1 DEF UrlInv, ResultsInv, EndInv
    <2> QED
      BY <2>5, <2>6, <2>7
  <1>3. CASE BuildBasePayload
    <2>1. /\ at = "base" /\ at' = "apply" /\ next <= Len(draft)
          /\ base' = BasePayload(plan, Case.explicit, Operation.schema)
          /\ UNCHANGED <<target, draft, next, origin, plan, request, results, verdicts>>
      BY <1>3 DEF BuildBasePayload, TypeOK
    <2>2. base' \in PayloadType
      BY <2>1, CaseIsTyped, ExampleType DEF BasePayload
    <2>3. Case' = Case /\ Operation' = Operation
      BY <2>1 DEF Case, Operation
    <2>4. PlanInv'
      BY <2>1, <2>3 DEF PlanInv
    <2>5. TypeOK'
      BY <2>1, <2>2 DEF TypeOK
    <2>6. UrlInv' /\ ResultsInv' /\ EndInv'
      BY <2>1 DEF UrlInv, ResultsInv, EndInv
    <2> QED
      BY <2>4, <2>5, <2>6
  <1>4. CASE ApplyPayloadPlan
    <2>1. /\ at = "apply" /\ at' = "build" /\ next <= Len(draft)
          /\ request' = [ body  |-> ApplyPlan(plan, base, Case.explicit, Operation.schema),
                          label |-> SourceLabel(plan) ]
          /\ UNCHANGED <<target, draft, next, origin, plan, base, results, verdicts>>
      BY <1>4 DEF ApplyPayloadPlan, TypeOK
    <2>2. plan \in PlanType /\ base \in PayloadType
      BY DEF TypeOK
    <2>3. ApplyPlan(plan, base, Case.explicit, Operation.schema) \in PayloadType
      BY <2>1, <2>2, CaseIsTyped, ApplyPlanType
    <2>4. request' \in RequestType
      BY <2>1, <2>3, SourceLabelType, LabelTypes
    <2>5. Case' = Case /\ Operation' = Operation
      BY <2>1 DEF Case, Operation
    <2>6. origin = "fallback" => request' = FallbackBody(Case)
      BY <2>1 DEF PlanInv, FallbackBody, Operation
    <2>7. PlanInv'
      BY <2>1, <2>5, <2>6 DEF PlanInv
    <2>8. TypeOK'
      BY <2>1, <2>4 DEF TypeOK
    <2>9. UrlInv' /\ ResultsInv' /\ EndInv'
      BY <2>1 DEF UrlInv, ResultsInv, EndInv
    <2> QED
      BY <2>7, <2>8, <2>9
  <1>5. CASE BuildRequest
    <2>1. /\ at = "build" /\ at' = IF target.url THEN "send" ELSE "raised"
          /\ UNCHANGED <<target, draft, next, origin, plan, base, request, results, verdicts>>
      BY <1>5 DEF BuildRequest
    <2>2. TypeOK'
      BY <2>1 DEF TypeOK
    <2>3. PlanInv'
      BY <2>1 DEF PlanInv, Case, Operation
    <2>4. UrlInv' /\ ResultsInv' /\ EndInv'
      BY <2>1 DEF UrlInv, ResultsInv, EndInv
    <2> QED
      BY <2>2, <2>3, <2>4
  <1>6. CASE SkipCase
    BY <1>6, ResultIsKept DEF SkipCase
  <1>7. CASE SendRequest
    <2>1. PICK status \in Statuses \cup {NoStatus}, error \in {"none", "empty", "text"} :
            results' = Append(results, Result(status, error))
      BY <1>7 DEF SendRequest
    <2> QED
      BY <1>7, <2>1, ResultIsKept DEF SendRequest
  <1>8. CASE FinishExecution
    <2>1. /\ at = "case" /\ at' = "executed" /\ next = Len(draft) + 1
          /\ UNCHANGED <<target, draft, next, origin, plan, base, request, results, verdicts>>
      BY <1>8 DEF FinishExecution
    <2> QED
      BY <2>1 DEF TypeOK, PlanInv, UrlInv, ResultsInv, EndInv
  <1>9. CASE ValidateBatch
    <2>1. /\ at = "executed" /\ at' = "validated"
          /\ verdicts' = [ i \in 1..Len(results) |-> ValidateCase(results[i], {}) ]
          /\ UNCHANGED <<target, draft, next, origin, plan, base, request, results>>
      BY <1>9 DEF ValidateBatch
    <2>2. \A i \in 1..Len(results) : ValidateCase(results[i], {}) \in Verdicts
      BY DEF ValidateCase, ComputeVerdict, Verdicts
    <2>3. Len(results) \in Nat
      BY DEF TypeOK
    <2>4. verdicts' \in Seq(Verdicts)
      BY <2>1, <2>2, <2>3
    <2>5. TypeOK'
      BY <2>1, <2>4 DEF TypeOK
    <2> QED
      BY <2>1, <2>5 DEF PlanInv, UrlInv, ResultsInv, EndInv
  <1>10. CASE UNCHANGED vars
    BY <1>10 DEF vars, TypeOK, PlanInv, UrlInv, ResultsInv, EndInv, Case, Operation
  <1> QED
    BY <1>1, <1>2, <1>3, <1>4, <1>5, <1>6, <1>7, <1>8, <1>9, <1>10 DEF Next

LEMMA SpecInv == Spec => []Inv
  BY InitInv, NextInv, PTL DEF Spec

-----------------------------------------------------------------------------
(* The theorems *)

\* Execution and validation keep their types: requests, results and verdicts.
THEOREM TypeCorrect == Spec => []TypeOK
  BY SpecInv, PTL DEF Inv

\* A run that raises has sent nothing, whatever the draft: what is missing of the target
\* is missing before the first request.
THEOREM RaisesBeforeSendingThm == Spec => []RaisesBeforeSending
  <1>1. Inv => RaisesBeforeSending
    BY DEF Inv, UrlInv, RaisesBeforeSending
  <1> QED
    BY <1>1, SpecInv, PTL

\* A validated batch has one verdict for each case of the draft, in order.
THEOREM VerdictsAreOfTheDraftThm == Spec => []VerdictsAreOfTheDraft
  <1>1. Inv => VerdictsAreOfTheDraft
    <2> SUFFICES ASSUME Inv, at = "validated" PROVE VerdictsAreOfTheDraft
      BY DEF VerdictsAreOfTheDraft
    <2>1. Len(results) = Len(draft) /\ Len(draft) \in Nat
      BY DEF Inv, TypeOK, ResultsInv, EndInv
    <2>2. verdicts = [ i \in 1..Len(results) |-> ValidateCase(results[i], {}) ]
      BY DEF Inv, EndInv
    <2>3. Len(verdicts) = Len(draft)
      BY <2>1, <2>2
    <2>4. \A i \in 1..Len(draft) : /\ results[i].expected = draft[i].expected
                                   /\ results[i].skip = draft[i].skip
      BY <2>1 DEF Inv, ResultsInv, ResultOf
    <2>5. \A r \in ResultType : ValidateCase(r, {}) = "skip" <=> r.skip
      BY DEF ValidateCase, ComputeVerdict, ResultType
    <2>6. \A i \in 1..Len(draft) : results[i] \in ResultType
      BY <2>1 DEF Inv, TypeOK
    <2>7. \A i \in 1..Len(draft) : verdicts[i] = "skip" <=> draft[i].skip
      BY <2>1, <2>2, <2>4, <2>5, <2>6
    <2> QED
      BY <2>3, <2>4, <2>7 DEF VerdictsAreOfTheDraft
  <1> QED
    BY <1>1, SpecInv, PTL

\* A case that expects something passes only on an answer it expects.
THEOREM PassedWasAnsweredThm == Spec => []PassedWasAnswered
  <1>1. Inv => PassedWasAnswered
    <2> SUFFICES ASSUME Inv, NEW i \in DOMAIN verdicts, verdicts[i] = "pass"
                 PROVE  \/ results[i].status \in results[i].expected
                        \/ results[i].expected = {}
      BY DEF PassedWasAnswered
    <2>1. at = "validated"
      BY DEF Inv, EndInv
    <2>2. verdicts[i] = ValidateCase(results[i], {})
      BY <2>1 DEF Inv, EndInv
    <2>3. "failed" \notin {StatusCheck(results[i].expected, results[i].status)}
      BY <2>2 DEF ValidateCase, ComputeVerdict
    <2> QED
      BY <2>3 DEF StatusCheck, Check
  <1> QED
    BY <1>1, SpecInv, PTL

\* The target's token leaves the program only with cases that are not about access.
THEOREM TokenIsWithheldThm == Spec => []TokenIsWithheld
  <1>1. Inv => TokenIsWithheld
    BY DEF Inv, TypeOK, ResultsInv, ResultOf, TokenIsWithheld
  <1> QED
    BY <1>1, SpecInv, PTL

\* The fault that the label of a fallback's body names is in the body that was sent,
\* through planning, building and mutating it, where the schema allows for the fault.
THEOREM FallbackLabelIsTrueThm == Spec => []FallbackLabelIsTrue
  <1>1. Inv => FallbackLabelIsTrue
    <2> SUFFICES ASSUME Inv, NEW i \in DOMAIN results, results[i].origin = "fallback",
                        Faultable(draft[i])
                 PROVE  HasFault(draft[i], results[i])
      BY DEF FallbackLabelIsTrue
    <2>1. i \in 1..Len(results) /\ Len(results) = next - 1 /\ next \in 1..Len(draft) + 1
      BY DEF Inv, TypeOK, ResultsInv
    <2>2. ResultOf(draft[i], results[i])
      BY <2>1 DEF Inv, ResultsInv
    <2>3. draft[i] \in CaseType
      BY <2>1, InputsAssumption DEF Inv, TypeOK
    <2>4. HasFault(draft[i], FallbackBody(draft[i]))
      BY <2>3, FaultIsMade
    <2>5. /\ results[i].body = FallbackBody(draft[i]).body
          /\ results[i].label = FallbackBody(draft[i]).label
      BY <2>2 DEF ResultOf
    <2> QED
      BY <2>4, <2>5 DEF HasFault
  <1> QED
    BY <1>1, SpecInv, PTL
=============================================================================
