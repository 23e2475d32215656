----------------------------- MODULE SpecIngestionProofs -----------------------------
(***************************************************************************)
(* Any number of loads may share the resolver of the ingestor, without a   *)
(* lock: one that no other overtook returns the operations of its own      *)
(* document, in its order, whatever a reference is resolved to.            *)
(***************************************************************************)
EXTENDS SpecIngestion, TLAPS

\* Each loader is at one place, and while it parses it has parsed the first operations.
LoadShape ==
    /\ DOMAIN load = Loaders
    /\ \A l \in Loaders : load[l].at = "parsing" =>
          /\ load[l] = [ at |-> "parsing", spec |-> load[l].spec,
                         operations |-> load[l].operations ]
          /\ \E S : load[l].operations \in Seq(S)

\* The resolver is of the document that is being parsed, unless it was replaced since.
ResolverIsOfTheSpec ==
    \A l \in Loaders \ overtaken :
        load[l].at = "parsing" => resolver = load[l].spec.components

\* What was parsed so far was resolved in the document it is of.
ParsedSoFar ==
    \A l \in Loaders \ overtaken :
        load[l].at \in {"parsing", "loaded"} =>
            \A i \in DOMAIN load[l].operations :
                load[l].operations[i] =
                    ParseOperation(load[l].spec.components, load[l].spec,
                                   load[l].spec.operations[i])

IngestionInv == LoadShape /\ ResolverIsOfTheSpec /\ ParsedSoFar

-----------------------------------------------------------------------------
(* The invariant is kept *)

\* The loads of the others are left alone, also by one that replaces the resolver.
LEMMA OthersKept ==
    ASSUME LoadShape, NEW l \in Loaders, NEW x, load' = [load EXCEPT ![l] = x]
    PROVE  DOMAIN load' = Loaders /\ load'[l] = x
           /\ \A k \in Loaders \ {l} : load'[k] = load[k]
  BY DEF LoadShape

\* A load that does not parse, before or after, says nothing about its operations.
LEMMA NotParsing ==
    ASSUME IngestionInv, NEW l \in Loaders, NEW x, load' = [load EXCEPT ![l] = x],
           x.at \notin {"parsing", "loaded"}, UNCHANGED <<resolver, overtaken>>
    PROVE  IngestionInv'
  <1>1. /\ DOMAIN load' = Loaders /\ load'[l] = x
        /\ \A k \in Loaders \ {l} : load'[k] = load[k]
    BY OthersKept DEF IngestionInv
  <1>2. LoadShape'
    BY <1>1 DEF IngestionInv, LoadShape
  <1>3. ResolverIsOfTheSpec'
    BY <1>1 DEF IngestionInv, ResolverIsOfTheSpec
  <1>4. ParsedSoFar'
    BY <1>1 DEF IngestionInv, ParsedSoFar
  <1> QED BY <1>2, <1>3, <1>4 DEF IngestionInv

\* A document that is fetched, or is not.
LEMMA FetchStep ==
    ASSUME IngestionInv, NEW l \in Loaders, LoadRawSpec(l)
    PROVE  IngestionInv'
  <1>1. PICK x : load' = [load EXCEPT ![l] = x] /\ x.at \notin {"parsing", "loaded"}
    BY DEF LoadRawSpec
  <1> QED BY <1>1, NotParsing DEF LoadRawSpec

\* Those that are parsing are overtaken; the one that starts has parsed nothing.
LEMMA ResolverStep ==
    ASSUME IngestionInv, NEW l \in Loaders, SetResolver(l)
    PROVE  IngestionInv'
  <1> DEFINE x == [ at |-> "parsing", spec |-> load[l].spec, operations |-> <<>> ]
  <1>1. /\ resolver' = load[l].spec.components /\ load' = [load EXCEPT ![l] = x]
        /\ overtaken' = overtaken \cup { other \in Loaders : load[other].at = "parsing" }
    BY DEF SetResolver, Parsing
  <1>2. /\ x.at = "parsing" /\ x.spec = load[l].spec /\ x.operations = <<>>
        /\ x = [ at |-> "parsing", spec |-> x.spec, operations |-> x.operations ]
        /\ x.operations \in Seq({}) /\ DOMAIN x.operations = {}
    OBVIOUS
  <1> HIDE DEF x
  <1>3. /\ DOMAIN load' = Loaders /\ load'[l] = x
        /\ \A k \in Loaders \ {l} : load'[k] = load[k]
    BY <1>1, OthersKept DEF IngestionInv
  <1>4. LoadShape'
    BY <1>2, <1>3 DEF IngestionInv, LoadShape
  <1>5. \A k \in Loaders \ overtaken' : k \in Loaders \ overtaken /\ load[k].at # "parsing"
    BY <1>1
  <1>6. ResolverIsOfTheSpec'
    BY <1>1, <1>2, <1>3, <1>5 DEF ResolverIsOfTheSpec
  <1>7. ParsedSoFar'
    BY <1>2, <1>3, <1>5 DEF IngestionInv, ParsedSoFar
  <1> QED BY <1>4, <1>6, <1>7 DEF IngestionInv

\* What a load that parses has parsed may be replaced.
LEMMA ParsedReplaced ==
    ASSUME NEW r, NEW spec, NEW old, NEW new,
           r = [ at |-> "parsing", spec |-> spec, operations |-> old ]
    PROVE  [r EXCEPT !.operations = new]
             = [ at |-> "parsing", spec |-> spec, operations |-> new ]
  OBVIOUS

\* The operation that is appended is resolved in its own document, if nobody overtook.
LEMMA ParseStep ==
    ASSUME IngestionInv, NEW l \in Loaders, ParseNextOperation(l)
    PROVE  IngestionInv'
  <1> DEFINE parsed == load[l].operations
             next   == ParseOperation(resolver, load[l].spec,
                                      load[l].spec.operations[Len(parsed) + 1])
             raised == [ at |-> "raised", spec |-> load[l].spec ]
             longer == [ at |-> "parsing", spec |-> load[l].spec,
                         operations |-> Append(parsed, next) ]
  <1>1. /\ load[l].at = "parsing" /\ UNCHANGED <<resolver, overtaken>>
        /\ load[l] = [ at |-> "parsing", spec |-> load[l].spec, operations |-> parsed ]
    BY DEF ParseNextOperation, IngestionInv, LoadShape
  <1>2. PICK S : parsed \in Seq(S)
    BY <1>1 DEF IngestionInv, LoadShape
  <1>3. \/ load' = [load EXCEPT ![l] = raised]
        \/ load' = [load EXCEPT ![l] = [load[l] EXCEPT !.operations = Append(parsed, next)]]
    <2> HIDE DEF next
    <2>1. l \in DOMAIN load
      BY DEF IngestionInv, LoadShape
    <2> QED BY <2>1 DEF ParseNextOperation, next
  <1>4. CASE load' = [load EXCEPT ![l] = raised]
    <2>1. raised.at = "raised"
      OBVIOUS
    <2> HIDE DEF raised
    <2> QED BY <1>1, <1>4, <2>1, NotParsing
  <1>5. CASE load' = [load EXCEPT ![l] = [load[l] EXCEPT !.operations = Append(parsed, next)]]
    <2> HIDE DEF next
    <2>1. [load[l] EXCEPT !.operations = Append(parsed, next)] = longer
      <3>1. \A spec, old, new :
               load[l] = [ at |-> "parsing", spec |-> spec, operations |-> old ] =>
                  [load[l] EXCEPT !.operations = new]
                     = [ at |-> "parsing", spec |-> spec, operations |-> new ]
        BY ParsedReplaced
      <3> HIDE DEF parsed
      <3> QED BY <1>1, <3>1, Zenon
    <2>2. /\ longer.at = "parsing" /\ longer.spec = load[l].spec
          /\ longer.operations = Append(parsed, next)
          /\ longer = [ at |-> "parsing", spec |-> longer.spec,
                        operations |-> longer.operations ]
      OBVIOUS
    <2>3. parsed \in Seq(S \cup {next})
      BY <1>2
    <2>4. /\ Append(parsed, next) \in Seq(S \cup {next}) /\ Len(parsed) \in Nat
          /\ DOMAIN Append(parsed, next) = 1..(Len(parsed) + 1)
          /\ DOMAIN parsed = 1..Len(parsed)
          /\ \A i \in 1..Len(parsed) : Append(parsed, next)[i] = parsed[i]
          /\ Append(parsed, next)[Len(parsed) + 1] = next
          /\ \A i \in 1..(Len(parsed) + 1) : i \in 1..Len(parsed) \/ i = Len(parsed) + 1
      BY <2>3
    <2> HIDE DEF longer
    <2>5. /\ DOMAIN load' = Loaders /\ load'[l] = longer
          /\ \A k \in Loaders \ {l} : load'[k] = load[k]
      BY <1>5, <2>1, OthersKept DEF IngestionInv
    <2>6. LoadShape'
      BY <2>2, <2>4, <2>5 DEF IngestionInv, LoadShape
    <2>7. ResolverIsOfTheSpec'
      BY <1>1, <2>2, <2>5 DEF IngestionInv, ResolverIsOfTheSpec
    <2>8. ASSUME l \notin overtaken, NEW i \in DOMAIN longer.operations
          PROVE  longer.operations[i] = ParseOperation(longer.spec.components, longer.spec,
                                                       longer.spec.operations[i])
      <3>1. CASE i \in 1..Len(parsed)
        <4>1. longer.operations[i] = parsed[i]
          BY <2>2, <2>4, <3>1
        <4>2. parsed[i] = ParseOperation(load[l].spec.components, load[l].spec,
                                         load[l].spec.operations[i])
          BY <1>1, <2>4, <2>8, <3>1 DEF IngestionInv, ParsedSoFar
        <4> QED BY <2>2, <4>1, <4>2
      <3>2. CASE i = Len(parsed) + 1
        <4>1. longer.operations[i] = next
          BY <2>2, <2>4, <3>2
        <4>2. resolver = load[l].spec.components
          BY <1>1, <2>8 DEF IngestionInv, ResolverIsOfTheSpec
        <4> QED BY <2>2, <3>2, <4>1, <4>2 DEF next
      <3> QED BY <2>2, <2>4, <2>8, <3>1, <3>2
    <2>9. ParsedSoFar'
      BY <1>1, <2>5, <2>8 DEF IngestionInv, ParsedSoFar
    <2> QED BY <2>6, <2>7, <2>9 DEF IngestionInv
  <1> QED BY <1>3, <1>4, <1>5

\* A load that is done keeps what it parsed.
LEMMA FinishStep ==
    ASSUME IngestionInv, NEW l \in Loaders, FinishLoad(l)
    PROVE  IngestionInv'
  <1> DEFINE done == [load[l] EXCEPT !.at = "loaded"]
  <1>1. /\ load[l].at = "parsing" /\ UNCHANGED <<resolver, overtaken>>
        /\ load[l] = [ at |-> "parsing", spec |-> load[l].spec,
                       operations |-> load[l].operations ]
    BY DEF FinishLoad, IngestionInv, LoadShape
  <1>2. load' = [load EXCEPT ![l] = done]
    BY DEF FinishLoad, IngestionInv, LoadShape
  <1>3. /\ done.at = "loaded" /\ done.spec = load[l].spec
        /\ done.operations = load[l].operations
    BY <1>1
  <1> HIDE DEF done
  <1>4. /\ DOMAIN load' = Loaders /\ load'[l] = done
        /\ \A k \in Loaders \ {l} : load'[k] = load[k]
    BY <1>2, OthersKept DEF IngestionInv
  <1>5. LoadShape'
    BY <1>3, <1>4 DEF IngestionInv, LoadShape
  <1>6. ResolverIsOfTheSpec'
    BY <1>1, <1>3, <1>4 DEF IngestionInv, ResolverIsOfTheSpec
  <1>7. ParsedSoFar'
    BY <1>1, <1>3, <1>4 DEF IngestionInv, ParsedSoFar
  <1> QED BY <1>5, <1>6, <1>7 DEF IngestionInv

-----------------------------------------------------------------------------

\* Loads share a resolver that no lock protects; those that nobody overtook have parsed
\* the operations of their own document, for any number of loads and documents.
THEOREM OperationsAreOfTheirSpec == Spec => []OperationsAreOfTheSpec
  <1>1. Init => IngestionInv
    BY DEF Init, NotLoading, IngestionInv, LoadShape, ResolverIsOfTheSpec, ParsedSoFar
  <1>2. IngestionInv /\ [\E l \in Loaders : LoadForTarget(l)]_specVars => IngestionInv'
    <2> SUFFICES ASSUME IngestionInv, [\E l \in Loaders : LoadForTarget(l)]_specVars
                 PROVE  IngestionInv'
      OBVIOUS
    <2>1. CASE UNCHANGED specVars
      BY <2>1 DEF specVars, IngestionInv, LoadShape, ResolverIsOfTheSpec, ParsedSoFar
    <2>2. ASSUME NEW l \in Loaders, LoadForTarget(l) PROVE IngestionInv'
      BY <2>2, FetchStep, ResolverStep, ParseStep, FinishStep DEF LoadForTarget
    <2> QED BY <2>1, <2>2
  <1>3. IngestionInv => OperationsAreOfTheSpec
    BY DEF IngestionInv, ParsedSoFar, OperationsAreOfTheSpec
  <1> QED BY <1>1, <1>2, <1>3, PTL DEF Spec
=============================================================================
