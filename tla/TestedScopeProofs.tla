----------------------------- MODULE TestedScopeProofs -----------------------------
(***************************************************************************)
(* Theorems about TestedScope.  However a reply is understood, the         *)
(* orchestrator, which completes the decision once more, tests exactly the *)
(* operations that the agent has understood; and what a plan, a decision   *)
(* or a feedback asks for is what is tested, for every catalog, reply and  *)
(* answer of a model.                                                      *)
(***************************************************************************)
EXTENDS TestedScope, FiniteSetTheorems, TLAPS

-----------------------------------------------------------------------------
(* Decisions that the orchestrator leaves as they are *)

\* What a decision must be for the orchestrator to leave it as it is: it selects something
\* of the catalog and nothing it excludes, and all but that when it is for everything.
Settled(d, ops) ==
    /\ d \in DecisionType
    /\ d.selectedOperations # {}
    /\ d.selectedOperations \subseteq ops
    /\ d.selectedOperations \cap ExcludedOperations(d, ops) = {}
    /\ d.mode = "all" => d.selectedOperations = ops \ ExcludedOperations(d, ops)

\* _finalize_scope_selection adds nothing to a settled decision and takes nothing away.
LEMMA SettledIsTested ==
    ASSUME NEW ops, NEW d, Settled(d, ops)
    PROVE  ScopedOperations(d, ops) = d.selectedOperations
<1>1. d.selectedOperations \cap ops = d.selectedOperations
    BY DEF Settled
<1>2. CASE d.mode = "all"
    <2>1. PickedOperations(d, ops) = ops
        BY <1>2 DEF PickedOperations
    <2>2. ops # {}
        BY DEF Settled
    <2> QED BY <1>2, <2>1, <2>2 DEF Settled, ScopedOperations
<1>3. CASE d.mode # "all"
    <2>1. PickedOperations(d, ops) = d.selectedOperations
        BY <1>1, <1>3 DEF PickedOperations, Settled
    <2> QED BY <2>1 DEF Settled, ScopedOperations
<1> QED BY <1>2, <1>3

\* The members of a selection that leaves out what it selects nothing of.
LEMMA SelectsIsSettled ==
    ASSUME NEW ops \in SUBSET Operations, NEW mode \in Modes,
           NEW groups \in SUBSET Ids, NEW operations \in SUBSET ops,
           NEW excludedGroups \in SUBSET Ids, NEW excludedOperations \in SUBSET ops,
           operations \cap excludedOperations = {},
           excludedOperations = {} =>
               operations \cap ExpandGroups(excludedGroups \cap GroupsOf(ops), ops) = {},
           mode = "all" =>
               /\ operations = ops \ excludedOperations
               /\ excludedOperations = {} =>
                     ExpandGroups(excludedGroups \cap GroupsOf(ops), ops) = {}
    PROVE  \A d \in Selects(mode, groups, operations, excludedGroups, excludedOperations) :
               Settled(d, ops)
<1> SUFFICES ASSUME NEW d \in Selects(mode, groups, operations, excludedGroups, excludedOperations)
             PROVE  Settled(d, ops)
    OBVIOUS
<1>1. /\ operations # {}
      /\ d = [ mode |-> mode, selectedGroups |-> groups, selectedOperations |-> operations,
               excludedGroups |-> excludedGroups, excludedOperations |-> excludedOperations ]
    BY DEF Selects
<1>2. d \in DecisionType
    BY <1>1 DEF DecisionType
<1>3. d.excludedOperations \cap ops = excludedOperations
    BY <1>1
<1>4. ExcludedOperations(d, ops) =
          IF excludedOperations = {}
          THEN ExpandGroups(excludedGroups \cap GroupsOf(ops), ops)
          ELSE excludedOperations
    BY <1>1, <1>3 DEF ExcludedOperations
<1>5. operations \cap ExcludedOperations(d, ops) = {}
    BY <1>4
<1>6. mode = "all" => operations = ops \ ExcludedOperations(d, ops)
    BY <1>4
<1> QED BY <1>1, <1>2, <1>5, <1>6 DEF Settled

\* The groups of operations of the catalog are ids that a reply can name.
LEMMA GroupsAreIds ==
    ASSUME NEW operations \in SUBSET Operations
    PROVE  GroupsOf(operations) \subseteq Ids
BY GroupOfAssumption DEF GroupsOf

\* Groups stand for operations of the catalog, and unknown groups for none.
LEMMA ExpandsInCatalog ==
    ASSUME NEW ops, NEW groups
    PROVE  /\ ExpandGroups(groups, ops) \subseteq ops
           /\ ExpandGroups({}, ops) = {}
           /\ ExpandGroups(groups \cap GroupsOf(ops), ops) = ExpandGroups(groups, ops)
BY DEF ExpandGroups, GroupsOf

\* A selection without exclusions.
LEMMA PlainIsSettled ==
    ASSUME NEW ops \in SUBSET Operations, NEW mode \in Modes,
           NEW groups \in SUBSET Ids, NEW operations \in SUBSET ops,
           mode = "all" => operations = ops
    PROVE  \A d \in Selects(mode, groups, operations, {}, {}) : Settled(d, ops)
<1>1. ExpandGroups({} \cap GroupsOf(ops), ops) = {}
    BY ExpandsInCatalog
<1> QED BY <1>1, SelectsIsSettled

-----------------------------------------------------------------------------
(* The ways to understand a reply *)

\* An exclusion by words leaves out what it names.
LEMMA ExclusionIsSettled ==
    ASSUME NEW ops \in SUBSET Operations, NEW reply
    PROVE  \A d \in FallbackExclusion(reply, ops) : Settled(d, ops)
<1> DEFINE operations == ops \ NamedOut(reply, ops)
           excluded   == reply.operations \cap ops
           groups     == reply.groups \cap GroupsOf(ops)
<1>1. /\ GroupsOf(ops) \ reply.groups \in SUBSET Ids
      /\ groups \in SUBSET Ids
    BY GroupsAreIds
<1>2. operations \cap excluded = {}
    BY DEF NamedOut
<1>3. ExpandGroups(groups \cap GroupsOf(ops), ops) = ExpandGroups(reply.groups, ops)
    BY DEF ExpandGroups, GroupsOf
<1>4. operations \cap ExpandGroups(groups \cap GroupsOf(ops), ops) = {}
    BY <1>3 DEF NamedOut
<1>5. /\ operations \in SUBSET ops
      /\ excluded \in SUBSET ops
    OBVIOUS
<1>6. "custom" \in Modes /\ "custom" # "all"
    BY DEF Modes
<1> HIDE DEF operations, excluded, groups
<1>7. \A d \in Selects("custom", GroupsOf(ops) \ reply.groups, operations, groups, excluded) :
          Settled(d, ops)
    BY <1>1, <1>2, <1>4, <1>5, <1>6, SelectsIsSettled
<1> QED BY <1>7 DEF FallbackExclusion, operations, excluded, groups

\* A reply understood by its words: all, by exclusion, by place or by name.
LEMMA WordsAreSettled ==
    ASSUME NEW ops \in SUBSET Operations, NEW reply
    PROVE  \A d \in FallbackSelection(reply, ops) : Settled(d, ops)
<1> DEFINE places  == ExpandNumericSelection(reply.numbers)
           byPlace == FirstOfThese(IF reply.groupWord THEN OfGroups(GroupsAt(places, ops), ops)
                                   ELSE {},
                                   OfOperations(OperationsAt(places, ops)))
           byName  == FirstOfThese(OfGroups(reply.groups \cap GroupsOf(ops), ops),
                                   OfOperations(reply.operations \cap ops))
<1>0. /\ GroupsOf(ops) \in SUBSET Ids
      /\ {"all", "groups", "operations"} \subseteq Modes
      /\ "groups" # "all" /\ "operations" # "all"
    BY GroupsAreIds DEF Modes
<1>1. \A d \in Selects("all", GroupsOf(ops), ops, {}, {}) : Settled(d, ops)
    BY <1>0, PlainIsSettled
<1>2. ASSUME NEW groups \in SUBSET Ids
      PROVE  \A d \in OfGroups(groups, ops) : Settled(d, ops)
    <2>1. ExpandGroups(groups, ops) \in SUBSET ops
        BY ExpandsInCatalog
    <2>2. \A d \in Selects("groups", groups, ExpandGroups(groups, ops), {}, {}) :
              Settled(d, ops)
        BY <1>0, <2>1, PlainIsSettled
    <2> QED BY <2>2 DEF OfGroups
<1>3. ASSUME NEW operations \in SUBSET ops
      PROVE  \A d \in OfOperations(operations) : Settled(d, ops)
    <2>1. \A d \in Selects("operations", {}, operations, {}, {}) : Settled(d, ops)
        BY <1>0, PlainIsSettled
    <2> QED BY <2>1 DEF OfOperations
<1>4. \A d \in byPlace : Settled(d, ops)
    <2>1. GroupsAt(places, ops) \in SUBSET Ids
        <3>1. { o \in ops : Cardinality(GroupsOf(ShownUpTo(o, ops))) \in places }
                  \in SUBSET Operations
            OBVIOUS
        <3> QED BY <3>1, GroupsAreIds DEF GroupsAt
    <2>2. OperationsAt(places, ops) \in SUBSET ops
        BY DEF OperationsAt
    <2>3. \A d \in OfGroups(GroupsAt(places, ops), ops) : Settled(d, ops)
        BY <1>2, <2>1
    <2>4. \A d \in OfOperations(OperationsAt(places, ops)) : Settled(d, ops)
        BY <1>3, <2>2
    <2> HIDE DEF places
    <2> QED BY <2>3, <2>4 DEF FirstOfThese
<1>5. \A d \in byName : Settled(d, ops)
    <2>1. \A d \in OfGroups(reply.groups \cap GroupsOf(ops), ops) : Settled(d, ops)
        BY <1>0, <1>2
    <2>2. \A d \in OfOperations(reply.operations \cap ops) : Settled(d, ops)
        BY <1>3
    <2> QED BY <2>1, <2>2 DEF FirstOfThese
<1>6. \A d \in FallbackExclusion(reply, ops) : Settled(d, ops)
    BY ExclusionIsSettled
<1>7. FallbackSelection(reply, ops) =
          IF reply.everything THEN Selects("all", GroupsOf(ops), ops, {}, {})
          ELSE FirstOfThese(IF reply.excludes THEN FallbackExclusion(reply, ops) ELSE {},
                            FirstOfThese(byPlace, byName))
    BY DEF FallbackSelection
<1> HIDE DEF byPlace, byName, places
<1> QED BY <1>1, <1>4, <1>5, <1>6, <1>7 DEF FirstOfThese

\* A recommendation, of what to test first or of what to leave for later.
LEMMA RecommendationIsSettled ==
    ASSUME NEW ops \in SUBSET Operations, NEW r
    PROVE  \A d \in ApplyRecommendation(r, ops) : Settled(d, ops)
<1> DEFINE groups == r.groups \cap GroupsOf(ops)
<1>0. /\ groups \in SUBSET Ids
      /\ GroupsOf(ops) \ groups \in SUBSET Ids
      /\ Recommended(r, ops) \in SUBSET ops
    BY GroupsAreIds, ExpandsInCatalog DEF Recommended
<1>1. /\ {"groups", "custom"} \subseteq Modes
      /\ "groups" # "all" /\ "custom" # "all"
    BY DEF Modes
<1>2. Recommended(r, ops) = {} =>
          ExpandGroups(groups \cap GroupsOf(ops), ops) = {}
    <2>1. ExpandGroups(groups \cap GroupsOf(ops), ops) = ExpandGroups(r.groups, ops)
        BY DEF ExpandGroups, GroupsOf
    <2> QED BY <2>1 DEF Recommended
<1>3. ApplyRecommendation(r, ops) =
          IF r.mode = "deprioritize"
          THEN Selects("custom", GroupsOf(ops) \ groups,
                       ops \ Recommended(r, ops), groups, Recommended(r, ops))
          ELSE Selects("groups", groups, Recommended(r, ops), {}, {})
    BY DEF ApplyRecommendation
<1> HIDE DEF groups
<1>4. \A d \in Selects("groups", groups, Recommended(r, ops), {}, {}) : Settled(d, ops)
    BY <1>0, <1>1, PlainIsSettled
<1>5. \A d \in Selects("custom", GroupsOf(ops) \ groups,
                       ops \ Recommended(r, ops), groups, Recommended(r, ops)) :
          Settled(d, ops)
    <2>1. /\ ops \ Recommended(r, ops) \in SUBSET ops
          /\ (ops \ Recommended(r, ops)) \cap Recommended(r, ops) = {}
        OBVIOUS
    <2>2. Recommended(r, ops) = {} =>
              (ops \ Recommended(r, ops))
                  \cap ExpandGroups(groups \cap GroupsOf(ops), ops) = {}
        BY <1>2
    <2> QED BY <1>0, <1>1, <2>1, <2>2, SelectsIsSettled
<1> QED BY <1>3, <1>4, <1>5

\* An answer of the language model, whatever it selects and excludes.
LEMMA AnswerIsSettled ==
    ASSUME NEW ops \in SUBSET Operations, NEW d \in DecisionType
    PROVE  \A e \in AiSelection(d, ops) : Settled(e, ops)
<1> DEFINE groups == IF d.mode = "all" THEN GroupsOf(ops)
                     ELSE d.selectedGroups \cap GroupsOf(ops)
           picked == IF d.mode = "groups" /\ groups # {} THEN ExpandGroups(groups, ops)
                     ELSE PickedOperations(d, ops)
           excludedGroups == d.excludedGroups \cap GroupsOf(ops)
           out    == ExcludedOperations(d, ops)
<1>1. /\ d.mode \in Modes
      /\ groups \ excludedGroups \in SUBSET Ids
      /\ excludedGroups \in SUBSET Ids
    BY GroupsAreIds DEF DecisionType
<1>2. picked \in SUBSET ops
    BY ExpandsInCatalog DEF PickedOperations
<1>3. out \in SUBSET ops
    BY ExpandsInCatalog DEF ExcludedOperations
<1>4. d.mode = "all" => picked = ops
    BY DEF PickedOperations
<1>5. out = {} => ExpandGroups(excludedGroups \cap GroupsOf(ops), ops) = {}
    <2>1. excludedGroups \cap GroupsOf(ops) = excludedGroups
        OBVIOUS
    <2> QED BY <2>1 DEF ExcludedOperations
<1>6. AiSelection(d, ops) =
          Selects(d.mode, groups \ excludedGroups, picked \ out, excludedGroups, out)
    BY DEF AiSelection
<1> HIDE DEF groups, picked, excludedGroups, out
<1>7. /\ picked \ out \in SUBSET ops
      /\ (picked \ out) \cap out = {}
      /\ out = {} => (picked \ out)
             \cap ExpandGroups(excludedGroups \cap GroupsOf(ops), ops) = {}
      /\ d.mode = "all" => picked \ out = ops \ out
    BY <1>2, <1>4, <1>5
<1>8. \A e \in Selects(d.mode, groups \ excludedGroups, picked \ out, excludedGroups, out) :
          Settled(e, ops)
    BY <1>1, <1>3, <1>5, <1>7, SelectsIsSettled
<1> QED BY <1>6, <1>8

-----------------------------------------------------------------------------

\* interpret_scope_selection and _finalize_scope_selection: whatever the reply says, with
\* any recommendation pending, with a language model that may answer anything or with
\* none, a decision is of the type that the review session takes, and the review is
\* started on exactly the operations the agent has understood, never on nothing.
THEOREM DecisionsAreSettled ==
    ASSUME NEW ops \in SUBSET Operations, NEW reply,
           NEW recommendation, NEW failed \in BOOLEAN, NEW answer \in SUBSET DecisionType
    PROVE  \A d \in InterpretScopeSelection(reply, recommendation, failed, answer, ops) :
               /\ d \in DecisionType
               /\ ScopedOperations(d, ops) = d.selectedOperations
               /\ d.selectedOperations # {}
               /\ d.selectedOperations \subseteq ops
<1>1. \A d \in FallbackSelection(reply, ops) : Settled(d, ops)
    BY WordsAreSettled
<1>2. \A d \in UNION { ApplyRecommendation(r, ops) : r \in recommendation } :
          Settled(d, ops)
    BY RecommendationIsSettled
<1>3. \A d \in UNION { FirstOfThese(AiSelection(a, ops), FallbackSelection(reply, ops))
                           : a \in answer } : Settled(d, ops)
    <2> SUFFICES ASSUME NEW a \in answer,
                        NEW d \in FirstOfThese(AiSelection(a, ops),
                                               FallbackSelection(reply, ops))
                 PROVE  Settled(d, ops)
        OBVIOUS
    <2>1. \A e \in AiSelection(a, ops) : Settled(e, ops)
        BY AnswerIsSettled
    <2> QED BY <1>1, <2>1 DEF FirstOfThese
<1>4. \A d \in InterpretScopeSelection(reply, recommendation, failed, answer, ops) :
          Settled(d, ops)
    BY <1>1, <1>2, <1>3 DEF InterpretScopeSelection
<1> QED BY <1>4, SettledIsTested DEF Settled
-----------------------------------------------------------------------------
(* A planned scope *)

\* The slice [:k] of the operations a plan keeps: all of them, or exactly k.
LEMMA FirstOfCuts ==
    ASSUME NEW S \in SUBSET Nat, IsFiniteSet(S), NEW k \in Nat
    PROVE  FirstOf(S, k) = S \/ Cardinality(FirstOf(S, k)) = k
<1> DEFINE Below(o) == { p \in S : p < o }
           n        == Cardinality(S)
           rank     == [ o \in S |-> Cardinality(Below(o)) ]
           first    == FirstOf(S, k)
           cut      == [ o \in first |-> rank[o] ]
<1>1. n \in Nat
    BY FS_CardinalityType
<1>2. ASSUME NEW o \in S
      PROVE  IsFiniteSet(Below(o)) /\ Cardinality(Below(o)) \in Nat
    BY FS_Subset, FS_CardinalityType
<1>3. ASSUME NEW o \in S
      PROVE  Cardinality(Below(o)) < n
    <2>1. Below(o) \in SUBSET S /\ Below(o) # S
        OBVIOUS
    <2>2. Cardinality(Below(o)) <= n /\ Cardinality(Below(o)) # n
        BY <2>1, FS_Subset
    <2> QED BY <1>1, <1>2, <2>2
<1>4. ASSUME NEW o \in S, NEW q \in S, o < q
      PROVE  Cardinality(Below(o)) < Cardinality(Below(q))
    <2>0. \A p \in S : p < o => p < q
        BY <1>4
    <2>1. Below(o) \in SUBSET Below(q)
        BY <2>0
    <2>2. o \in Below(q) /\ o \notin Below(o)
        BY <1>4
    <2>3. Cardinality(Below(o)) <= Cardinality(Below(q))
              /\ Cardinality(Below(o)) # Cardinality(Below(q))
        BY <1>2, <2>1, <2>2, FS_Subset
    <2> QED BY <1>2, <2>3
<1>5. rank \in Injection(S, 0..(n - 1))
    <2>1. rank \in [S -> 0..(n - 1)]
        BY <1>1, <1>2, <1>3
    <2>2. \A o, q \in S : rank[o] = rank[q] => o = q
        <3> SUFFICES ASSUME NEW o \in S, NEW q \in S, o # q
                     PROVE  Cardinality(Below(o)) # Cardinality(Below(q))
            OBVIOUS
        <3>1. o < q \/ q < o
            OBVIOUS
        <3> HIDE DEF Below
        <3> QED BY <1>2, <1>4, <3>1
    <2> HIDE DEF rank
    <2> QED BY <2>1, <2>2 DEF Injection, IsInjective
<1>6. rank \in Surjection(S, 0..(n - 1))
    <2>0. Cardinality(S) = n
        OBVIOUS
    <2> HIDE DEF n
    <2>1. IsFiniteSet(0..(n - 1)) /\ Cardinality(0..(n - 1)) = n
        <3>1. 0 \in Int /\ n - 1 \in Int /\ (0 > n - 1 => n = 0)
            BY <1>1
        <3>2. IsFiniteSet(0..(n - 1))
                  /\ Cardinality(0..(n - 1)) = IF 0 > n - 1 THEN 0 ELSE (n - 1) - 0 + 1
            BY <3>1, FS_Interval
        <3> QED BY <1>1, <3>1, <3>2
    <2> HIDE DEF rank
    <2> QED BY <1>5, <2>0, <2>1, FS_Injection
<1>7. first = { o \in S : rank[o] < k }
    BY DEF FirstOf
<1>8. CASE n <= k
    <2>1. \A o \in S : rank[o] \in Nat /\ rank[o] < n
        BY <1>2, <1>3
    <2> HIDE DEF rank, n
    <2>2. \A o \in S : rank[o] < k
        BY <1>1, <1>8, <2>1
    <2>3. first = S
        BY <1>7, <2>2
    <2> QED BY <2>3
<1>9. CASE k < n
    <2>1. cut \in Injection(first, 0..(k - 1))
        <3>1. rank \in [S -> 0..(n - 1)] /\ \A o, q \in S : rank[o] = rank[q] => o = q
            BY <1>5 DEF Injection, IsInjective
        <3> HIDE DEF rank, first
        <3>2. \A o \in first : rank[o] \in 0..(k - 1)
            BY <1>1, <1>7, <3>1
        <3>3. cut \in [first -> 0..(k - 1)]
            BY <3>2
        <3> QED BY <1>7, <3>1, <3>3 DEF Injection, IsInjective
    <2>2. cut \in Surjection(first, 0..(k - 1))
        <3>1. cut \in [first -> 0..(k - 1)]
            BY <2>1 DEF Injection
        <3>2. ASSUME NEW i \in 0..(k - 1)
              PROVE  \E o \in first : cut[o] = i
            <4>1. i \in 0..(n - 1) /\ i < k
                BY <1>1, <1>9
            <4>2. PICK o \in S : rank[o] = i
                BY <1>6, <4>1 DEF Surjection
            <4> HIDE DEF rank, first
            <4> QED BY <1>7, <4>1, <4>2
        <3> HIDE DEF cut, first
        <3> QED BY <3>1, <3>2 DEF Surjection
    <2>3. IsFiniteSet(0..(k - 1)) /\ Cardinality(0..(k - 1)) = k
        <3>1. 0 \in Int /\ k - 1 \in Int /\ (0 > k - 1 => k = 0)
            OBVIOUS
        <3>2. IsFiniteSet(0..(k - 1))
                  /\ Cardinality(0..(k - 1)) = IF 0 > k - 1 THEN 0 ELSE (k - 1) - 0 + 1
            BY <3>1, FS_Interval
        <3> QED BY <3>1, <3>2
    <2> HIDE DEF cut
    <2>4. Cardinality(first) = Cardinality(0..(k - 1))
        <3> HIDE DEF first
        <3> QED BY <2>1, <2>2, <2>3, FS_Injection
    <2> QED BY <2>3, <2>4
<1> QED BY <1>1, <1>8, <1>9

\* PlannedOperations: what passes a plan is planned, unless the limit is used up, and
\* nothing else is.
LEMMA PassingIsPlanned ==
    ASSUME NEW ops \in SUBSET Operations, NEW plan, plan.limit \in Nat
    PROVE  LET passing == { o \in ops : Passes(o, plan) }
               cut     == PlannedOperations(plan, ops)
           IN  cut \subseteq passing /\ (cut = passing \/ Cardinality(cut) = plan.limit)
<1> DEFINE passing == { o \in ops : Passes(o, plan) }
           cut     == PlannedOperations(plan, ops)
<1>1. cut = FirstOf(passing, plan.limit)
    BY DEF PlannedOperations
<1>2. passing \in SUBSET Nat /\ IsFiniteSet(passing)
    <2>1. passing \in SUBSET Operations
        OBVIOUS
    <2> HIDE DEF passing
    <2> QED BY <2>1, OperationsAssumption, FiniteAssumption, FS_Subset
<1> HIDE DEF passing
<1>3. cut \subseteq passing
    BY <1>1 DEF FirstOf
<1> QED BY <1>1, <1>2, <1>3, FirstOfCuts DEF passing

\* A limit in range is a number, whatever the text says.
LEMMA LimitIsInRange ==
    ASSUME NEW limit \in Nat
    PROVE  ClampLimit(limit) \in Nat
BY MaxLimitAssumption DEF ClampLimit

\* The plan of a canonical command keeps exactly what the command asks for.
LEMMA CommandIsKept ==
    ASSUME NEW o \in Operations, NEW named, NEW tags, NEW paths, NEW limit
    PROVE  Passes(o, CommandPlan(named, tags, paths, limit)) <=>
               /\ tags = {} \/ TagsOf[o] \cap tags # {}
               /\ paths = {} \/ PathOf[o] \in paths
               /\ named # {} => MethodOf[o] \in named
<1>1. MethodOf[o] \in Methods
    BY DEF Methods
<1> QED BY <1>1 DEF Passes, CommandPlan, Plan

\* The plan of a request keeps what the agent matched, and names the request's methods.
LEMMA MatchIsKept ==
    ASSUME NEW o \in Operations, NEW matched, NEW named, NEW limit, matched # {}
    PROVE  LET kept == Passes(o, SpecificPlan(matched, named, limit))
           IN  /\ o \in matched /\ (named # {} => MethodOf[o] \in named) => kept
               /\ kept /\ named # {} => MethodOf[o] \in named
BY DEF Passes, SpecificPlan, Plan

\* So does a plan for everything.
LEMMA WholeIsKept ==
    ASSUME NEW o, NEW named, NEW limit
    PROVE  Passes(o, WholePlan(named, limit)) <=> (named # {} => MethodOf[o] \in named)
BY DEF Passes, WholePlan, Plan

\* Filtering and cutting add nothing to a catalog.
LEMMA PlannedInCatalog ==
    ASSUME NEW ops, NEW plan
    PROVE  PlannedOperations(plan, ops) \subseteq ops
BY DEF PlannedOperations, FirstOf

-----------------------------------------------------------------------------
(* What a decision asks for *)

\* _finalize_scope_selection keeps out what a decision excludes, and keeps to what it picks.
LEMMA ScopedAsDecided ==
    ASSUME NEW ops \in SUBSET Operations, NEW d \in DecisionType
    PROVE  LET tested == ScopedOperations(d, ops)
           IN  /\ tested \subseteq ops
               /\ tested \cap d.excludedOperations = {}
               /\ d.excludedOperations \cap ops = {}
                      => GroupsOf(tested) \cap d.excludedGroups = {}
               /\ PickedOperations(d, ops) # {} => tested \subseteq PickedOperations(d, ops)
<1> DEFINE tested == ScopedOperations(d, ops)
<1>1. /\ tested \subseteq ops
      /\ tested \cap ExcludedOperations(d, ops) = {}
      /\ PickedOperations(d, ops) # {} => tested \subseteq PickedOperations(d, ops)
    <2>1. PickedOperations(d, ops) \subseteq ops
        BY DEF PickedOperations, ExpandGroups
    <2> QED BY <2>1 DEF ScopedOperations
<1> HIDE DEF tested
<1>2. tested \cap d.excludedOperations = {}
    BY <1>1 DEF ExcludedOperations
<1>3. d.excludedOperations \cap ops = {} => GroupsOf(tested) \cap d.excludedGroups = {}
    <2>1. d.excludedOperations \cap ops = {} =>
              tested \cap ExpandGroups(d.excludedGroups, ops) = {}
        BY <1>1, ExpandsInCatalog DEF ExcludedOperations
    <2> QED BY <1>1, <2>1 DEF GroupsOf, ExpandGroups
<1> QED BY <1>1, <1>2, <1>3 DEF tested

\* A selection selects what it is made of.
LEMMA SelectsThese ==
    ASSUME NEW mode, NEW groups, NEW operations, NEW excludedGroups, NEW excludedOperations
    PROVE  /\ \A d \in Selects(mode, groups, operations, excludedGroups, excludedOperations) :
                  d.selectedOperations = operations
           /\ operations # {} =>
                  Selects(mode, groups, operations, excludedGroups, excludedOperations) # {}
           /\ operations = {} =>
                  Selects(mode, groups, operations, excludedGroups, excludedOperations) = {}
<1>1. CASE operations = {}
    BY <1>1 DEF Selects
<1>2. CASE operations # {}
    <2> DEFINE d == [ mode |-> mode, selectedGroups |-> groups,
                      selectedOperations |-> operations, excludedGroups |-> excludedGroups,
                      excludedOperations |-> excludedOperations ]
    <2>1. Selects(mode, groups, operations, excludedGroups, excludedOperations) = {d}
        BY <1>2 DEF Selects
    <2>2. d.selectedOperations = operations
        OBVIOUS
    <2> HIDE DEF d
    <2> QED BY <1>2, <2>1, <2>2
<1> QED BY <1>1, <1>2

\* An exclusion by words comes before places and names.
LEMMA ExclusionIsTaken ==
    ASSUME NEW ops, NEW reply, reply.excludes, ~reply.everything,
           ops \ NamedOut(reply, ops) # {}
    PROVE  \A d \in FallbackSelection(reply, ops) :
               d.selectedOperations = ops \ NamedOut(reply, ops)
<1>1. FallbackExclusion(reply, ops) # {}
    BY SelectsThese DEF FallbackExclusion
<1>2. FallbackSelection(reply, ops) = FallbackExclusion(reply, ops)
    BY <1>1 DEF FallbackSelection, FirstOfThese
<1> QED BY <1>2, SelectsThese DEF FallbackExclusion

\* An answer of the model keeps out the operations it excludes itself.
LEMMA AnswerKeepsOut ==
    ASSUME NEW ops, NEW d \in DecisionType
    PROVE  \A e \in AiSelection(d, ops) : e.selectedOperations \cap d.excludedOperations = {}
<1> DEFINE out    == ExcludedOperations(d, ops)
           groups == IF d.mode = "all" THEN GroupsOf(ops)
                     ELSE d.selectedGroups \cap GroupsOf(ops)
           picked == IF d.mode = "groups" /\ groups # {} THEN ExpandGroups(groups, ops)
                     ELSE PickedOperations(d, ops)
           excludedGroups == d.excludedGroups \cap GroupsOf(ops)
<1>1. AiSelection(d, ops) =
          Selects(d.mode, groups \ excludedGroups, picked \ out, excludedGroups, out)
    BY DEF AiSelection
<1>2. picked \subseteq ops
    BY DEF PickedOperations, ExpandGroups
<1>3. d.excludedOperations \cap ops \subseteq out
    BY DEF ExcludedOperations
<1> HIDE DEF out, groups, picked, excludedGroups
<1>4. \A e \in AiSelection(d, ops) : e.selectedOperations = picked \ out
    BY <1>1, SelectsThese
<1> QED BY <1>2, <1>3, <1>4

-----------------------------------------------------------------------------
(* What a recommendation asks for *)

\* A recommendation of some groups of a catalog.
IsRecommendation(r, ops) ==
    /\ r.mode \in RecommendationModes
    /\ r.groups \subseteq GroupsOf(ops)
    /\ r.operations = ExpandGroups(r.groups, ops)

\* Recommend: by its scores or by any answer of its model, the agent recommends groups of
\* the catalog.
LEMMA RecommendsGroups ==
    ASSUME NEW ops, NEW mode \in RecommendationModes, NEW advice \in SUBSET AdviceType
    PROVE  \A r \in RecommendScope(mode, advice, ops) : IsRecommendation(r, ops)
<1>1. ASSUME NEW m \in RecommendationModes, NEW groups \in SUBSET GroupsOf(ops)
      PROVE  IsRecommendation(Recommendation(m, groups, ops), ops)
    BY DEF IsRecommendation, Recommendation
<1>2. \A r \in HeuristicRecommendations(mode, ops) : IsRecommendation(r, ops)
    BY <1>1 DEF HeuristicRecommendations
<1>3. \A a \in advice : a.mode \in RecommendationModes
    BY DEF AdviceType
<1> QED BY <1>1, <1>2, <1>3 DEF RecommendScope

\* Accepted, a recommendation is followed to the letter.
LEMMA AcceptedIsFollowed ==
    ASSUME NEW r, IsRecommendation(r, catalog)
    PROVE  \A d \in ApplyRecommendation(r, catalog) :
               d.selectedOperations = FollowedBy(r, r.groups)
<1>1. Recommended(r, catalog) = ExpandGroups(r.groups, catalog)
    BY DEF Recommended, IsRecommendation, ExpandGroups
<1>2. CASE r.mode = "deprioritize"
    BY <1>1, <1>2, SelectsThese DEF ApplyRecommendation, FollowedBy
<1>3. CASE r.mode # "deprioritize"
    BY <1>1, <1>3, SelectsThese DEF ApplyRecommendation, FollowedBy
<1> QED BY <1>2, <1>3

\* No number in a reply is no place in the catalog.
LEMMA NoPlaces == ExpandNumericSelection(<<>>) = {}
BY DEF ExpandNumericSelection

\* The reply that is written for the user selects the groups it applies, when the names
\* in it say no more and it is not taken for an acceptance.
LEMMA AppliedIsFollowed ==
    ASSUME NEW r, IsRecommendation(r, catalog), NEW groups \in AppliedGroups(r),
           CanApply(r, groups, catalog),
           NEW texts, NEW reply \in ComposedReplies(texts, r, groups),
           SaysNoMore(reply, r, groups), ~reply.accepts
    PROVE  \A d \in FallbackSelection(reply, catalog) :
               d.selectedOperations = FollowedBy(r, groups)
<1>1. /\ ~reply.everything /\ reply.groupWord
      /\ r.mode = "deprioritize" => reply.excludes
      /\ r.mode = "prioritize" => ~reply.excludes /\ reply.numbers = <<>>
    BY DEF ComposedReplies, SaysNoMore
<1>2. NamedOut(reply, catalog) = ExpandGroups(groups, catalog)
    BY DEF SaysNoMore
<1>3. CASE r.mode = "deprioritize"
    <2>1. catalog \ NamedOut(reply, catalog) # {}
        BY <1>2, <1>3 DEF CanApply
    <2>2. \A d \in FallbackSelection(reply, catalog) :
              d.selectedOperations = catalog \ NamedOut(reply, catalog)
        BY <1>1, <1>3, <2>1, ExclusionIsTaken
    <2> QED BY <1>2, <1>3, <2>2 DEF FollowedBy
<1>4. CASE r.mode = "prioritize"
    <2> DEFINE found == reply.groups \cap GroupsOf(catalog)
    <2>1. ExpandGroups(found, catalog) = ExpandGroups(groups, catalog)
        <3>1. groups \subseteq reply.groups
            BY DEF ComposedReplies
        <3>2. ExpandGroups(reply.groups, catalog) \subseteq ExpandGroups(groups, catalog)
            BY <1>2 DEF NamedOut
        <3>3. ExpandGroups(groups, catalog) \subseteq ExpandGroups(reply.groups, catalog)
            BY <3>1 DEF ExpandGroups
        <3> QED BY <3>2, <3>3, ExpandsInCatalog
    <2>3. ExpandGroups(groups, catalog) # {}
        BY <1>4 DEF CanApply
    <2>4. OfGroups(GroupsAt({}, catalog), catalog) = {}
        <3>1. GroupsAt({}, catalog) = {}
            BY DEF GroupsAt, GroupsOf
        <3> QED BY <3>1, ExpandsInCatalog, SelectsThese DEF OfGroups
    <2>5. OfOperations(OperationsAt({}, catalog)) = {}
        <3>1. OperationsAt({}, catalog) = {}
            BY DEF OperationsAt
        <3> QED BY <3>1, SelectsThese DEF OfOperations
    <2>6. ExpandNumericSelection(reply.numbers) = {}
        BY <1>1, <1>4, NoPlaces
    <2>7. OfGroups(found, catalog) # {}
        <3>1. ExpandGroups(found, catalog) # {}
            BY <2>1, <2>3
        <3> HIDE DEF found
        <3>2. Selects("groups", found, ExpandGroups(found, catalog), {}, {}) # {}
            BY <3>1, SelectsThese
        <3> QED BY <3>2 DEF OfGroups
    <2>8. ~reply.excludes
        BY <1>1, <1>4
    <2>9. FallbackSelection(reply, catalog) = OfGroups(found, catalog)
        BY <1>1, <2>4, <2>5, <2>6, <2>7, <2>8 DEF FallbackSelection, FirstOfThese
    <2>10. \A d \in OfGroups(found, catalog) :
               d.selectedOperations = ExpandGroups(groups, catalog)
        BY <2>1, SelectsThese DEF OfGroups
    <2> QED BY <1>4, <2>9, <2>10 DEF FollowedBy
<1> QED BY <1>3, <1>4 DEF IsRecommendation, RecommendationModes

-----------------------------------------------------------------------------
(* What a feedback asks for *)

\* Refine: whatever the model makes of a feedback, something of the catalog is left to
\* test, only what is named changes, and in a patch what is added is tested.
LEMMA RefinedAsTold ==
    ASSUME NEW ops, NEW current \in SUBSET ops, current # {}, NEW d \in RefinementType
    PROVE  LET refined == Refine(current, ops, d)
           IN  /\ refined # {} /\ refined \subseteq ops
               /\ refined \ current \subseteq
                      IF d.mode = "reset_all" THEN ops ELSE d.matched \cup d.final \cup d.add
               /\ current \ refined # {} /\ refined \cap d.final = {}
                      /\ d.mode # "replace_with_specific"
                      => current \ refined \subseteq d.matched \cup d.remove
               /\ d.mode \in PatchModes /\ d.final \cap ops = {} /\ refined # current
                      => d.add \cap ops \subseteq refined
<1> DEFINE told == Proposed(current, ops, d)
<1>0. d.mode \in RefineModes
    BY DEF RefinementType
<1>1. /\ told \subseteq ops
      /\ told \ current \subseteq
             IF d.mode = "reset_all" THEN ops ELSE d.matched \cup d.final \cup d.add
      /\ told \cap d.final = {} /\ d.mode # "replace_with_specific"
             => current \ told \subseteq d.matched \cup d.remove
      /\ d.mode \in PatchModes /\ d.final \cap ops = {} => d.add \cap ops \subseteq told
    <2>1. CASE d.mode = "reset_all"
        BY <2>1 DEF Proposed, PatchModes
    <2>2. CASE d.mode \in PatchModes
        <3>1. told = Patched(current, ops, d) /\ d.mode # "reset_all"
            <4>1. /\ d.mode \notin {"reset_all", "replace_with_specific",
                                    "add_specific", "remove_specific"}
                  /\ d.mode \notin KeepModes
                BY <2>2 DEF PatchModes, KeepModes
            <4> QED BY <2>2, <4>1 DEF Proposed
        <3> HIDE DEF told
        <3> QED BY <3>1 DEF Patched
    <2>3. CASE d.mode = "replace_with_specific"
        BY <2>3 DEF Proposed, PatchModes
    <2>4. CASE d.mode = "add_specific"
        BY <2>4 DEF Proposed, PatchModes
    <2>5. CASE d.mode = "remove_specific"
        BY <2>5 DEF Proposed, PatchModes
    <2>6. CASE d.mode \in KeepModes
        BY <2>6 DEF Proposed, PatchModes, KeepModes
    <2> QED BY <1>0, <2>1, <2>2, <2>3, <2>4, <2>5, <2>6 DEF RefineModes
<1>2. Refine(current, ops, d) = IF told = {} THEN current ELSE told
    BY DEF Refine
<1> HIDE DEF told
<1> QED BY <1>1, <1>2

-----------------------------------------------------------------------------
(* The invariant *)

\* Every step finds a scope within the catalog, a recommendation of its groups when one was
\* just made, and something to test when a draft is under review.
ScopeInv ==
    /\ catalog \in SUBSET Operations
    /\ scope \subseteq catalog
    /\ step = "recommended" => IsRecommendation(input, catalog)
    /\ step = "drafted" => scope # {}
    /\ MatchedArePlanned /\ DecisionIsHonoured /\ FeedbackIsHonoured

\* Each property is about what one kind of step leaves.
LEMMA NothingAsked ==
    /\ step' # "planned" => MatchedArePlanned'
    /\ step' \notin {"confirmed", "understood"} => DecisionIsHonoured'
    /\ step' # "refined" => FeedbackIsHonoured'
BY DEF MatchedArePlanned, DecisionIsHonoured, ExclusionsHold, OnlyPickedIsTested,
       UnderstoodIsTested, RecommendationIsFollowed, NamedOutIsOut, FeedbackIsHonoured,
       ScopeStaysTestable, OnlyWhatWasNamedChanges, AddedIsTested

\* Planning changes nothing else, and adds nothing to the catalog.
LEMMA PlannedKeeps ==
    ASSUME ScopeInv, NEW command, NEW asked, NEW named, NEW plan, plan.limit \in Nat,
           Planned(command, asked, named, plan),
           LET wanted == { o \in asked : named # {} => MethodOf[o] \in named }
               passing == { o \in catalog : Passes(o, plan) }
           IN  /\ wanted \subseteq passing
               /\ command => passing \subseteq wanted
               /\ \A o \in passing : named # {} => MethodOf[o] \in named
    PROVE  ScopeInv'
<1> DEFINE wanted  == { o \in asked : named # {} => MethodOf[o] \in named }
           passing == { o \in catalog : Passes(o, plan) }
<1>1. /\ catalog' = catalog /\ step' = "planned"
      /\ input' = [ command |-> command, asked |-> asked, named |-> named, plan |-> plan ]
      /\ scope' = PlannedOperations(plan, catalog)
    BY DEF Planned
<1>2. /\ input'.command = command /\ input'.asked = asked
      /\ input'.named = named /\ input'.plan = plan
    BY <1>1
<1>3. catalog \in SUBSET Operations
    BY DEF ScopeInv
<1>4. scope' \subseteq passing /\ (scope' = passing \/ Cardinality(scope') = plan.limit)
    BY <1>1, <1>3, PassingIsPlanned
<1>5. /\ wanted \subseteq passing
      /\ command => passing \subseteq wanted
      /\ \A o \in passing : named # {} => MethodOf[o] \in named
    OBVIOUS
<1>6. Wanted' = wanted
    BY <1>2 DEF Wanted
<1>7. scope' \subseteq catalog'
    BY <1>1, <1>4
<1> HIDE DEF wanted, passing
<1>8. MatchedArePlanned'
    BY <1>2, <1>4, <1>5, <1>6 DEF MatchedArePlanned
<1>9. DecisionIsHonoured' /\ FeedbackIsHonoured'
    BY <1>1, NothingAsked
<1> QED BY <1>1, <1>3, <1>7, <1>8, <1>9 DEF ScopeInv

\* A command is planned on what it asks for.
LEMMA PlanCommandKeeps == ScopeInv /\ PlanCommand => ScopeInv'
<1> SUFFICES ASSUME ScopeInv, PlanCommand
             PROVE  ScopeInv'
    OBVIOUS
<1>1. PICK c \in Commands :
          Planned(TRUE, CommandAsks(c), c.named,
                  CommandPlan(c.named, c.tags, c.paths, c.limit))
    BY DEF PlanCommand
<1> DEFINE plan == CommandPlan(c.named, c.tags, c.paths, c.limit)
           wanted == { o \in CommandAsks(c) : c.named # {} => MethodOf[o] \in c.named }
           passing == { o \in catalog : Passes(o, plan) }
<1>2. plan.limit \in Nat
    <2>1. c.limit \in Nat
        BY MaxLimitAssumption DEF Commands, Limits
    <2> QED BY <2>1, LimitIsInRange DEF CommandPlan, Plan
<1>3. catalog \in SUBSET Operations
    BY DEF ScopeInv
<1>4. passing = wanted
    BY <1>3, CommandIsKept DEF CommandAsks
<1>5. \A o \in passing : c.named # {} => MethodOf[o] \in c.named
    BY <1>4
<1> QED BY <1>1, <1>2, <1>4, <1>5, PlannedKeeps

\* A request is planned on what it matches.
LEMMA PlanRequestKeeps == ScopeInv /\ PlanRequest => ScopeInv'
<1> SUFFICES ASSUME ScopeInv, PlanRequest
             PROVE  ScopeInv'
    OBVIOUS
<1>1. PICK r \in Requests :
          LET matched == r.matched \cap catalog
          IN  IF matched = {}
              THEN r.whole /\ Planned(FALSE, catalog, r.named, WholePlan(r.named, r.limit))
              ELSE ~r.whole /\ Planned(FALSE, matched, r.named,
                                       SpecificPlan(matched, r.named, r.limit))
    BY DEF PlanRequest
<1> DEFINE matched == r.matched \cap catalog
<1>2. r.limit \in Nat
    BY MaxLimitAssumption DEF Requests, Limits
<1>3. catalog \in SUBSET Operations
    BY DEF ScopeInv
<1>4. CASE matched = {}
    <2> DEFINE plan == WholePlan(r.named, r.limit)
               wanted == { o \in catalog : r.named # {} => MethodOf[o] \in r.named }
               passing == { o \in catalog : Passes(o, plan) }
    <2>1. Planned(FALSE, catalog, r.named, plan)
        BY <1>1, <1>4
    <2>2. plan.limit \in Nat
        BY <1>2, LimitIsInRange DEF WholePlan, Plan
    <2>3. passing = wanted
        BY WholeIsKept
    <2>4. \A o \in passing : r.named # {} => MethodOf[o] \in r.named
        BY <2>3
    <2> QED BY <2>1, <2>2, <2>3, <2>4, PlannedKeeps
<1>5. CASE matched # {}
    <2> DEFINE plan == SpecificPlan(matched, r.named, r.limit)
               wanted == { o \in matched : r.named # {} => MethodOf[o] \in r.named }
               passing == { o \in catalog : Passes(o, plan) }
    <2>1. Planned(FALSE, matched, r.named, plan)
        BY <1>1, <1>5
    <2>2. plan.limit \in Nat
        BY <1>2, LimitIsInRange DEF SpecificPlan, Plan
    <2> HIDE DEF matched
    <2>3. \A o \in Operations :
              /\ o \in matched /\ (r.named # {} => MethodOf[o] \in r.named) => Passes(o, plan)
              /\ Passes(o, plan) /\ r.named # {} => MethodOf[o] \in r.named
        BY <1>5, MatchIsKept
    <2>4. matched \subseteq catalog
        BY DEF matched
    <2> HIDE DEF plan
    <2>5. wanted \subseteq passing
        BY <1>3, <2>3, <2>4
    <2>6. \A o \in passing : r.named # {} => MethodOf[o] \in r.named
        BY <1>3, <2>3
    <2> QED BY <2>1, <2>2, <2>5, <2>6, PlannedKeeps
<1> QED BY <1>4, <1>5

\* A structured selection is confirmed as it says.
LEMMA ConfirmScopeKeeps == ScopeInv /\ ConfirmScope => ScopeInv'
<1> SUFFICES ASSUME ScopeInv, ConfirmScope
             PROVE  ScopeInv'
    OBVIOUS
<1>1. catalog' = catalog /\ step' = "confirmed" /\ input' \in DecisionType
          /\ scope' = ScopedOperations(input', catalog)
    BY DEF ConfirmScope
<1>2. /\ scope' \subseteq catalog'
      /\ scope' \cap input'.excludedOperations = {}
      /\ input'.excludedOperations \cap catalog' = {}
             => GroupsOf(scope') \cap input'.excludedGroups = {}
      /\ PickedOperations(input', catalog') # {}
             => scope' \subseteq PickedOperations(input', catalog')
    <2>1. catalog \in SUBSET Operations
        BY DEF ScopeInv
    <2> QED BY <1>1, <2>1, ScopedAsDecided
<1>3. DecisionIsHonoured'
    BY <1>1, <1>2 DEF DecisionIsHonoured, ExclusionsHold, OnlyPickedIsTested,
       UnderstoodIsTested, RecommendationIsFollowed, NamedOutIsOut
<1>4. MatchedArePlanned' /\ FeedbackIsHonoured'
    BY <1>1, NothingAsked
<1> QED BY <1>1, <1>2, <1>3, <1>4 DEF ScopeInv

\* A recommendation changes nothing that is tested.
LEMMA RecommendKeeps == ScopeInv /\ Recommend => ScopeInv'
<1> SUFFICES ASSUME ScopeInv, Recommend
             PROVE  ScopeInv'
    OBVIOUS
<1>1. catalog' = catalog /\ step' = "recommended" /\ scope' = scope
    BY DEF Recommend
<1>2. PICK mode \in RecommendationModes, advice \in {{}} \cup { {a} : a \in AdviceType } :
          input' \in RecommendScope(mode, advice, catalog)
    BY DEF Recommend
<1>3. advice \in SUBSET AdviceType
    OBVIOUS
<1>4. IsRecommendation(input', catalog')
    BY <1>1, <1>2, <1>3, RecommendsGroups
<1>5. MatchedArePlanned' /\ DecisionIsHonoured' /\ FeedbackIsHonoured'
    BY <1>1, NothingAsked
<1> QED BY <1>1, <1>4, <1>5 DEF ScopeInv

\* The agent decides on nothing that the reply does not ask for.  The reply is of the user
\* or, when groups of the latest recommendation are applied, written for them.
LEMMA UnderstoodKeeps ==
    ASSUME ScopeInv, NEW reply, reply.everything => ~reply.excludes,
           NEW failed \in BOOLEAN, NEW answer \in SUBSET DecisionType, NEW applied,
           answer # {} => \E a \in DecisionType : answer = {a},
           failed => answer = {},
           step = "recommended" => failed,
           applied # {} =>
               /\ step = "recommended"
               /\ applied \in AppliedGroups(input)
               /\ CanApply(input, applied, catalog)
               /\ reply \in ComposedReplies(Replies, input, applied),
           Understood(reply, failed, answer, applied)
    PROVE  ScopeInv'
<1> DEFINE latest == IF step = "recommended" THEN {input} ELSE {}
<1>1. PICK d \in InterpretScopeSelection(reply, latest, failed, answer, catalog) :
          /\ input' = [ reply |-> reply, latest |-> latest, answer |-> answer,
                        applied |-> applied, decision |-> d ]
          /\ scope' = ScopedOperations(d, catalog)
    BY DEF Understood
<1>2. catalog' = catalog /\ step' = "understood"
    BY DEF Understood
<1>3. /\ input'.reply = reply /\ input'.latest = latest /\ input'.answer = answer
      /\ input'.applied = applied /\ input'.decision = d
    BY <1>1
<1>4. catalog \in SUBSET Operations /\ \A r \in latest : IsRecommendation(r, catalog)
    BY DEF ScopeInv
<1>5. latest # {} => latest = {input} /\ failed
    OBVIOUS
<1>6. applied # {} => applied \in AppliedGroups(input) /\ CanApply(input, applied, catalog)
                          /\ reply \in ComposedReplies(Replies, input, applied)
                          /\ latest = {input}
    OBVIOUS
<1> HIDE DEF latest
<1>7. /\ scope' = d.selectedOperations /\ scope' # {} /\ scope' \subseteq catalog
    <2>1. /\ ScopedOperations(d, catalog) = d.selectedOperations
          /\ d.selectedOperations # {} /\ d.selectedOperations \subseteq catalog
        BY <1>4, DecisionsAreSettled
    <2> QED BY <1>1, <2>1
<1>8. reply.accepts =>
          \A r \in latest : scope' = FollowedBy(r, r.groups)
    <2> SUFFICES ASSUME reply.accepts, NEW r \in latest
                 PROVE  d.selectedOperations = FollowedBy(r, r.groups)
        BY <1>7
    <2>1. latest = {r}
        BY <1>5
    <2>2. d \in ApplyRecommendation(r, catalog)
        BY <1>1, <2>1 DEF InterpretScopeSelection
    <2> QED BY <1>4, <2>2, AcceptedIsFollowed
<1>9. ~(reply.accepts /\ latest # {}) /\ failed => d \in FallbackSelection(reply, catalog)
    BY <1>1 DEF InterpretScopeSelection
<1>10. applied # {} =>
           \A r \in latest : SaysNoMore(reply, r, applied) => scope' = FollowedBy(r, applied)
    <2> SUFFICES ASSUME applied # {}, NEW r \in latest, SaysNoMore(reply, r, applied)
                 PROVE  scope' = FollowedBy(r, applied)
        OBVIOUS
    <2>1. r = input /\ latest = {input}
        BY <1>5
    <2>2. CASE reply.accepts
        <3>1. applied = r.groups
            BY <2>2 DEF SaysNoMore
        <3> QED BY <1>8, <2>2, <3>1
    <2>3. CASE ~reply.accepts
        <3>1. d \in FallbackSelection(reply, catalog)
            BY <1>5, <1>9, <2>1, <2>3
        <3>2. \A e \in FallbackSelection(reply, catalog) :
                  e.selectedOperations = FollowedBy(r, applied)
            BY <1>4, <1>6, <2>1, <2>3, AppliedIsFollowed
        <3> QED BY <1>7, <3>1, <3>2
    <2> QED BY <2>2, <2>3
<1>11. reply.excludes /\ answer = {} /\ catalog \ NamedOut(reply, catalog) # {}
           /\ ~(reply.accepts /\ latest # {})
           => scope' = catalog \ NamedOut(reply, catalog)
    <2> SUFFICES ASSUME reply.excludes, answer = {}, catalog \ NamedOut(reply, catalog) # {},
                        ~(reply.accepts /\ latest # {})
                 PROVE  scope' = catalog \ NamedOut(reply, catalog)
        OBVIOUS
    <2>1. failed
        BY <1>1 DEF InterpretScopeSelection
    <2>2. d.selectedOperations = catalog \ NamedOut(reply, catalog)
        BY <1>9, <2>1, ExclusionIsTaken
    <2> QED BY <1>7, <2>2
<1>12. \A a \in answer :
           AiSelection(a, catalog) # {} => scope' \cap a.excludedOperations = {}
    <2> SUFFICES ASSUME NEW a \in answer, AiSelection(a, catalog) # {}
                 PROVE  d.selectedOperations \cap a.excludedOperations = {}
        BY <1>7
    <2>1. answer = {a} /\ a \in DecisionType /\ ~failed
        OBVIOUS
    <2>2. latest = {}
        BY <1>5, <2>1
    <2>3. d \in AiSelection(a, catalog)
        BY <1>1, <2>1, <2>2 DEF InterpretScopeSelection, FirstOfThese
    <2> QED BY <2>1, <2>3, AnswerKeepsOut
<1>13. UnderstoodIsTested'
    BY <1>3, <1>7 DEF UnderstoodIsTested
<1>14. RecommendationIsFollowed'
    <2> QED BY <1>2, <1>3, <1>8, <1>10 DEF RecommendationIsFollowed, FollowedBy, SaysNoMore
<1>15. NamedOutIsOut'
    BY <1>2, <1>3, <1>11, <1>12 DEF NamedOutIsOut
<1>16. ExclusionsHold' /\ OnlyPickedIsTested'
    BY <1>2 DEF ExclusionsHold, OnlyPickedIsTested
<1>17. DecisionIsHonoured'
    BY <1>13, <1>14, <1>15, <1>16 DEF DecisionIsHonoured
<1>18. MatchedArePlanned' /\ FeedbackIsHonoured'
    BY <1>2, NothingAsked
<1> QED BY <1>2, <1>4, <1>7, <1>17, <1>18 DEF ScopeInv

\* Read by its words.
LEMMA ReplyInWordsKeeps == ScopeInv /\ ReplyInWords => ScopeInv'
<1> SUFFICES ASSUME ScopeInv, ReplyInWords
             PROVE  ScopeInv'
    OBVIOUS
<1>1. PICK reply \in Replies : Understood(reply, TRUE, {}, {})
    BY DEF ReplyInWords
<1>2. reply.everything => ~reply.excludes
    BY RepliesAssumption
<1> QED BY <1>1, <1>2, UnderstoodKeeps

\* The latest recommendation applied for the user.
LEMMA ApplyLatestKeeps == ScopeInv /\ ApplyLatest => ScopeInv'
<1> SUFFICES ASSUME ScopeInv, ApplyLatest
             PROVE  ScopeInv'
    OBVIOUS
<1>1. step = "recommended"
    BY DEF ApplyLatest
<1>2. PICK groups \in AppliedGroups(input) :
          /\ CanApply(input, groups, catalog)
          /\ \E reply \in ComposedReplies(Replies, input, groups) :
                 Understood(reply, TRUE, {}, groups)
    BY DEF ApplyLatest
<1>3. PICK reply \in ComposedReplies(Replies, input, groups) :
          Understood(reply, TRUE, {}, groups)
    BY <1>2
<1>4. ~reply.everything
    BY DEF ComposedReplies
<1> QED BY <1>1, <1>2, <1>3, <1>4, UnderstoodKeeps

\* Read by the language model.
LEMMA ReplyToModelKeeps == ScopeInv /\ ReplyToModel => ScopeInv'
<1> SUFFICES ASSUME ScopeInv, ReplyToModel
             PROVE  ScopeInv'
    OBVIOUS
<1>1. step = "start"
    BY DEF ReplyToModel
<1>2. PICK reply \in RepliesToModel, a \in DecisionType : Understood(reply, FALSE, {a}, {})
    BY DEF ReplyToModel
<1>3. reply.everything => ~reply.excludes
    BY RepliesAssumption
<1>4. {a} \in SUBSET DecisionType /\ {a} # {} /\ \E b \in DecisionType : {a} = {b}
    OBVIOUS
<1> QED BY <1>1, <1>2, <1>3, <1>4, UnderstoodKeeps

\* The review starts with something to test.
LEMMA StartReviewKeeps == ScopeInv /\ StartReview => ScopeInv'
<1> SUFFICES ASSUME ScopeInv, StartReview
             PROVE  ScopeInv'
    OBVIOUS
<1>1. catalog' = catalog /\ step' = "drafted" /\ scope' = scope /\ scope # {}
    BY DEF StartReview
<1>2. MatchedArePlanned' /\ DecisionIsHonoured' /\ FeedbackIsHonoured'
    BY <1>1, NothingAsked
<1> QED BY <1>1, <1>2 DEF ScopeInv

\* Feedback changes what it names.
LEMMA GiveFeedbackKeeps == ScopeInv /\ GiveFeedback => ScopeInv'
<1> SUFFICES ASSUME ScopeInv, GiveFeedback
             PROVE  ScopeInv'
    OBVIOUS
<1>1. /\ catalog' = catalog /\ step' = "refined" /\ before' = scope
      /\ input' \in RefinementType /\ scope' = Refine(scope, catalog, input')
    BY DEF GiveFeedback
<1>2. scope # {} /\ scope \in SUBSET catalog
    BY DEF ScopeInv, GiveFeedback
<1>3. /\ scope' # {} /\ scope' \subseteq catalog'
      /\ scope' \ before' \subseteq
             IF input'.mode = "reset_all" THEN catalog'
             ELSE input'.matched \cup input'.final \cup input'.add
      /\ before' \ scope' # {} /\ scope' \cap input'.final = {}
             /\ input'.mode # "replace_with_specific"
             => before' \ scope' \subseteq input'.matched \cup input'.remove
      /\ input'.mode \in PatchModes /\ input'.final \cap catalog' = {} /\ scope' # before'
             => input'.add \cap catalog' \subseteq scope'
    BY <1>1, <1>2, RefinedAsTold
<1>4. FeedbackIsHonoured'
    BY <1>3 DEF FeedbackIsHonoured, ScopeStaysTestable, OnlyWhatWasNamedChanges, AddedIsTested
<1>5. MatchedArePlanned' /\ DecisionIsHonoured'
    BY <1>1, NothingAsked
<1> QED BY <1>1, <1>3, <1>4, <1>5 DEF ScopeInv

-----------------------------------------------------------------------------

\* What is tested stays within the catalog, and is what was asked for.
THEOREM ScopeIsAsAsked == Spec => []ScopeInv
<1>1. Init => ScopeInv
    BY DEF Init, ScopeInv, MatchedArePlanned, DecisionIsHonoured, ExclusionsHold,
       OnlyPickedIsTested, UnderstoodIsTested, RecommendationIsFollowed, NamedOutIsOut,
       FeedbackIsHonoured, ScopeStaysTestable, OnlyWhatWasNamedChanges, AddedIsTested
<1>2. ScopeInv /\ [Next]_vars => ScopeInv'
    <2> SUFFICES ASSUME ScopeInv, [Next]_vars
                 PROVE  ScopeInv'
        OBVIOUS
    <2>0. CASE PlanCommand
        BY <2>0, PlanCommandKeeps
    <2>1. CASE PlanRequest
        BY <2>1, PlanRequestKeeps
    <2>2. CASE ConfirmScope
        BY <2>2, ConfirmScopeKeeps
    <2>3. CASE Recommend
        BY <2>3, RecommendKeeps
    <2>4. CASE ReplyInWords
        BY <2>4, ReplyInWordsKeeps
    <2>5. CASE ReplyToModel
        BY <2>5, ReplyToModelKeeps
    <2>6. CASE ApplyLatest
        BY <2>6, ApplyLatestKeeps
    <2>7. CASE StartReview
        BY <2>7, StartReviewKeeps
    <2>8. CASE GiveFeedback
        BY <2>8, GiveFeedbackKeeps
    <2>9. CASE UNCHANGED vars
        BY <2>9 DEF vars, ScopeInv, MatchedArePlanned, Wanted, DecisionIsHonoured,
           ExclusionsHold, OnlyPickedIsTested, UnderstoodIsTested, RecommendationIsFollowed,
           FollowedBy, SaysNoMore, NamedOutIsOut, FeedbackIsHonoured, ScopeStaysTestable,
           OnlyWhatWasNamedChanges, AddedIsTested
    <2> QED BY <2>0, <2>1, <2>2, <2>3, <2>4, <2>5, <2>6, <2>7, <2>8, <2>9 DEF Next
<1> QED BY <1>1, <1>2, PTL DEF Spec

\* RequestUnderstandingService and _filter_operations: a request that is not a command, whose
\* plan has no tags, loses an operation it matches only to a method it does not name, or to
\* a limit that is used up; a canonical command is planned on operations that pass every tag,
\* path and method it names, and on all of them but for such a limit.
THEOREM RequestsArePlanned == Spec => []MatchedArePlanned
<1>1. ScopeInv => MatchedArePlanned
    BY DEF ScopeInv
<1> QED BY <1>1, ScopeIsAsAsked, PTL

\* ScopeConversationAgent and _finalize_scope_selection, for every catalog, reply and answer
\* of a model: what is tested is what the agent understood, never nothing; names that an
\* exclusion holds are out, and one that holds none leaves out nothing; an accepted
\* recommendation is followed, and so is one applied for the user by a text whose names say
\* no more than the groups.
THEOREM DecisionsAreHonoured == Spec => []DecisionIsHonoured
<1>1. ScopeInv => DecisionIsHonoured
    BY DEF ScopeInv
<1> QED BY <1>1, ScopeIsAsAsked, PTL

\* FeedbackScopeRefiner.refine: a feedback changes what it names, what it adds is tested,
\* and something is left to test.
THEOREM FeedbackIsFollowed == Spec => []FeedbackIsHonoured
<1>1. ScopeInv => FeedbackIsHonoured
    BY DEF ScopeInv
<1> QED BY <1>1, ScopeIsAsAsked, PTL
=============================================================================
