------------------------------ MODULE ScopeSelection ------------------------------
(***************************************************************************)
(* How a scope decision becomes the operations to test:                    *)
(* TestOrchestrator._finalize_scope_selection.  The decision comes from    *)
(* the scope conversation agent (language model or heuristics) or from a   *)
(* structured selection, so its four id lists are arbitrary: unknown ids,  *)
(* and groups and operations that contradict each other, are all possible. *)
(* Lists whose order and repetitions never matter here are sets.           *)
(***************************************************************************)
EXTENDS ApiCatalog

CONSTANTS
    GroupOf,      \* the functional group of an operation (first tag or path segment)
    Ids           \* ids a decision may name, known to the catalog or not

ASSUME GroupOfAssumption    == GroupOf \in [Operations -> Ids]

Modes == {"all", "groups", "operations", "custom"}

DecisionType == [ mode               : Modes,
                  selectedGroups     : SUBSET Ids,
                  selectedOperations : SUBSET Operations,
                  excludedGroups     : SUBSET Ids,
                  excludedOperations : SUBSET Operations ]

\* The functional groups of some operations, and the operations of some groups.
GroupsOf(operations) == { GroupOf[o] : o \in operations }
ExpandGroups(groups, catalog) == { o \in catalog : GroupOf[o] \in groups }

\* Mutant: excluded groups are forgotten when they have to be expanded.
ExcludedOperations_NoGroups(d, catalog) == d.excludedOperations \cap catalog

\* Excluded groups are expanded only when no excluded operation is named.
ExcludedOperations(d, catalog) ==
    LET groups == d.excludedGroups \cap GroupsOf(catalog)
        named  == d.excludedOperations \cap catalog
    IN  IF named = {} THEN ExpandGroups(groups, catalog) ELSE named

\* The operations the decision picks before anything is excluded: the whole
\* catalog, the operations it names, or else those of the groups it names.
PickedOperations(d, catalog) ==
    LET named == d.selectedOperations \cap catalog
    IN  IF d.mode = "all" THEN catalog
        ELSE IF named = {} THEN ExpandGroups(d.selectedGroups, catalog)
        ELSE named

\* Exclusions alone mean "everything but these"; no operation at all means that
\* the reply selected nothing.
ScopedOperations(d, catalog) ==
    LET picked    == PickedOperations(d, catalog)
        excluded  == ExcludedOperations(d, catalog)
        onlyExcludes == picked = {} /\ excluded # {}
    IN  (IF onlyExcludes THEN catalog ELSE picked) \ excluded
=============================================================================
