------------------------------- MODULE RequestScope -------------------------------
(***************************************************************************)
(* How a request becomes the operations of a review without asking the     *)
(* user: RequestUnderstandingService parses a canonical command into a     *)
(* plan, or builds one from the operations the scope resolution agent      *)
(* matched, and TestOrchestrator filters the target's operations with that *)
(* plan.  The plan keeps methods, tags and paths, not operations.          *)
(***************************************************************************)
EXTENDS ApiCatalog

CONSTANTS
    MethodOf,   \* HTTP method of an operation
    PathOf,     \* path of an operation
    TagsOf,     \* tags of an operation, in lower case
    MaxLimit    \* _extract_limit clamps a limit to 1..MaxLimit (200 in the code)

ASSUME MaxLimitAssumption == MaxLimit \in Nat \ {0}

Methods == { MethodOf[o] : o \in Operations }
Paths   == { PathOf[o] : o \in Operations }
Tags    == UNION { TagsOf[o] : o \in Operations }

\* _extract_limit: a limit the request names, brought into range.
ClampLimit(n) == IF n < 1 THEN 1 ELSE IF n > MaxLimit THEN MaxLimit ELSE n

Plan(methods, tags, paths, limit) ==
    [ methods |-> methods, tags |-> tags, paths |-> paths, limit |-> ClampLimit(limit) ]

\* "test target ..." is parsed as it stands: all methods when it names none.
CommandPlan(named, tags, paths, limit) ==
    Plan(IF named # {} THEN named ELSE Methods, tags, paths, limit)

\* The plan for the operations the agent matched; methods the request names win.
SpecificPlan(matched, named, limit) ==
    Plan(IF named # {} THEN named ELSE { MethodOf[o] : o \in matched }, {},
         { PathOf[o] : o \in matched }, limit)

\* The plan when the agent finds no specific function: everything.
WholePlan(named, limit) == Plan(named, {}, {}, limit)

\* _filter_operations: an empty list does not filter.
Passes(o, plan) ==
    /\ plan.methods # {} => MethodOf[o] \in plan.methods
    /\ plan.tags # {} => TagsOf[o] \cap plan.tags # {}
    /\ plan.paths # {} => PathOf[o] \in plan.paths

\* Mutant: the limit is applied before the filter.
PlannedOperations_LimitFirst(plan, catalog) ==
    { o \in FirstOf(catalog, plan.limit) : Passes(o, plan) }

\* The filter, then the cut at the limit.
PlannedOperations(plan, catalog) == FirstOf({ o \in catalog : Passes(o, plan) }, plan.limit)
=============================================================================
