-------------------------------- MODULE ApiCatalog --------------------------------
(***************************************************************************)
(* The operations of the target APIs.  An operation is the number of its   *)
(* place in the OpenAPI document: the ingestor loads operations in that    *)
(* order, and every list of operations the workflow cuts or filters keeps  *)
(* it, so a list of operations is a set of these numbers.                  *)
(***************************************************************************)
EXTENDS Naturals, FiniteSets

CONSTANT Operations   \* operation ids of all targets

ASSUME OperationsAssumption == Operations \subseteq Nat

\* The first k of some operations, in document order: the slice [:k].
FirstOf(operations, k) ==
    { o \in operations : Cardinality({ p \in operations : p < o }) < k }
=============================================================================
