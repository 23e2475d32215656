--------------------------------- MODULE CaseVerdict ---------------------------------
(***************************************************************************)
(* The verdict on an executed test case (core/validator.py).  A check that *)
(* was not made is "unknown".                                              *)
(***************************************************************************)
EXTENDS Naturals

CONSTANT Statuses   \* HTTP statuses a server answers with

ASSUME StatusesAssumption == Statuses \subseteq Nat \ {0}

\* The status of a request that was not answered.
NoStatus == 0

Checks   == { "passed", "failed", "unknown" }
Verdicts == { "pass", "fail", "skip", "error" }

Check(holds) == IF holds THEN "passed" ELSE "failed"

StatusCheck(expected, status) ==
    IF expected = {} THEN "unknown" ELSE Check(status \in expected)

\* Mutant: without a check that was made there is no verdict.
ComputeVerdict_Unmade(checks) ==
    IF "failed" \in checks THEN "fail"
    ELSE IF "passed" \in checks THEN "pass" ELSE "unknown"

ComputeVerdict(checks) == IF "failed" \in checks THEN "fail" ELSE "pass"

\* Mutant: an answer that is missing is not held against the case.
ValidateCase_NoAnswer(r, checks) ==
    IF r.skip THEN "skip"
    ELSE IF r.error = "text" THEN "error"
    ELSE IF r.status = NoStatus THEN "pass"
    ELSE ComputeVerdict(checks \cup {StatusCheck(r.expected, r.status)})

\* An exception without a text is no error to the validator.
ValidateCase(r, checks) ==
    IF r.skip THEN "skip"
    ELSE IF r.error = "text" THEN "error"
    ELSE ComputeVerdict(checks \cup {StatusCheck(r.expected, r.status)})
=============================================================================
