------------------------------ MODULE Outcome ------------------------------
(***************************************************************************)
(* The values that decide what a run is called: what a harness returns,    *)
(* what a scorer returns, and classify(), the ordered rule that turns them *)
(* into one FailureClassification.  Nothing here has state; the modules of *)
(* the run, of the harnesses and of the comparison all use it.             *)
(***************************************************************************)
EXTENDS Naturals, Sequences

\* Python's None.
None == "none"

\* HarnessResult.failure_kind, as far as classify() and the run look at it.
FailureKinds == {None, "environment", "model_runtime", "tool_budget"}

\* An exit code matters only as zero or not; events and the response are
\* carried along and decide nothing.  sandbox: sandbox_provenance is not None.
HarnessResult ==
    [exit_code: {0, 1}, failure_kind: FailureKinds,
     timed_out: BOOLEAN, output_limited: BOOLEAN, sandbox: BOOLEAN]

\* What _run_resolved holds until a harness has returned.
NoHarnessResult ==
    [exit_code |-> 1, failure_kind |-> "environment",
     timed_out |-> FALSE, output_limited |-> FALSE, sandbox |-> FALSE]

\* FakeHarness.execute: controlled success, failure and timeout.
FakeResults ==
    {[NoHarnessResult EXCEPT !.exit_code = 0, !.failure_kind = None],
     NoHarnessResult,
     [NoHarnessResult EXCEPT !.failure_kind = None, !.timed_out = TRUE]}

\* What PiHarness and RawOllamaHarness can return.  A result with no kind is a
\* finished one; a timeout and an overflow carry the kind "environment".
SandboxedResults ==
    {h \in HarnessResult :
        /\ h.failure_kind = None => h.exit_code = 0 /\ h.sandbox
        /\ h.timed_out \/ h.output_limited =>
              h.failure_kind = "environment" /\ h.sandbox
        /\ ~(h.timed_out /\ h.output_limited)
        /\ h.exit_code = 0 /\ h.failure_kind # None =>
              h.timed_out \/ h.output_limited
        /\ h.failure_kind \in {"model_runtime", "tool_budget"} => h.sandbox}

-----------------------------------------------------------------------------
\* The category a scorer declares; None is that of the score the run makes up
\* for a scorer that raised.
Categories == {"editing", "verification", None}

ScoreResult == [passed: BOOLEAN, category: Categories, error: BOOLEAN]

\* What score() returns: content and path scorers never set an error, a
\* command scorer does when the command cannot be run or times out.
ScoresOf(category) ==
    {[passed |-> p, category |-> category, error |-> FALSE] : p \in BOOLEAN}
      \cup {[passed |-> FALSE, category |-> c, error |-> TRUE] :
              c \in {category} \cap {"verification"}}

\* The score appended for a scorer that raised.
RaisedScore == [passed |-> FALSE, category |-> None, error |-> TRUE]

InRange(seq) == {seq[i] : i \in DOMAIN seq}

FailedIn(category, scores) ==
    \E s \in InRange(scores) : ~s.passed /\ s.category = category

-----------------------------------------------------------------------------
Classifications ==
    {"success", "environment", "model_runtime", "tool_execution", "editing",
     "verification", "timeout", "evaluator", "unknown"}

\* Mutant: what the harness reports of its environment is not asked for.
ClassifyByScores(harness, scores) ==
    IF \E s \in InRange(scores) : s.error            THEN "evaluator"
    ELSE IF FailedIn("editing", scores)              THEN "editing"
    ELSE IF FailedIn("verification", scores)         THEN "verification"
    ELSE IF scores # <<>>                            THEN "success"
    ELSE "unknown"

\* classify(): the first rule that applies names the run.
Classify(harness, scores) ==
    IF \E s \in InRange(scores) : s.error            THEN "evaluator"
    ELSE IF harness.timed_out                        THEN "timeout"
    ELSE IF harness.failure_kind = "environment"     THEN "environment"
    ELSE IF harness.failure_kind = "model_runtime"   THEN "model_runtime"
    ELSE IF harness.failure_kind = "tool_budget"     THEN "tool_execution"
    ELSE IF FailedIn("editing", scores)              THEN "editing"
    ELSE IF FailedIn("verification", scores)         THEN "verification"
    ELSE IF /\ harness.exit_code = 0
            /\ scores # <<>>
            /\ \A s \in InRange(scores) : s.passed   THEN "success"
    ELSE "unknown"
=============================================================================
