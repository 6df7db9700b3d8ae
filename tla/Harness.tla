------------------------------ MODULE Harness ------------------------------
(***************************************************************************)
(* The two harnesses that work in a sandbox.  RawOllamaHarness sends one   *)
(* request; PiHarness starts an agent whose tool calls an extension counts *)
(* and, past the budget, blocks.  Each puts its files in a directory of    *)
(* its own inside the worktree, hands a command to the sandbox, removes    *)
(* the directory and makes one HarnessResult of what came back: for Pi, of *)
(* the event stream the agent printed before it ended or was cut off.      *)
(***************************************************************************)
EXTENDS Outcome, FiniteSets

CONSTANTS
    Ids,            \* toolCallIds the model can come up with
    MaxToolCalls,   \* the task's max_tool_calls
    MaxEvents       \* bound: events an agent prints

ASSUME BudgetAssumption ==
    MaxToolCalls \in Nat \ {0} /\ MaxEvents \in Nat

VARIABLES
    kind,           \* raw-ollama or pi
    pc,
    runtimeDir,     \* the harness's directory is in the worktree
    \* inside the container
    toolCalls,      \* the extension's counter
    events,         \* Pi's standard output
    \* what the sandbox and the harness return
    answer,
    result

vars == <<kind, pc, runtimeDir, toolCalls, events, answer, result>>

-----------------------------------------------------------------------------
\* tool: a tool_execution_end, whether its text starts with the marker;
\* message: an assistant message, whether it stopped on an error;
\* bad: a line _parse cannot make sense of.
ToolEvents == [type: {"tool"}, id: Ids, error: BOOLEAN, marker: BOOLEAN]
Messages   == [type: {"message"}, error: BOOLEAN]
Bad        == [type |-> "bad"]
Events     == ToolEvents \cup Messages \cup {Bad}

\* SandboxResult, or a SandboxError with or without provenance, or another
\* exception.  body: what a raw request brought back.
Bodies == {"none", "malformed", "http_error", "no_response", "not_done", "response"}
Answers ==
    [got: {"none", "result", "sandbox_error", "exception"}, exit_code: {0, 1},
     timed_out: BOOLEAN, output_limited: BOOLEAN, sandbox: BOOLEAN, body: Bodies]

NoAnswer == [got |-> "none", exit_code |-> 1, timed_out |-> FALSE,
             output_limited |-> FALSE, sandbox |-> FALSE, body |-> "none"]

Raised == [raised |-> TRUE]

TypeOK ==
    /\ kind \in {"raw-ollama", "pi"}
    /\ pc \in {"setup", "sandbox", "cleanup", "decide", "done"}
    /\ runtimeDir \in BOOLEAN
    /\ events \in Seq(Events) /\ Len(events) <= MaxEvents
    /\ toolCalls = Cardinality({i \in DOMAIN events : events[i].type = "tool"})
    /\ answer \in Answers
    /\ result = <<>> \/ result = <<Raised>> \/ result \in Seq(HarnessResult)

Init ==
    /\ kind \in {"raw-ollama", "pi"}
    /\ pc = "setup"
    /\ runtimeDir = FALSE
    /\ toolCalls = 0
    /\ events = <<>>
    /\ answer = NoAnswer
    /\ result = <<>>

-----------------------------------------------------------------------------
(* The agent in the container.                                             *)

Emit(event) == events' = Append(events, event)

\* The extension: the call past the budget does not run; Pi reports it as a
\* tool that ended in an error whose text is the marker.  The text of a tool
\* that ran and failed is the tool's own, and may be anything.
ToolCall(id) ==
    /\ pc = "sandbox" /\ kind = "pi" /\ Len(events) < MaxEvents
    /\ toolCalls' = toolCalls + 1
    /\ \E error, marker \in BOOLEAN :
          /\ toolCalls' > MaxToolCalls => error /\ marker
          /\ marker => error
          /\ Emit([type |-> "tool", id |-> id, error |-> error, marker |-> marker])
    /\ UNCHANGED <<kind, pc, runtimeDir, answer, result>>

Say(event) ==
    /\ pc = "sandbox" /\ kind = "pi" /\ Len(events) < MaxEvents
    /\ event \in Messages \cup {Bad}
    /\ Emit(event)
    /\ UNCHANGED <<kind, pc, runtimeDir, toolCalls, answer, result>>

\* DockerSandbox.execute ends: the command ended or was cut off at one of the
\* two limits, or a SandboxError or another exception came out.
SandboxResults ==
    {a \in Answers :
        /\ a.got = "result" /\ a.sandbox
        /\ ~(a.timed_out /\ a.output_limited)
        /\ a.body # "none" <=>
              kind = "raw-ollama" /\ a.exit_code = 0 /\ ~a.timed_out /\ ~a.output_limited}

SandboxFailures ==
    {[NoAnswer EXCEPT !.got = "sandbox_error", !.sandbox = p] : p \in BOOLEAN}
      \cup {[NoAnswer EXCEPT !.got = "exception"]}

SandboxEnds ==
    /\ pc = "sandbox"
    /\ answer' \in SandboxResults \cup SandboxFailures
    /\ pc' = "cleanup"
    /\ UNCHANGED <<kind, runtimeDir, toolCalls, events, result>>

-----------------------------------------------------------------------------
(* What Pi's events say: _parse and _tool_budget_error.                    *)

\* _parse stops at the first line it cannot take.
Parsed    == {i \in DOMAIN events : \A j \in 1..i : events[j] # Bad}
Malformed == Parsed # DOMAIN events

ParsedOf(type) == {events[i] : i \in {j \in Parsed : events[j].type = type}}

\* model_error is never taken back by a later message.
ModelError   == \E m \in ParsedOf("message") : m.error
SawAssistant == ParsedOf("message") # {}

\* Mutants: the ids alone make a budget error, from the last allowed call on;
\* the budget is exceeded only by two.
ToolBudgetByCount == Cardinality({t.id : t \in ParsedOf("tool")}) >= MaxToolCalls

ToolBudgetOffByOne ==
    /\ Cardinality({t.id : t \in ParsedOf("tool")}) > MaxToolCalls + 1
    /\ \E t \in ParsedOf("tool") : t.error /\ t.marker

\* More distinct ids than the budget, and a failed call with the marker.
ToolBudgetError ==
    /\ Cardinality({t.id : t \in ParsedOf("tool")}) > MaxToolCalls
    /\ \E t \in ParsedOf("tool") : t.error /\ t.marker

-----------------------------------------------------------------------------
(* The harnesses.                                                          *)

\* mkdtemp in the worktree, and the files in it.  Only Pi checks the budget,
\* which the configuration keeps positive.  A failure while the directory is
\* filled may leave it: Pi does not undo it, and the raw harness's own rmtree in
\* its finally block may fail as well.
Setup ==
    /\ pc = "setup"
    /\ runtimeDir' = TRUE
    /\ pc' = "sandbox"
    /\ UNCHANGED <<kind, toolCalls, events, answer, result>>

SetupFails ==
    /\ pc = "setup"
    /\ runtimeDir' \in BOOLEAN
    /\ result' = <<Raised>>
    /\ pc' = "done"
    /\ UNCHANGED <<kind, toolCalls, events, answer>>

Failed(failure_kind, provenance) ==
    [exit_code |-> 1, failure_kind |-> failure_kind, timed_out |-> FALSE,
     output_limited |-> FALSE, sandbox |-> provenance]

Done(outcome) == result' = <<outcome>> /\ pc' = "done"

\* rmtree.  Pi leaves it out when anything but a SandboxError came out; the
\* raw harness then removes what it can and lets the exception pass.
RemoveRuntimeDir ==
    /\ pc = "cleanup"
    /\ runtimeDir' = (answer.got = "exception" /\ kind = "pi")
    /\ IF answer.got = "exception"
         THEN Done(Raised) ELSE pc' = "decide" /\ UNCHANGED result
    /\ UNCHANGED <<kind, toolCalls, events, answer>>

\* Mutant: a directory that cannot be removed is passed over.
RemovePassedOver ==
    /\ pc = "cleanup" /\ answer.got # "exception"
    /\ pc' = "decide"
    /\ UNCHANGED <<kind, runtimeDir, toolCalls, events, answer, result>>

\* rmtree fails: an environment failure, whatever the sandbox brought back.
RemoveFails ==
    /\ pc = "cleanup"
    /\ answer.got = "exception" => kind = "raw-ollama"
    /\ Done(IF answer.got = "exception" THEN Raised
             ELSE Failed("environment", answer.sandbox))
    /\ UNCHANGED <<kind, runtimeDir, toolCalls, events, answer>>

\* The result with the limits and the provenance the sandbox reported.
Reported(exit_code, failure_kind) ==
    [exit_code |-> exit_code, failure_kind |-> failure_kind,
     timed_out |-> answer.timed_out, output_limited |-> answer.output_limited,
     sandbox |-> answer.sandbox]

\* Mutant: a budget error does not change the agent's exit code.
PiResultKeepingExit ==
    IF answer.timed_out \/ answer.output_limited
                               THEN Reported(answer.exit_code, "environment")
    ELSE IF Malformed          THEN Reported(1, "environment")
    ELSE IF ToolBudgetError    THEN Reported(answer.exit_code, "tool_budget")
    ELSE IF ModelError         THEN Reported(1, "model_runtime")
    ELSE IF answer.exit_code = 0 /\ ~SawAssistant THEN Reported(1, "environment")
    ELSE Reported(answer.exit_code,
                  IF answer.exit_code = 0 THEN None ELSE "environment")

\* PiHarness.execute, the first that applies.
PiResult ==
    IF answer.timed_out \/ answer.output_limited
                               THEN Reported(answer.exit_code, "environment")
    ELSE IF Malformed          THEN Reported(1, "environment")
    ELSE IF ToolBudgetError    THEN Reported(1, "tool_budget")
    ELSE IF ModelError         THEN Reported(1, "model_runtime")
    ELSE IF answer.exit_code = 0 /\ ~SawAssistant THEN Reported(1, "environment")
    ELSE Reported(answer.exit_code,
                  IF answer.exit_code = 0 THEN None ELSE "environment")

\* RawOllamaHarness.execute: _process_failure, then the response's envelope.
RawResult ==
    IF answer.timed_out \/ answer.output_limited \/ answer.exit_code # 0
                                        THEN Reported(1, "environment")
    ELSE IF answer.body = "http_error"  THEN Failed("model_runtime", TRUE)
    ELSE IF answer.body # "response"    THEN Failed("environment", TRUE)
    ELSE Reported(0, None)

Decide ==
    /\ pc = "decide"
    /\ Done(IF answer.got = "sandbox_error" THEN Failed("environment", answer.sandbox)
            ELSE IF kind = "pi" THEN PiResult ELSE RawResult)
    /\ UNCHANGED <<kind, runtimeDir, toolCalls, events, answer>>

-----------------------------------------------------------------------------
Agent ==
    \/ \E id \in Ids : ToolCall(id)
    \/ \E event \in Messages \cup {Bad} : Say(event)

Finished == pc = "done" /\ UNCHANGED vars

Next ==
    \/ Setup \/ SetupFails \/ Agent \/ SandboxEnds
    \/ RemoveRuntimeDir \/ RemoveFails \/ Decide \/ Finished

Spec == Init /\ [][Next]_vars

-----------------------------------------------------------------------------
(* Properties.                                                             *)

Returned == pc = "done" /\ result # <<Raised>>

\* Both harnesses keep to what RunLifecycle and classify() rely on: no kind
\* means exit code 0, a limit is an environment failure, and a result that
\* reached the sandbox carries its provenance.
ResultIsOneOfTheExpected == Returned => result[1] \in SandboxedResults

\* A run in which the extension blocked a call under an id of its own is never
\* a success, whatever the agent printed afterwards.
BlockedIsNoSuccess ==
    Returned /\ kind = "pi"
    /\ Cardinality({events[i].id : i \in {j \in DOMAIN events :
                       events[j].type = "tool"}}) > MaxToolCalls
    => result[1].failure_kind # None

\* A tool budget failure is never reported unless a call was really blocked:
\* neither a busy agent nor a tool that prints the marker is enough.
BudgetFailureIsReal ==
    Returned /\ result[1].failure_kind = "tool_budget" => toolCalls > MaxToolCalls

\* The directory the harness put into the worktree is gone when its result may
\* still be scored as the agent's work: else it would be part of the diff.
ScoredWithoutRuntimeDir ==
    Returned /\ runtimeDir => result[1].failure_kind = "environment"

\* What _run_resolved sees of the call, as RunLifecycle tells it of the one run r:
\* the rest of the run stands still meanwhile.
HarnessResultInRun == IF Returned THEN result[1] ELSE NoHarnessResult

PlaceInRun ==
    IF pc # "done" THEN "execute" ELSE IF Returned THEN "collect" ELSE "finally"

OfRun(x) == [r \in {"r"} |-> x]

Run == INSTANCE RunLifecycle WITH
    Runs        <- {"r"},
    Scorers     <- <<>>,
    pc          <- OfRun(PlaceInRun),
    kind        <- OfRun(kind),
    workspace   <- OfRun(TRUE),
    harness     <- OfRun(HarnessResultInRun),
    provenance  <- OfRun([sandbox |-> HarnessResultInRun.sandbox,
                          reproducible |-> HarnessResultInRun.sandbox]),
    scores      <- OfRun(<<>>),
    failure     <- OfRun(IF PlaceInRun = "finally" THEN {"execution"} ELSE {}),
    cleanup     <- OfRun(FALSE),
    verdict     <- OfRun([classification |-> None, status |-> None, reason |-> None]),
    pending     <- OfRun({}),
    artifacts   <- OfRun({}),
    interrupted <- OfRun(FALSE),
    experiment  <- OfRun(TRUE),
    row         <- OfRun([status |-> "running"]),
    worktree    <- OfRun(TRUE),
    files       <- OfRun({})

\* To the run the whole call is what RunLifecycle takes for granted: one step, in
\* which it gets one of the results of its kind of harness and the provenance that
\* comes with it, or an exception.  Nothing the agent, the sandbox or the removal of
\* the harness's files does shows before, or changes it afterwards.
IsPartOfTheRun == [][Run!Execute("r") \/ Run!StepRaises("r")]_(Run!vars)
=============================================================================
