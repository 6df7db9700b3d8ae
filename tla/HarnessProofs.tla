--------------------------- MODULE HarnessProofs ---------------------------
(***************************************************************************)
(* What a run may rely on when a sandboxed harness returns, for every      *)
(* budget, every set of ids and event streams of any length.               *)
(***************************************************************************)
EXTENDS Harness, FiniteSetTheorems, SequenceTheorems, TLAPS

ToolCalls == {i \in DOMAIN events : events[i].type = "tool"}

\* What the sandbox brought back, and what the harness has done about it so far.
AnswerInv ==
    /\ pc \in {"cleanup", "decide"} => answer \in SandboxResults \cup SandboxFailures
    /\ pc = "decide" => answer.got # "exception" /\ ~runtimeDir
    /\ pc # "done" => result = <<>>

\* A call past the budget has left its mark in the stream.
MarkInv ==
    toolCalls > MaxToolCalls =>
        \E i \in ToolCalls : events[i].error /\ events[i].marker

Promises ==
    /\ ResultIsOneOfTheExpected /\ BlockedIsNoSuccess
    /\ BudgetFailureIsReal /\ ScoredWithoutRuntimeDir

Inv == TypeOK /\ AnswerInv /\ MarkInv /\ Promises

-----------------------------------------------------------------------------
USE BudgetAssumption

\* There are no more distinct ids than calls.
LEMMA DistinctIds ==
    ASSUME TypeOK, NEW S \in SUBSET ToolCalls
    PROVE Cardinality({events[i].id : i \in S}) <= toolCalls
<1> DEFINE T == {events[i].id : i \in S}
           f == [i \in S |-> events[i].id]
<1>1. DOMAIN events = 1..Len(events) /\ Len(events) \in Nat  BY DEF TypeOK
<1>2. IsFiniteSet(ToolCalls)
  <2>1. IsFiniteSet(1..Len(events))  BY <1>1, FS_Interval
  <2> QED  BY <1>1, <2>1, FS_Subset DEF ToolCalls
<1>3. IsFiniteSet(S) /\ Cardinality(S) <= Cardinality(ToolCalls)  BY <1>2, FS_Subset
<1>4. f \in Surjection(S, T)  BY DEF Surjection
<1>5. IsFiniteSet(T) /\ Cardinality(T) <= Cardinality(S)  BY <1>3, <1>4, FS_Surjection
<1>6. Cardinality(T) \in Nat /\ Cardinality(S) \in Nat /\ Cardinality(ToolCalls) \in Nat
  BY <1>2, <1>3, <1>5, FS_CardinalityType
<1>7. toolCalls = Cardinality(ToolCalls)  BY DEF TypeOK, ToolCalls
<1> QED  BY <1>3, <1>5, <1>6, <1>7

LEMMA EmptyStream == Cardinality({i \in DOMAIN <<>> : <<>>[i].type = "tool"}) = 0
<1>1. {i \in DOMAIN <<>> : <<>>[i].type = "tool"} = {}  OBVIOUS
<1> QED  BY <1>1, FS_EmptySet

LEMMA Counted == TypeOK => toolCalls \in Nat
<1> SUFFICES ASSUME TypeOK PROVE toolCalls \in Nat  OBVIOUS
<1>1. DOMAIN events = 1..Len(events) /\ Len(events) \in Nat  BY DEF TypeOK
<1>2. IsFiniteSet(1..Len(events))  BY <1>1, FS_Interval
<1>3. IsFiniteSet(ToolCalls)  BY <1>1, <1>2, FS_Subset DEF ToolCalls
<1> QED  BY <1>3, FS_CardinalityType DEF TypeOK, ToolCalls

LEMMA InitInv == Init => Inv
<1> SUFFICES ASSUME Init PROVE Inv  OBVIOUS
<1>1. NoAnswer \in Answers  BY DEF NoAnswer, Answers, Bodies
<1>2. TypeOK
  <2>1. events \in Seq(Events) /\ Len(events) <= MaxEvents  BY DEF Init
  <2>2. toolCalls = Cardinality({i \in DOMAIN events : events[i].type = "tool"})
    BY EmptyStream DEF Init
  <2> QED  BY <1>1, <2>1, <2>2 DEF Init, TypeOK
<1>3. AnswerInv /\ MarkInv  BY DEF Init, AnswerInv, MarkInv
<1>4. Promises
  BY DEF Init, Promises, ResultIsOneOfTheExpected, BlockedIsNoSuccess,
         BudgetFailureIsReal, ScoredWithoutRuntimeDir, Returned
<1> QED  BY <1>2, <1>3, <1>4 DEF Inv

\* While no result has been returned the promises hold.
LEMMA NothingReturned == ~Returned => Promises
BY DEF Promises, ResultIsOneOfTheExpected, BlockedIsNoSuccess, BudgetFailureIsReal,
       ScoredWithoutRuntimeDir

-----------------------------------------------------------------------------
\* An event more in the stream.
LEMMA Emitted ==
    ASSUME Inv, NEW event \in Events, Len(events) < MaxEvents, Emit(event)
    PROVE /\ events' \in Seq(Events) /\ Len(events') <= MaxEvents
          /\ DOMAIN events' = DOMAIN events \cup {Len(events) + 1}
          /\ \A i \in DOMAIN events : events'[i] = events[i]
          /\ events'[Len(events) + 1] = event
          /\ event.type = "tool" => /\ ToolCalls' = ToolCalls \cup {Len(events) + 1}
                                    /\ Cardinality(ToolCalls') = toolCalls + 1
          /\ event.type # "tool" => /\ ToolCalls' = ToolCalls
                                    /\ Cardinality(ToolCalls') = toolCalls
<1>1. events \in Seq(Events) /\ Len(events) \in Nat /\ DOMAIN events = 1..Len(events)
  BY DEF Inv, TypeOK
<1>2. /\ events' \in Seq(Events) /\ Len(events') = Len(events) + 1
      /\ \A i \in 1..Len(events) : events'[i] = events[i]
      /\ events'[Len(events) + 1] = event
  BY <1>1, AppendProperties DEF Emit
<1>3. DOMAIN events' = 1..(Len(events) + 1)  BY <1>2
<1>4. DOMAIN events' = DOMAIN events \cup {Len(events) + 1}  BY <1>1, <1>3
<1>5. /\ event.type = "tool" => ToolCalls' = ToolCalls \cup {Len(events) + 1}
      /\ event.type # "tool" => ToolCalls' = ToolCalls
  BY <1>1, <1>2, <1>4 DEF ToolCalls
<1>6. IsFiniteSet(ToolCalls)
  <2>1. IsFiniteSet(1..Len(events))  BY <1>1, FS_Interval
  <2> QED  BY <1>1, <2>1, FS_Subset DEF ToolCalls
<1>7. Len(events) + 1 \notin ToolCalls  BY <1>1 DEF ToolCalls
<1>8. Cardinality(ToolCalls) = toolCalls /\ toolCalls \in Nat
  BY Counted DEF Inv, TypeOK, ToolCalls
<1>9. Cardinality(ToolCalls \cup {Len(events) + 1}) = toolCalls + 1
  BY <1>6, <1>7, <1>8, FS_AddElement
<1>10. Len(events') <= MaxEvents  BY <1>1, <1>2
<1>11. /\ event.type = "tool" => Cardinality(ToolCalls') = toolCalls + 1
       /\ event.type # "tool" => Cardinality(ToolCalls') = toolCalls
  BY <1>5, <1>8, <1>9
<1> HIDE DEF ToolCalls
<1> QED  BY <1>1, <1>2, <1>4, <1>5, <1>10, <1>11

\* A tool call is counted, and marked when it is past the budget.
LEMMA ToolCallInv == ASSUME Inv, NEW id \in Ids, ToolCall(id) PROVE Inv'
<1>1. PICK error \in BOOLEAN, marker \in BOOLEAN :
        /\ toolCalls' > MaxToolCalls => error /\ marker
        /\ Emit([type |-> "tool", id |-> id, error |-> error, marker |-> marker])
  BY DEF ToolCall
<1> DEFINE event == [type |-> "tool", id |-> id, error |-> error, marker |-> marker]
<1>2. event \in Events /\ event.type = "tool" /\ event.error = error /\ event.marker = marker
  BY DEF Events, ToolEvents
<1>3. /\ pc = "sandbox" /\ Len(events) < MaxEvents /\ toolCalls' = toolCalls + 1
      /\ UNCHANGED <<kind, pc, runtimeDir, answer, result>>
  BY DEF ToolCall
<1> HIDE DEF event
<1>4. /\ events' \in Seq(Events) /\ Len(events') <= MaxEvents
      /\ ToolCalls' = ToolCalls \cup {Len(events) + 1}
      /\ events'[Len(events) + 1] = event
      /\ Cardinality(ToolCalls') = toolCalls + 1
  BY <1>1, <1>2, <1>3, Emitted DEF event
<1>5. TypeOK'  BY <1>3, <1>4 DEF Inv, TypeOK, ToolCalls
<1>6. AnswerInv'  BY <1>3 DEF Inv, AnswerInv
<1>7. MarkInv'  BY <1>1, <1>2, <1>4 DEF MarkInv
<1>8. Promises'  BY <1>3, NothingReturned DEF Promises, ResultIsOneOfTheExpected,
        BlockedIsNoSuccess, BudgetFailureIsReal, ScoredWithoutRuntimeDir, Returned
<1> QED  BY <1>5, <1>6, <1>7, <1>8 DEF Inv

LEMMA SayInv == ASSUME Inv, NEW event \in Messages \cup {Bad}, Say(event) PROVE Inv'
<1>1. event \in Events /\ event.type # "tool"  BY DEF Events, Messages, Bad
<1>2. /\ pc = "sandbox" /\ Len(events) < MaxEvents /\ Emit(event)
      /\ UNCHANGED <<kind, pc, runtimeDir, toolCalls, answer, result>>
  BY DEF Say
<1>3. toolCalls \in Nat  BY Counted DEF Inv
<1>4. /\ events' \in Seq(Events) /\ Len(events') <= MaxEvents
      /\ \A i \in DOMAIN events : events'[i] = events[i]
      /\ ToolCalls' = ToolCalls
      /\ Cardinality(ToolCalls') = toolCalls
  BY <1>1, <1>2, <1>3, Emitted
<1>5. TypeOK'  BY <1>2, <1>4 DEF Inv, TypeOK, ToolCalls
<1>6. AnswerInv'  BY <1>2 DEF Inv, AnswerInv
<1>7. MarkInv'
  <2>1. \A i \in ToolCalls : events'[i] = events[i]  BY <1>4 DEF ToolCalls
  <2> QED  BY <1>2, <1>4, <2>1 DEF Inv, MarkInv
<1>8. Promises'  BY <1>2 DEF Promises, ResultIsOneOfTheExpected,
        BlockedIsNoSuccess, BudgetFailureIsReal, ScoredWithoutRuntimeDir, Returned
<1> QED  BY <1>5, <1>6, <1>7, <1>8 DEF Inv

-----------------------------------------------------------------------------
\* A step that leaves the stream alone keeps the count and the mark.
LEMMA StreamKept ==
    ASSUME Inv, UNCHANGED <<toolCalls, events>> PROVE MarkInv'
BY DEF Inv, MarkInv, ToolCalls

LEMMA SandboxFacts ==
    \A a \in SandboxResults \cup SandboxFailures :
        /\ a \in Answers /\ a.got \in {"result", "sandbox_error", "exception"}
        /\ a.got = "result" => a \in SandboxResults
BY DEF SandboxResults, SandboxFailures, NoAnswer, Answers, Bodies

LEMMA SetupInv == ASSUME Inv, Setup \/ SetupFails \/ SandboxEnds PROVE Inv'
<1>1. /\ UNCHANGED <<kind, toolCalls, events>>
      /\ runtimeDir' \in BOOLEAN
      /\ \/ pc' = "sandbox" /\ UNCHANGED <<answer, result>>
         \/ pc' = "done" /\ result' = <<Raised>> /\ UNCHANGED answer
         \/ /\ pc' = "cleanup" /\ UNCHANGED result
            /\ answer' \in SandboxResults \cup SandboxFailures
      /\ pc # "done"
  BY DEF Setup, SetupFails, SandboxEnds, Inv, TypeOK
<1>2. answer' \in Answers  BY <1>1, SandboxFacts DEF Inv, TypeOK
<1>3. TypeOK'  BY <1>1, <1>2 DEF Inv, TypeOK
<1>4. kind' = kind  BY <1>1
<1>5. AnswerInv'  BY <1>1 DEF Inv, AnswerInv, SandboxResults, SandboxFailures
<1>6. ~Returned'  BY <1>1 DEF Returned
<1>7. Promises'
  BY <1>6 DEF Promises, ResultIsOneOfTheExpected, BlockedIsNoSuccess, BudgetFailureIsReal,
              ScoredWithoutRuntimeDir
<1> QED  BY <1>1, <1>3, <1>5, <1>7, StreamKept DEF Inv

LEMMA FailedFacts ==
    ASSUME NEW provenance \in BOOLEAN
    PROVE /\ Failed("environment", provenance) \in SandboxedResults
          /\ Failed("environment", provenance).failure_kind = "environment"
BY DEF Failed, SandboxedResults, HarnessResult, FailureKinds, None

\* A result is one that the run expects; the other promises follow from what the
\* stream says.
LEMMA DoneInv ==
    ASSUME Inv, NEW outcome, Done(outcome), UNCHANGED <<kind, toolCalls, events, answer>>,
           runtimeDir' \in BOOLEAN,
           outcome = Raised \/
              /\ outcome \in SandboxedResults
              /\ kind = "pi" /\ Cardinality({events[i].id : i \in ToolCalls}) > MaxToolCalls
                    => outcome.failure_kind # None
              /\ outcome.failure_kind = "tool_budget" => toolCalls > MaxToolCalls
              /\ runtimeDir' => outcome.failure_kind = "environment"
    PROVE Inv'
<1>1. pc' = "done" /\ result' = <<outcome>>  BY DEF Done
<1>2. outcome = Raised \/ outcome \in HarnessResult  BY DEF SandboxedResults
<1>3. TypeOK'  BY <1>1, <1>2 DEF Inv, TypeOK
<1>4. AnswerInv'  BY <1>1 DEF AnswerInv
<1>5. result'[1] = outcome  BY <1>1
<1>6. Promises'
  <2>1. CASE outcome = Raised
    <3>1. ~Returned'  BY <1>1, <2>1 DEF Returned
    <3> QED  BY <3>1 DEF Promises, ResultIsOneOfTheExpected, BlockedIsNoSuccess,
                         BudgetFailureIsReal, ScoredWithoutRuntimeDir
  <2>2. CASE outcome # Raised
    BY <1>5, <2>2 DEF Promises, ResultIsOneOfTheExpected, BlockedIsNoSuccess,
                      BudgetFailureIsReal, ScoredWithoutRuntimeDir, ToolCalls
  <2> QED  BY <2>1, <2>2
<1> QED  BY <1>3, <1>4, <1>6, StreamKept DEF Inv

LEMMA RemoveRuntimeDirInv == ASSUME Inv, RemoveRuntimeDir PROVE Inv'
<1>1. CASE answer.got = "exception"
  <2>1. /\ Done(Raised) /\ UNCHANGED <<kind, toolCalls, events, answer>>
        /\ runtimeDir' \in BOOLEAN
    BY <1>1 DEF RemoveRuntimeDir
  <2> QED  BY <2>1, DoneInv
<1>2. CASE answer.got # "exception"
  <2>1. /\ pc = "cleanup" /\ pc' = "decide" /\ runtimeDir' = FALSE
        /\ UNCHANGED <<kind, toolCalls, events, answer, result>>
    BY <1>2 DEF RemoveRuntimeDir
  <2>2. TypeOK'  BY <2>1 DEF Inv, TypeOK
  <2>3. AnswerInv'
    <3>1. SandboxResults' = SandboxResults /\ SandboxFailures' = SandboxFailures
      BY <2>1 DEF SandboxResults, SandboxFailures
    <3> QED  BY <1>2, <2>1, <3>1 DEF Inv, AnswerInv
  <2>4. Promises'
    BY <2>1 DEF Promises, ResultIsOneOfTheExpected, BlockedIsNoSuccess,
                BudgetFailureIsReal, ScoredWithoutRuntimeDir, Returned
  <2> QED  BY <2>1, <2>2, <2>3, <2>4, StreamKept DEF Inv
<1> QED  BY <1>1, <1>2

LEMMA RemoveFailsInv == ASSUME Inv, RemoveFails PROVE Inv'
<1> DEFINE outcome == IF answer.got = "exception" THEN Raised
                      ELSE Failed("environment", answer.sandbox)
<1>1. /\ Done(outcome) /\ UNCHANGED <<kind, runtimeDir, toolCalls, events, answer>>
      /\ answer \in Answers /\ runtimeDir \in BOOLEAN
  BY DEF RemoveFails, Inv, TypeOK
<1>2. answer.sandbox \in BOOLEAN  BY <1>1 DEF Answers
<1>3. outcome = Raised \/ /\ outcome \in SandboxedResults
                          /\ outcome.failure_kind = "environment"
  BY <1>2, FailedFacts
<1> HIDE DEF outcome
<1> QED  BY <1>1, <1>3, DoneInv DEF None

-----------------------------------------------------------------------------
\* The two orders of conditions keep to what the run relies on.
LEMMA RawFacts ==
    ASSUME answer \in SandboxResults, kind = "raw-ollama"
    PROVE RawResult \in SandboxedResults /\ RawResult.failure_kind # "tool_budget"
BY DEF RawResult, Reported, Failed, SandboxResults, Answers, Bodies, SandboxedResults,
       HarnessResult, FailureKinds, None

LEMMA PiFacts ==
    ASSUME answer \in SandboxResults, kind = "pi"
    PROVE /\ PiResult \in SandboxedResults
          /\ PiResult.failure_kind = "tool_budget" => ToolBudgetError
          /\ PiResult.failure_kind = None => ~Malformed /\ ~ToolBudgetError
<1>1. /\ answer.exit_code \in {0, 1} /\ answer.timed_out \in BOOLEAN
      /\ answer.output_limited \in BOOLEAN /\ answer.sandbox = TRUE
      /\ ~(answer.timed_out /\ answer.output_limited)
  BY DEF SandboxResults, Answers
<1>2. CASE answer.timed_out \/ answer.output_limited
  <2>1. PiResult = Reported(answer.exit_code, "environment")  BY <1>2 DEF PiResult
  <2> QED  BY <1>1, <1>2, <2>1 DEF Reported, SandboxedResults, HarnessResult, FailureKinds, None
<1>3. CASE ~answer.timed_out /\ ~answer.output_limited
  <2>1. \/ PiResult = Reported(1, "environment")
        \/ PiResult = Reported(1, "tool_budget") /\ ToolBudgetError
        \/ PiResult = Reported(1, "model_runtime")
        \/ /\ PiResult = Reported(answer.exit_code, IF answer.exit_code = 0 THEN None ELSE "environment")
           /\ ~Malformed /\ ~ToolBudgetError
    BY <1>3 DEF PiResult
  <2>2. \A e \in {0, 1}, k \in FailureKinds : (k = None <=> e = 0) =>
           Reported(e, k) \in SandboxedResults /\ Reported(e, k).failure_kind = k
    BY <1>1, <1>3 DEF Reported, SandboxedResults, HarnessResult, FailureKinds, None
  <2> USE <1>1, <2>2 DEF FailureKinds, None
  <2>3. CASE PiResult = Reported(1, "environment")  BY <2>3
  <2>4. CASE PiResult = Reported(1, "tool_budget") /\ ToolBudgetError  BY <2>4
  <2>5. CASE PiResult = Reported(1, "model_runtime")  BY <2>5
  <2>6. CASE /\ PiResult = Reported(answer.exit_code, IF answer.exit_code = 0 THEN None ELSE "environment")
             /\ ~Malformed /\ ~ToolBudgetError
    BY <2>6
  <2> QED  BY <2>1, <2>3, <2>4, <2>5, <2>6
<1> QED  BY <1>1, <1>2, <1>3

\* Without a bad line every call is looked at; a budget error needs more calls than
\* the budget.
LEMMA BudgetFacts ==
    ASSUME Inv
    PROVE /\ ToolBudgetError => toolCalls > MaxToolCalls
          /\ ~Malformed /\ ~ToolBudgetError =>
                ~(Cardinality({events[i].id : i \in ToolCalls}) > MaxToolCalls)
<1> DEFINE S == {j \in Parsed : events[j].type = "tool"}
           ids == {t.id : t \in ParsedOf("tool")}
<1>1. ids = {events[i].id : i \in S}  BY DEF ParsedOf
<1>2. S \subseteq ToolCalls  BY DEF Parsed, ToolCalls
<1>3. toolCalls \in Nat  BY Counted DEF Inv
<1>4. IsFiniteSet(ToolCalls)
  <2>1. DOMAIN events = 1..Len(events) /\ Len(events) \in Nat  BY DEF Inv, TypeOK
  <2>2. IsFiniteSet(1..Len(events))  BY <2>1, FS_Interval
  <2> QED  BY <2>1, <2>2, FS_Subset DEF ToolCalls
<1>5. \A U \in SUBSET ToolCalls :
         /\ Cardinality({events[i].id : i \in U}) <= toolCalls
         /\ Cardinality({events[i].id : i \in U}) \in Nat
  <2> SUFFICES ASSUME NEW U \in SUBSET ToolCalls
               PROVE /\ Cardinality({events[i].id : i \in U}) <= toolCalls
                     /\ Cardinality({events[i].id : i \in U}) \in Nat
    OBVIOUS
  <2> DEFINE T == {events[i].id : i \in U}
             f == [i \in U |-> events[i].id]
  <2>1. IsFiniteSet(U)  BY <1>4, FS_Subset
  <2>2. f \in Surjection(U, T)  BY DEF Surjection
  <2>3. Cardinality(T) \in Nat  BY <2>1, <2>2, FS_Surjection, FS_CardinalityType
  <2> QED  BY <2>3, DistinctIds DEF Inv
<1>6. ASSUME ToolBudgetError PROVE toolCalls > MaxToolCalls
  <2>1. Cardinality(ids) > MaxToolCalls  BY <1>6 DEF ToolBudgetError
  <2>2. Cardinality(ids) <= toolCalls /\ Cardinality(ids) \in Nat  BY <1>1, <1>2, <1>5
  <2> QED  BY <1>3, <2>1, <2>2
<1>7. ASSUME ~Malformed, Cardinality({events[i].id : i \in ToolCalls}) > MaxToolCalls
      PROVE ToolBudgetError
  <2>1. S = ToolCalls  BY <1>7 DEF Malformed, ToolCalls
  <2>2. Cardinality(ids) > MaxToolCalls  BY <1>1, <1>7, <2>1
  <2>3. toolCalls > MaxToolCalls  BY <1>3, <1>5, <1>7
  <2>4. PICK i \in ToolCalls : events[i].error /\ events[i].marker
    BY <2>3 DEF Inv, MarkInv
  <2>5. events[i] \in ParsedOf("tool")  BY <2>1, <2>4 DEF ParsedOf
  <2> QED  BY <2>2, <2>4, <2>5 DEF ToolBudgetError
<1> QED  BY <1>6, <1>7

LEMMA DecideInv == ASSUME Inv, Decide PROVE Inv'
<1>1. /\ pc = "decide" /\ UNCHANGED <<kind, runtimeDir, toolCalls, events, answer>>
      /\ answer \in SandboxResults \cup SandboxFailures
      /\ answer.got # "exception" /\ runtimeDir = FALSE
      /\ kind \in {"raw-ollama", "pi"}
  BY DEF Decide, Inv, AnswerInv, TypeOK
<1>2. runtimeDir' \in BOOLEAN /\ ~runtimeDir'  BY <1>1
<1>3. CASE answer.got = "sandbox_error"
  <2>1. Done(Failed("environment", answer.sandbox))  BY <1>3 DEF Decide
  <2>2. answer.sandbox \in BOOLEAN  BY <1>1, SandboxFacts DEF Answers
  <2> DEFINE outcome == Failed("environment", answer.sandbox)
  <2>3. outcome \in SandboxedResults /\ outcome.failure_kind = "environment"
    BY <2>2, FailedFacts
  <2> HIDE DEF outcome
  <2> QED  BY <1>1, <1>2, <2>1, <2>3, DoneInv DEF None, outcome
<1>4. CASE answer.got # "sandbox_error"
  <2>1. answer \in SandboxResults  BY <1>1, <1>4, SandboxFacts
  <2>2. CASE kind = "pi"
    <3>1. Done(PiResult)  BY <1>4, <2>2 DEF Decide
    <3> QED  BY <1>1, <1>2, <2>1, <2>2, <3>1, PiFacts, BudgetFacts, DoneInv
  <2>3. CASE kind = "raw-ollama"
    <3>1. Done(RawResult)  BY <1>4, <2>3 DEF Decide
    <3> QED  BY <1>1, <1>2, <2>1, <2>3, <3>1, RawFacts, DoneInv
  <2> QED  BY <1>1, <2>2, <2>3
<1> QED  BY <1>3, <1>4

-----------------------------------------------------------------------------
\* Every step keeps the invariant.
LEMMA Inductive == Inv /\ [Next]_vars => Inv'
<1> SUFFICES ASSUME Inv, [Next]_vars PROVE Inv'  OBVIOUS
<1>1. CASE Agent  BY <1>1, ToolCallInv, SayInv DEF Agent
<1>2. CASE Setup \/ SetupFails \/ SandboxEnds  BY <1>2, SetupInv
<1>3. CASE RemoveRuntimeDir \/ RemoveFails \/ Decide
  BY <1>3, RemoveRuntimeDirInv, RemoveFailsInv, DecideInv
<1>4. CASE UNCHANGED vars
  <2> USE <1>4 DEF vars
  <2>1. TypeOK' /\ AnswerInv'
    BY DEF Inv, TypeOK, AnswerInv, SandboxResults, SandboxFailures
  <2>2. Promises'
    BY DEF Inv, Promises, ResultIsOneOfTheExpected, BlockedIsNoSuccess,
           BudgetFailureIsReal, ScoredWithoutRuntimeDir, Returned
  <2> QED  BY <2>1, <2>2, StreamKept DEF Inv
<1> QED  BY <1>1, <1>2, <1>3, <1>4 DEF Next, Finished

LEMMA Invariance == Spec => []Inv
<1>1. Init => Inv  BY InitInv
<1>2. Inv /\ [Next]_vars => Inv'  BY Inductive
<1> QED  BY <1>1, <1>2, PTL DEF Spec

\* Every variable keeps its type, and the extension counts each call of the stream.
THEOREM TypeCorrect == Spec => []TypeOK
<1>1. Inv => TypeOK  BY DEF Inv
<1> QED  BY <1>1, Invariance, PTL

\* Both harnesses return only what the run's classification relies on.
THEOREM Expected == Spec => []ResultIsOneOfTheExpected
<1>1. Inv => ResultIsOneOfTheExpected  BY DEF Inv, Promises
<1> QED  BY <1>1, Invariance, PTL

\* A run whose agent had a call blocked is no success: the mark is in the stream, and
\* a stream that was not read to its end is a failure of its own.
THEOREM BlockedFails == Spec => []BlockedIsNoSuccess
<1>1. Inv => BlockedIsNoSuccess  BY DEF Inv, Promises
<1> QED  BY <1>1, Invariance, PTL

\* A budget failure means that a call was blocked: there are never more distinct ids
\* than calls.
THEOREM BudgetReal == Spec => []BudgetFailureIsReal
<1>1. Inv => BudgetFailureIsReal  BY DEF Inv, Promises
<1> QED  BY <1>1, Invariance, PTL

\* The harness's directory is gone when its result may be scored.
THEOREM NoRuntimeDir == Spec => []ScoredWithoutRuntimeDir
<1>1. Inv => ScoredWithoutRuntimeDir  BY DEF Inv, Promises
<1> QED  BY <1>1, Invariance, PTL

-----------------------------------------------------------------------------
(* The harness is the part of RunLifecycle's run that it claims to be.     *)

\* A call ends with a result of a sandboxed harness or with an exception.
LEMMA EndsInOneStep ==
    ASSUME Inv, Inv', pc # "done", pc' = "done", UNCHANGED kind
    PROVE  \/ PlaceInRun' = "collect" /\ HarnessResultInRun' \in SandboxedResults
           \/ PlaceInRun' = "finally" /\ HarnessResultInRun' = NoHarnessResult
<1>1. Returned' => result'[1] \in SandboxedResults
  BY DEF Inv, Promises, ResultIsOneOfTheExpected
<1> QED  BY <1>1 DEF PlaceInRun, HarnessResultInRun

\* IsPartOfTheRun (pi_harness.py and ollama_harness.py, execute; service.py, lines
\* 170-194): for any budget and any stream, a call of a harness is to the run one
\* Execute of RunLifecycle or one step that raises.
THEOREM PartOfTheRun == Spec => IsPartOfTheRun
<1> DEFINE A == Run!Execute("r") \/ Run!StepRaises("r")
<1>1. ASSUME Inv, Inv', [Next]_vars PROVE [A]_(Run!vars)
  <2>1. ASSUME UNCHANGED <<kind, PlaceInRun, HarnessResultInRun>>
        PROVE  UNCHANGED Run!vars
    BY <2>1 DEF Run!vars, Run!locals, Run!stores, OfRun
  <2>2. CASE UNCHANGED vars
    <3>1. UNCHANGED <<kind, PlaceInRun, HarnessResultInRun>>
      BY <2>2 DEF vars, PlaceInRun, HarnessResultInRun, Returned
    <3> QED  BY <2>1, <3>1
  <2>3. CASE pc # "done" /\ pc' # "done" /\ kind' = kind
    <3>1. UNCHANGED <<kind, PlaceInRun, HarnessResultInRun>>
      BY <2>3 DEF PlaceInRun, HarnessResultInRun, Returned
    <3> QED  BY <2>1, <3>1
  <2>4. CASE pc # "done" /\ pc' = "done" /\ kind' = kind
    <3>1. PlaceInRun = "execute" /\ HarnessResultInRun = NoHarnessResult
      BY <2>4 DEF PlaceInRun, HarnessResultInRun, Returned
    <3>2. kind \in {"raw-ollama", "pi"}  BY <1>1 DEF Inv, TypeOK
    <3>3. CASE /\ PlaceInRun' = "collect" /\ HarnessResultInRun' \in SandboxedResults
      <4>1. /\ Run!ResultsOf(kind) = SandboxedResults
            /\ HarnessResultInRun'.sandbox \in BOOLEAN
        BY <3>2, <3>3 DEF Run!ResultsOf, Run!SandboxedResults, SandboxedResults,
           Run!HarnessResult, HarnessResult, Run!FailureKinds, FailureKinds,
           Run!None, None
      <4>2. Run!Execute("r")
        BY <2>4, <3>1, <3>2, <3>3, <4>1
           DEF Run!Execute, Run!WithSandbox, Run!Goto, Run!stores, OfRun,
               NoHarnessResult
      <4> QED  BY <4>2
    <3>4. CASE /\ PlaceInRun' = "finally" /\ HarnessResultInRun' = NoHarnessResult
      <4>1. Run!StepRaises("r")
        BY <2>4, <3>1, <3>4 DEF Run!StepRaises, Run!Goto, Run!stores, OfRun
      <4> QED  BY <4>1
    <3> QED  BY <1>1, <2>4, <3>3, <3>4, EndsInOneStep
  <2> QED
    BY <1>1, <2>2, <2>3, <2>4
       DEF Next, Setup, SetupFails, Agent, ToolCall, Say, SandboxEnds, Finished,
           RemoveRuntimeDir, RemoveFails, Decide, Done
<1> QED  BY <1>1, Invariance, PTL DEF Spec, IsPartOfTheRun
=============================================================================
