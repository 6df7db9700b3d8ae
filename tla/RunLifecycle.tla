--------------------------- MODULE RunLifecycle ---------------------------
(***************************************************************************)
(* One benchmark run, from LabService._run_resolved: a run row is opened   *)
(* in SQLite, a Git worktree is prepared, a harness works in it, the diff  *)
(* is taken and scored, the worktree is destroyed, the evidence is written *)
(* file by file, and one transaction closes the row.  Every step can fail; *)
(* an operator can interrupt the process (KeyboardInterrupt, which no      *)
(* `except Exception` sees) and the process can die.                       *)
(*                                                                         *)
(* Three stores outlive the process: the row (SQLite), the worktree (Git)  *)
(* and the files (artifact store).  No transaction spans them, so what     *)
(* they say about each other is what the properties below are about.       *)
(***************************************************************************)
EXTENDS Outcome, FiniteSets

CONSTANTS
    Runs,     \* the runs, each started once under an id of its own
    Scorers   \* the task's scorers, by category, in order

ASSUME ScorersAssumption == Scorers \in Seq(Categories)

VARIABLES
    pc,           \* where the run is
    kind,         \* the harness its configuration names
    \* locals of _run_resolved
    workspace,    \* workspace is not None
    harness,      \* harness_result
    provenance,   \* whether it holds sandbox provenance; its reproducible flag
    scores,
    failure,      \* the parts the failure text is put together from
    cleanup,      \* cleanup_succeeded
    verdict,      \* classification, status and termination reason
    pending,      \* files _persist_artifacts has still to write
    artifacts,    \* files it has written, the result's artifacts
    interrupted,  \* a KeyboardInterrupt is unwinding through the finally block
    \* what outlives the process
    experiment,   \* the experiment row exists
    row,          \* the run row
    worktree,     \* the worktree exists on disk
    files         \* the run's artifact directory

locals == <<workspace, harness, provenance, scores, failure, cleanup, verdict,
            pending, artifacts, interrupted>>
stores == <<experiment, row, worktree, files>>
vars   == <<pc, kind, locals, stores>>

-----------------------------------------------------------------------------
Kinds == {"fake", "raw-ollama", "pi"}

\* The inputs a harness of a kind hands back to the run.
ResultsOf(k) == IF k = "fake" THEN FakeResults ELSE SandboxedResults

Statuses == {"absent", "running", "succeeded", "failed"}
Reasons  == {None, "timeout", "failure", "completed", "artifact"}
              \cup FailureKinds
Failures == SUBSET {"execution", "scorer", "cleanup", "artifact"}

FileNames == {"resolved-config.json", "provenance.json",
              "harness-execution.json", "patch.diff", "scorer-results.json",
              "failure.json", "manifest.json"}

\* Mutant: the manifest goes first.
RankManifestFirst(name) == IF name = "manifest.json" THEN 0 ELSE 1

\* The order of the payloads dict; the manifest is put after all of them.
Rank(name) ==
    CASE name = "resolved-config.json"   -> 1
      [] name = "provenance.json"        -> 2
      [] name = "harness-execution.json" -> 3
      [] name = "patch.diff"             -> 4
      [] name = "scorer-results.json"    -> 5
      [] name = "failure.json"           -> 6
      [] OTHER                           -> 7

\* A file on disk: absent, cut short, or intact and holding what the run
\* believed when it was written.
Content == [state: {"absent", "partial", "intact"},
            classification: Classifications \cup {None},
            cleanup: BOOLEAN, reproducible: BOOLEAN]

Absent  == [state |-> "absent", classification |-> None,
            cleanup |-> FALSE, reproducible |-> FALSE]
Partial == [Absent EXCEPT !.state = "partial"]

Row == [status: Statuses, classification: Classifications \cup {None},
        reason: Reasons, cleanup: BOOLEAN, failure: Failures,
        artifacts: SUBSET FileNames, reproducible: BOOLEAN]

AbsentRow == [status |-> "absent", classification |-> None, reason |-> None,
              cleanup |-> FALSE, failure |-> {}, artifacts |-> {},
              reproducible |-> FALSE]

Provenance == [sandbox: BOOLEAN, reproducible: BOOLEAN]

Verdict == [classification: Classifications \cup {None},
            status: {None, "succeeded", "failed"}, reason: Reasons]

Undecided == [classification |-> None, status |-> None, reason |-> None]

\* In the try block of _run_resolved, where its finally block is still due.
Guarded  == {"prepare", "execute", "collect", "score"}
Terminal == {"returned", "raised", "dead"}
Places   == {"idle", "create_experiment", "create_run", "finally", "classify",
             "persist", "complete"} \cup Guarded \cup Terminal

Completed(r) == row[r].status \in {"succeeded", "failed"}

-----------------------------------------------------------------------------
TypeOK ==
    /\ pc \in [Runs -> Places]
    /\ kind \in [Runs -> Kinds]
    /\ workspace \in [Runs -> BOOLEAN]
    /\ harness \in [Runs -> HarnessResult]
    /\ provenance \in [Runs -> Provenance]
    /\ scores \in [Runs -> Seq(ScoreResult)]
    /\ failure \in [Runs -> Failures]
    /\ cleanup \in [Runs -> BOOLEAN]
    /\ verdict \in [Runs -> Verdict]
    /\ pending \in [Runs -> SUBSET FileNames]
    /\ artifacts \in [Runs -> SUBSET FileNames]
    /\ interrupted \in [Runs -> BOOLEAN]
    /\ experiment \in [Runs -> BOOLEAN]
    /\ row \in [Runs -> Row]
    /\ worktree \in [Runs -> BOOLEAN]
    /\ files \in [Runs -> [FileNames -> Content]]

Init ==
    /\ pc = [r \in Runs |-> "idle"]
    /\ kind \in [Runs -> Kinds]
    /\ workspace = [r \in Runs |-> FALSE]
    /\ harness = [r \in Runs |-> NoHarnessResult]
    /\ provenance = [r \in Runs |-> [sandbox |-> FALSE, reproducible |-> TRUE]]
    /\ scores = [r \in Runs |-> <<>>]
    /\ failure = [r \in Runs |-> {}]
    /\ cleanup = [r \in Runs |-> FALSE]
    /\ verdict = [r \in Runs |-> Undecided]
    /\ pending = [r \in Runs |-> {}]
    /\ artifacts = [r \in Runs |-> {}]
    /\ interrupted = [r \in Runs |-> FALSE]
    /\ experiment = [r \in Runs |-> FALSE]
    /\ row = [r \in Runs |-> AbsentRow]
    /\ worktree = [r \in Runs |-> FALSE]
    /\ files = [r \in Runs |-> [n \in FileNames |-> Absent]]

Goto(r, place) == pc' = [pc EXCEPT ![r] = place]

-----------------------------------------------------------------------------
(* Before the try block: nothing to undo, an exception just propagates.    *)

\* Mutant: the reproducible flag of a sandboxed run is left at its default.
ResolveLeavingDefault(r) ==
    /\ pc[r] = "idle"
    /\ Goto(r, "create_experiment")
    /\ UNCHANGED <<kind, locals, stores>>

\* Benchmark and fixture are valid, the schema is migrated, the benchmark is
\* recorded and the provenance taken.  Only a fake run starts reproducible.
Resolve(r) ==
    /\ pc[r] = "idle"
    /\ provenance' = [provenance EXCEPT ![r].reproducible = kind[r] = "fake"]
    /\ Goto(r, "create_experiment")
    /\ UNCHANGED <<kind, workspace, harness, scores, failure, cleanup, verdict,
                   pending, artifacts, interrupted, stores>>

CreateExperiment(r) ==
    /\ pc[r] = "create_experiment"
    /\ experiment' = [experiment EXCEPT ![r] = TRUE]
    /\ Goto(r, "create_run")
    /\ UNCHANGED <<kind, locals, row, worktree, files>>

CreateRun(r) ==
    /\ pc[r] = "create_run"
    /\ row' = [row EXCEPT ![r].status = "running"]
    /\ Goto(r, "prepare")
    /\ UNCHANGED <<kind, locals, experiment, worktree, files>>

\* An exception outside the try blocks: each store call is one transaction, so
\* nothing of the failed step stays behind and _run_resolved just raises.
Raise(r) ==
    /\ pc[r] \in {"idle", "create_experiment", "create_run", "complete"}
    /\ Goto(r, "raised")
    /\ UNCHANGED <<kind, locals, stores>>

-----------------------------------------------------------------------------
(* The try block.                                                          *)

\* GitWorktreeManager.prepare
Prepare(r) ==
    /\ pc[r] = "prepare"
    /\ worktree' = [worktree EXCEPT ![r] = TRUE]
    /\ workspace' = [workspace EXCEPT ![r] = TRUE]
    /\ Goto(r, "execute")
    /\ UNCHANGED <<kind, harness, provenance, scores, failure, cleanup, verdict,
                   pending, artifacts, interrupted, experiment, row, files>>

\* The harness returns.  Sandbox provenance makes a run with a model identity
\* reproducible; every run but a fake one has an identity by now.
WithSandbox(prov, k) ==
    [prov EXCEPT !.sandbox = TRUE, !.reproducible = k # "fake"]

Execute(r) ==
    /\ pc[r] = "execute"
    /\ \E h \in ResultsOf(kind[r]) :
          /\ harness' = [harness EXCEPT ![r] = h]
          /\ provenance' = [provenance EXCEPT ![r] =
                IF h.sandbox THEN WithSandbox(@, kind[r]) ELSE @]
    /\ Goto(r, "collect")
    /\ UNCHANGED <<kind, workspace, scores, failure, cleanup, verdict, pending,
                   artifacts, interrupted, stores>>

CollectDiff(r) ==
    /\ pc[r] = "collect"
    /\ Goto(r, IF Scorers = <<>> THEN "finally" ELSE "score")
    /\ UNCHANGED <<kind, locals, stores>>

\* prepare, execute or collect_diff raises: no score is taken.
StepRaises(r) ==
    /\ pc[r] \in {"prepare", "execute", "collect"}
    /\ failure' = [failure EXCEPT ![r] = @ \cup {"execution"}]
    /\ Goto(r, "finally")
    /\ UNCHANGED <<kind, workspace, harness, provenance, scores, cleanup, verdict,
                   pending, artifacts, interrupted, stores>>

\* One turn of the scorer loop.
Score(r) ==
    /\ pc[r] = "score"
    /\ \E s \in ScoresOf(Scorers[Len(scores[r]) + 1]) :
          scores' = [scores EXCEPT ![r] = Append(@, s)]
    /\ Goto(r, IF Len(scores'[r]) = Len(Scorers) THEN "finally" ELSE "score")
    /\ UNCHANGED <<kind, workspace, harness, provenance, failure, cleanup, verdict,
                   pending, artifacts, interrupted, stores>>

\* Mutant: the loop ends without a score for the scorer that raised.
ScorerRaisesUnscored(r) ==
    /\ pc[r] = "score"
    /\ Goto(r, "finally")
    /\ UNCHANGED <<kind, locals, stores>>

\* A scorer that cannot be built or raises ends the loop with an error score.
ScorerRaises(r) ==
    /\ pc[r] = "score"
    /\ scores' = [scores EXCEPT ![r] = Append(@, RaisedScore)]
    /\ failure' = [failure EXCEPT ![r] = @ \cup {"scorer"}]
    /\ Goto(r, "finally")
    /\ UNCHANGED <<kind, workspace, harness, provenance, cleanup, verdict, pending,
                   artifacts, interrupted, stores>>

-----------------------------------------------------------------------------
(* The finally block, and what follows it.                                 *)

\* A KeyboardInterrupt goes on unwinding; an Exception was caught above.
LeaveFinally(r) == Goto(r, IF interrupted[r] THEN "raised" ELSE "classify")

NothingToDestroy(r) ==
    /\ pc[r] = "finally"
    /\ ~workspace[r]
    /\ LeaveFinally(r)
    /\ UNCHANGED <<kind, locals, stores>>

\* destroy() came back, leaving the worktree there or not, and the finally block
\* noted how it went.
Destroyed(r, left, succeeded, note) ==
    /\ pc[r] = "finally"
    /\ workspace[r]
    /\ worktree' = [worktree EXCEPT ![r] = left]
    /\ cleanup' = [cleanup EXCEPT ![r] = succeeded]
    /\ failure' = [failure EXCEPT ![r] = @ \cup note]
    /\ LeaveFinally(r)
    /\ UNCHANGED <<kind, workspace, harness, provenance, scores, verdict, pending,
                   artifacts, interrupted, experiment, row, files>>

\* GitWorktreeManager.destroy: `worktree remove --force`, then always `prune`.
Destroy(r) == Destroyed(r, FALSE, TRUE, {})

\* Mutant: the flag is set whatever destroy() does.
DestroyFailsUnnoticed(r) == \E left \in BOOLEAN : Destroyed(r, left, TRUE, {})

\* Either command fails: the worktree is still there, or only prune failed.
DestroyFails(r) ==
    \E left \in BOOLEAN : Destroyed(r, left, FALSE, {"cleanup"})

\* Mutant: the scores decide alone.
ClassificationByScores(r) == Classify(harness[r], scores[r])

ClassificationOf(r) ==
    IF cleanup[r] THEN Classify(harness[r], scores[r]) ELSE "environment"

\* failure, completed by the first error a scorer returned without raising.
FailureOf(r) ==
    IF failure[r] = {} /\ \E s \in InRange(scores[r]) : s.error
      THEN {"scorer"} ELSE failure[r]

StatusOf(classification) ==
    IF classification = "success" THEN "succeeded" ELSE "failed"

ReasonOf(h, parts) ==
    IF h.timed_out THEN "timeout"
    ELSE IF parts # {} THEN "failure"
    ELSE IF h.failure_kind # None THEN h.failure_kind
    ELSE "completed"

\* failure.json is one of the payloads unless there is nothing to explain.
Payloads(classification, parts) ==
    IF classification = "success" /\ parts = {}
      THEN FileNames \ {"failure.json"} ELSE FileNames

Judged(r, c, f) ==
    /\ pc[r] = "classify"
    /\ failure' = [failure EXCEPT ![r] = f]
    /\ verdict' = [verdict EXCEPT ![r] =
          [classification |-> c, status |-> StatusOf(c),
           reason |-> ReasonOf(harness[r], f)]]
    /\ pending' = [pending EXCEPT ![r] = Payloads(c, f)]
    /\ Goto(r, "persist")
    /\ UNCHANGED <<kind, workspace, harness, provenance, scores, cleanup, artifacts,
                   interrupted, experiment, worktree, files>>

\* Mutant: the row is closed before the evidence is written.
JudgeAndClose(r) ==
    /\ Judged(r, ClassificationOf(r), FailureOf(r))
    /\ row' = [row EXCEPT ![r].status = StatusOf(ClassificationOf(r))]

Judge(r) ==
    /\ Judged(r, ClassificationOf(r), FailureOf(r))
    /\ UNCHANGED row

-----------------------------------------------------------------------------
(* _persist_artifacts, one put at a time, and complete_run.                *)

Intact(r) ==
    [state |-> "intact", classification |-> verdict[r].classification,
     cleanup |-> cleanup[r], reproducible |-> provenance[r].reproducible]

IsNext(r, name) ==
    name \in pending[r] /\ \A m \in pending[r] : Rank(name) <= Rank(m)

Put(r) ==
    /\ pc[r] = "persist"
    /\ \E name \in FileNames :
          /\ IsNext(r, name)
          /\ files' = [files EXCEPT ![r][name] = Intact(r)]
          /\ artifacts' = [artifacts EXCEPT ![r] = @ \cup {name}]
          /\ pending' = [pending EXCEPT ![r] = @ \ {name}]
          /\ Goto(r, IF pending[r] = {name} THEN "complete" ELSE "persist")
    /\ UNCHANGED <<kind, workspace, harness, provenance, scores, failure, cleanup,
                   verdict, interrupted, experiment, row, worktree>>

\* A put that ends early leaves its file out or cut short.
CutShort(r) ==
    \E name \in FileNames :
        /\ IsNext(r, name)
        /\ \E c \in {Absent, Partial} : files' = [files EXCEPT ![r][name] = c]

PersistFailed(r, kept) ==
    /\ pc[r] = "persist"
    /\ CutShort(r)
    /\ failure' = [failure EXCEPT ![r] = @ \cup {"artifact"}]
    /\ verdict' = [verdict EXCEPT ![r] =
          [classification |-> "environment", status |-> "failed",
           reason |-> "artifact"]]
    /\ artifacts' = [artifacts EXCEPT ![r] = kept]
    /\ pending' = [pending EXCEPT ![r] = {}]
    /\ Goto(r, "complete")
    /\ UNCHANGED <<kind, workspace, harness, provenance, scores, cleanup,
                   interrupted, experiment, row, worktree>>

\* Mutants: the references written so far are kept; a failed put is retried.
PutFailsKeepingReferences(r) == PersistFailed(r, artifacts[r])
PutRetries(r) ==
    /\ pc[r] = "persist"
    /\ CutShort(r)
    /\ UNCHANGED <<pc, kind, locals, experiment, row, worktree>>

\* The except clause around _persist_artifacts replaces the verdict and drops
\* the references; the files already written stay.
PutFails(r) == PersistFailed(r, {})

\* complete_run: one transaction, refused unless the row is still running.
Complete(r) ==
    /\ pc[r] = "complete"
    /\ row[r].status = "running"
    /\ row' = [row EXCEPT ![r] =
          [status |-> verdict[r].status,
           classification |-> verdict[r].classification,
           reason |-> verdict[r].reason, cleanup |-> cleanup[r],
           failure |-> failure[r], artifacts |-> artifacts[r],
           reproducible |-> provenance[r].reproducible]]
    /\ Goto(r, "returned")
    /\ UNCHANGED <<kind, locals, experiment, worktree, files>>

-----------------------------------------------------------------------------
(* What stops a run from outside.                                          *)

\* What the step under way may have done to the stores when it is cut off:
\* a worktree added or removed, the next file begun.  A cut-off transaction
\* did nothing, or everything: then the cut came at the next place.
CutOff(r) ==
    /\ \/ worktree' = worktree
       \/ pc[r] = "prepare" /\ worktree' = [worktree EXCEPT ![r] = TRUE]
       \/ pc[r] = "finally" /\ workspace[r]
            /\ worktree' = [worktree EXCEPT ![r] = FALSE]
    /\ \/ files' = files
       \/ pc[r] = "persist" /\ CutShort(r)
    /\ UNCHANGED <<experiment, row>>

\* Ctrl-C.  Inside the try block it runs the finally block first; within the
\* finally block, or after it, nothing more is done.
Interrupt(r) ==
    /\ pc[r] \notin Terminal
    /\ CutOff(r)
    /\ interrupted' = [interrupted EXCEPT ![r] = TRUE]
    /\ Goto(r, IF pc[r] \in Guarded THEN "finally" ELSE "raised")
    /\ UNCHANGED <<kind, workspace, harness, provenance, scores, failure, cleanup,
                   verdict, pending, artifacts>>

\* The process dies: no block of it runs any more.
Crash(r) ==
    /\ pc[r] \notin Terminal
    /\ CutOff(r)
    /\ Goto(r, "dead")
    /\ UNCHANGED <<kind, locals>>

-----------------------------------------------------------------------------
Step(r) ==
    \/ Resolve(r) \/ CreateExperiment(r) \/ CreateRun(r) \/ Raise(r)
    \/ Prepare(r) \/ Execute(r) \/ CollectDiff(r) \/ StepRaises(r)
    \/ Score(r) \/ ScorerRaises(r)
    \/ NothingToDestroy(r) \/ Destroy(r) \/ DestroyFails(r)
    \/ Judge(r) \/ Put(r) \/ PutFails(r) \/ Complete(r)

Finished ==
    /\ \A r \in Runs : pc[r] \in Terminal
    /\ UNCHANGED vars

Next ==
    \/ \E r \in Runs : Step(r) \/ Interrupt(r) \/ Crash(r)
    \/ Finished

\* Every command the run waits for ends: harness and scorers have timeouts,
\* Git and SQLite are local.  Nobody has to interrupt a run or kill it.
Fairness == \A r \in Runs : WF_vars(Step(r))

Spec == Init /\ [][Next]_vars /\ Fairness

-----------------------------------------------------------------------------
(* Properties.                                                             *)

\* A row that says the worktree was cleaned up tells the truth, and so does a
\* manifest: neither Git nor the run can bring the worktree back afterwards.
CleanupIsTruthful ==
    \A r \in Runs :
        /\ Completed(r) /\ row[r].cleanup => ~worktree[r]
        /\ files[r]["manifest.json"].cleanup => ~worktree[r]

\* "succeeded" is only ever written for a run whose harness ended well, whose
\* scorers all ran and passed, whose worktree is gone and whose evidence is
\* complete on disk; and every such run is written down as "succeeded".
Earned(r) ==
    /\ harness[r].exit_code = 0 /\ harness[r].failure_kind = None
    /\ ~harness[r].timed_out
    /\ Len(scores[r]) = Len(Scorers) /\ Scorers # <<>>
    /\ \A s \in InRange(scores[r]) : s.passed /\ ~s.error
    /\ ~worktree[r] /\ failure[r] = {}
    /\ \A n \in FileNames \ {"failure.json"} : files[r][n].state = "intact"

SuccessIsEarned ==
    \A r \in Runs :
        /\ row[r].status = "succeeded" =>
              /\ Earned(r)
              /\ row[r].classification = "success" /\ row[r].reason = "completed"
        /\ Completed(r) /\ Earned(r) => row[r].status = "succeeded"

\* What a completed row references is on disk, whole, and says what the row
\* says: the artifact store and the database are two stores with no common
\* transaction, so the row is written last.  A row references its manifest and
\* all its files, or nothing.
RowMatchesEvidence ==
    \A r \in Runs : Completed(r) =>
        /\ row[r].artifacts # {} => "manifest.json" \in row[r].artifacts
        /\ "manifest.json" \in row[r].artifacts =>
              ("failure.json" \in row[r].artifacts <=>
                  row[r].status = "failed" \/ row[r].failure # {})
        /\ \A n \in row[r].artifacts :
              /\ files[r][n].state = "intact"
              /\ files[r][n].classification = row[r].classification
              /\ files[r][n].cleanup = row[r].cleanup
              /\ files[r][n].reproducible = row[r].reproducible

\* A manifest that survives on disk, whatever became of the process, closes a
\* complete set of files that agree with it: it is put after all of them.
ManifestClosesTheSet ==
    \A r \in Runs : LET m == files[r]["manifest.json"] IN
        m.state = "intact" =>
            /\ \A n \in FileNames \ {"failure.json"} : files[r][n] = m
            /\ files[r]["failure.json"] \in {Absent, m}
            /\ m.classification # "success" => files[r]["failure.json"] = m

\* A cleanup failure outweighs every score: a completed run whose worktree is
\* still there is an environment failure that says so.
LeakIsConfessed ==
    \A r \in Runs : Completed(r) /\ worktree[r] =>
        /\ row[r].classification = "environment" /\ row[r].status = "failed"
        /\ "cleanup" \in row[r].failure

\* An environment failure always has its cause on record: a failure text, or
\* the harness's own report of it.
EnvironmentIsExplained ==
    \A r \in Runs : Completed(r) /\ row[r].classification = "environment" =>
        row[r].failure # {} \/ harness[r].failure_kind = "environment"

\* Only a fake run, or one whose harness brought back the sandbox it ran in,
\* is recorded as reproducible.
ReproducibleIsEarned ==
    \A r \in Runs : Completed(r) /\ row[r].reproducible =>
        kind[r] = "fake" \/ harness[r].sandbox

KeepsRows(r) ==
    /\ Completed(r) => row'[r] = row[r] /\ files'[r] = files[r]
                         /\ worktree'[r] = worktree[r]
    /\ row[r].status = "running" => row'[r].status # "absent"
    /\ row[r].status = "absent" => row'[r].status \in {"absent", "running"}

\* complete_run's transaction happens once: an opened row is closed at most
\* once, never reopened or changed, and the evidence behind it stays as it was.
RowIsFinal == [][\A r \in Runs : KeepsRows(r)]_vars

\* A run that was opened ends: its row is closed, or the caller sees the
\* exception, or the process died.
EveryRunEnds ==
    \A r \in Runs :
        row[r].status = "running" ~> Completed(r) \/ pc[r] \in {"raised", "dead"}

\* The most steps a run has still to take.
StepsLeft(r) ==
    CASE pc[r] = "idle"              -> Len(Scorers) + 16
      [] pc[r] = "create_experiment" -> Len(Scorers) + 15
      [] pc[r] = "create_run"        -> Len(Scorers) + 14
      [] pc[r] = "prepare"           -> Len(Scorers) + 13
      [] pc[r] = "execute"           -> Len(Scorers) + 12
      [] pc[r] = "collect"           -> Len(Scorers) + 11
      [] pc[r] = "score"             -> Len(Scorers) - Len(scores[r]) + 10
      [] pc[r] = "finally"           -> 10
      [] pc[r] = "classify"          -> 9
      [] pc[r] = "persist"           -> Cardinality(pending[r]) + 1
      [] pc[r] = "complete"          -> 1
      [] pc[r] \in Terminal          -> 0

\* No step is ever repeated, whatever fails or is interrupted: each brings its run
\* nearer to its end, by a count that starts at 16 and the number of scorers.
RunsGetOn ==
    [][\E r \in Runs : /\ StepsLeft(r)' < StepsLeft(r)
                       /\ \A q \in Runs \ {r} : StepsLeft(q)' = StepsLeft(q)]_vars

\* What a reader of the row and of the manifest sees of a run.
Seen(r) ==
    IF Completed(r) THEN "closed"
    ELSE IF row[r].status = "absent" THEN "none"
    ELSE IF pc[r] \in {"raised", "dead"} THEN "abandoned"
    ELSE "open"

\* The verdict a file or a row repeats.
VerdictIn(x) == [classification |-> x.classification, cleanup |-> x.cleanup,
                 reproducible |-> x.reproducible]

Published(r) ==
    LET m == files[r]["manifest.json"] IN
    VerdictIn(IF m.state = "intact" THEN m ELSE Absent)

Recorded(r) ==
    LET w == IF Completed(r) THEN row[r] ELSE AbsentRow IN
    [classification |-> w.classification, cleanup |-> w.cleanup,
     reproducible |-> w.reproducible, evidence |-> w.artifacts # {}]

Contract == INSTANCE RunContract WITH
    stage    <- [r \in Runs |-> Seen(r)],
    manifest <- [r \in Runs |-> Published(r)],
    record   <- [r \in Runs |-> Recorded(r)]

\* A run keeps its contract: a verdict that has once been published in a manifest
\* is the one that closes the row, if anything does; without one the row is closed
\* as an environment failure that references nothing.
KeepsContract == Contract!ContractSpec

\* docs/adr/0004-git-worktrees.md: "Cleanup is always attempted and its result
\* is persisted".  As written: a prepared run whose process did not die has a
\* row that holds the result of its cleanup.
CleanupResultIsPersisted ==
    \A r \in Runs : pc[r] \in {"returned", "raised"} /\ workspace[r] => Completed(r)
=============================================================================
