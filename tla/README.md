# Capability lab: TLA+ models, checks and proofs

The lab runs a coding agent on a benchmark task and keeps evidence of what
happened. One run opens a row in SQLite, prepares a Git worktree, lets a harness
work in it (a fake one, one request to Ollama, or the Pi agent; the last two inside
Docker), takes the diff, scores it, removes the worktree, writes the evidence file
by file and closes the row. No transaction spans SQLite, Git, the file system and
Docker, any step can fail, and the process can be interrupted or die between any
two. What the four stores say about each other afterwards is the subject here.

Paths below are relative to the repository; `cl/` stands for
`src/capability_lab/`.

## 1. The system

| component | state | operations | used by | modelled in |
|---|---|---|---|---|
| Run lifecycle, `cl/application/service.py` `_run_resolved` | locals of one run (harness result, scores, failure text, cleanup flag, provenance) | one sequence with a `try`/`finally` and a second `try` around the evidence | CLI, comparison | RunLifecycle |
| Outcome rules, `cl/domain/rules.py`, `models.py` | none | `classify` | run lifecycle | Outcome |
| Sandbox, `cl/adapters/sandboxes.py` `execute` | Docker volume, relay and sandbox container under derived names, with an owner label; `owned_resources`, `cleanup_errors` | create, verify, attach, clean up | Pi and raw harness | Sandbox |
| Attached run, `sandboxes.py` `_run_attached` | two pipes, a kill process, deadlines, captured bytes | read loop with two limits | sandbox | AttachedRun |
| Artifact store, `cl/adapters/artifacts.py` | blobs by content, one directory per run | `put`, `open` | run lifecycle, comparison | ArtifactStore |
| Harnesses, `pi_harness.py`, `raw_ollama_harness.py`, `harnesses.py` | a runtime directory in the worktree, the tool-call counter in the container | `execute` | run lifecycle | Harness |
| Worktrees, `cl/adapters/workspaces.py` | Git worktrees and their index | `prepare`, `collect_diff`, `destroy` | run lifecycle | RunLifecycle, Evaluation |
| Scorers, `cl/adapters/scorers.py` | none that lasts | `score` | run lifecycle | Evaluation |
| Fixture, `cl/adapters/fixtures.py` | a Git repository made on first use | `ensure_fixture_repository` | every run | Startup |
| Benchmark loading, `cl/adapters/benchmark.py` | none (the benchmark's files) | `load_benchmark`, `validate_fixture_revisions` | every run | Startup |
| Migrations, `migrations/` | the schema and its version | two revisions | `migrate` | Startup |
| Metadata, `cl/adapters/persistence.py` | SQLite rows | `migrate`, `record_benchmark`, `create_experiment`, `create_run`, `complete_run`, `get_run` | run lifecycle | Startup, RunLifecycle |
| Model identity, `cl/adapters/models.py` | none (Ollama's) | `identity` | provenance, doctor | Comparison |
| Comparison, `service.py` `compare`, `comparison_equality` | none | two runs, one equality report, one artifact | CLI | Comparison |
| Configuration | none | pure functions from files to values | CLI, service | no |
| Wiring and doctor, CLI | none | construction, reporting | | no |

The hard behaviour, with its lines, is listed in `PROJECT.json` under "hazards". In
short: failures and interrupts between the stores (service.py 166-258); names that
are not reserved and commands that are carried out after their client gave up
(sandboxes.py 296-334, 440-456); a race of a deadline, an output cap, a kill and a
voluntary exit (167-222); evidence files that become visible before they are
whole (artifacts.py 41-50); two ordered lists of conditions that name the
outcome (rules.py 26-42, pi_harness.py 170-194); a diff taken by several commands over
a worktree that may still change (workspaces.py 43-73); and first use of a fixture, a
schema and a record by several processes at once (fixtures.py 23-50,
persistence.py 140-200).

## 2. The modules

`Outcome` holds the values that decide what a run is called. `RunLifecycle`,
`Harness` and `Evaluation` extend it, and meet in it: `SandboxedResults` is what the
run assumes of a harness, and `Harness` is shown to return nothing else (`IsPartOfTheRun`). In the same
way `Sandbox` is what `Harness` assumes of the sandbox, `AttachedRun` is the one step
`Attached` of `Sandbox`, `ArtifactStore` refines the grain of the step `Put` of
`RunLifecycle`, and `Evaluation` that of its steps `CollectDiff` and `Score`.
`RunContract` is what all of `RunLifecycle` amounts to for a reader of its row and
manifest; `RunLifecycle` implements it, and `Comparison` is built of `Startup` and
of one contract for each of its runs. `SandboxContract` and `PutContract` are the same
for `Sandbox` and `ArtifactStore`. `Harness` and `Evaluation` instantiate `RunLifecycle`
with what they are to the run, and their every step is a step of it or none
(`IsPartOfTheRun`).

**RunContract.** A run is opened, publishes at most one verdict, and is closed at most
once: with that verdict or, when its files could not be written, with an environment
failure without evidence; or it is abandoned and its row says "running" for ever.
`RunLifecycle!Seen` and its neighbours are the refinement mapping: status,
manifest on disk and row.

**RunLifecycle.** One action per step of `_run_resolved`. `Resolve`,
`CreateExperiment` and `CreateRun` come before the `try`; `Prepare`, `Execute`,
`CollectDiff`, `Score` are in it, with `StepRaises` and `ScorerRaises` for their
exceptions; `NothingToDestroy`, `Destroy`, `DestroyFails` are the `finally` block;
`Judge` is the classification up to the termination reason; `Put` and `PutFails` are
`_persist_artifacts` one file at a time and the `except` around it; `Complete` is
`complete_run`. `Interrupt` is Ctrl-C, which no `except Exception` sees: inside the
`try` it runs the `finally` block and goes on unwinding. `Crash` is the death of the
process. Both may leave what the step under way had already done to a store
(`CutOff`). A file holds what the run believed when it wrote it, an exit code is zero
or not, a failure text is the set of its parts. Each run has its own id, row,
worktree and directory, so runs do not touch each other's variables and one run is
enough for TLC; the proofs are for any set of runs.

**Sandbox.** `holder[n]` says whose label the resource named `n` carries. Calls
on workspaces of the same name compete with each other and with `Stranger`, who
creates and removes under the same names at will. Every create and remove can fail at
the client and stay in `creating` or `removing`, from which the daemon may carry it
out later. A removal command resolves a name at once and its late effect is bound to
the resource that had it. `Salvage` is the inspect after a failed create, `Verify`
the one after a successful create, `CheckOwner` and `Remove` the two commands of the
cleanup loop. `OperatorActs` lets someone remove labelled resources behind their
owner's back.

**SandboxContract.** A call has no name, is gathering them, runs, gives them back after a
success or after a failure, and ends clean or otherwise. It is alone with all its names
while it runs, gives back only what it holds, and after a clean end never holds a name
again. `Seen` maps place and outcome of a call to these stages.

**AttachedRun.** The loop of `_run_attached`: `CheckDeadline`, `CheckFails`,
`Check`, `Select`, `Read`, `EndOfStream`, `EndTurn`, then `AfterLoop`,
`WaitForClient`, `Finally`; then `_reap`, for `docker kill` first and for the client second:
`Terminate`, `SendKill`, `Reaped`, `ReapFails`, each signal with a wait of its own. Output is
counted in chunks, time in turns of the 0.1 s selector: `Tick` can happen at most once for
each wait. The container, the attached client and `docker kill` are processes with steps
of their own; none of them is assumed to make progress, not even after SIGKILL. A kill
fails when the container is not running, and with `DaemonFails` for any reason.

**ArtifactStore.** `put` at the grain of its file operations: `CheckConflict`,
`WriteBlob`, `Replace`, `CheckExists`, `Create`, `Write`, each of which can `Fail` or
`Crash`. A blob arrives by rename; a run file is visible from its exclusive creation
on and whole after the write.

**PutContract.** What a caller of `put` may rely on: a put has an answer, a reference or
an error, at most once; what a reference stands for is settled, in content and for good;
and one run file is settled for one content at most. `Answered` and `Settled` are the
mapping.

**Harness.** `Setup`, the agent's events (`ToolCall`, `Say`), `SandboxEnds` with any
answer, `RemoveRuntimeDir` or `RemoveFails`, `Decide`. An event is what `_parse` and
`_tool_budget_error` can tell apart; `Bad` is a line they cannot take, as a cut-off
stream leaves it. `PiResult` and `RawResult` are the two orders of conditions.

**Evaluation.** `collect_diff` command by command: `GitDiff`, `GitLsFiles`, one
`GitDiffUntracked` per untracked file, `GitStatus`, each of which may be `GitFails`;
then the task's scorers in order, `RunScorer` or `ScorerRaises`. What each command
answers is an operator over the commit, the index and the files: `DiffHead`, `Others`,
`StatusPaths` with the source of a rename (`RenamedFrom`) and the name of an untracked
directory (`Collapsed`). `Write` is the container a failed cleanup left behind. A path
is the sequence of its names, so that `Within` can be the scorers' test for a prefix.

**Startup.** What a call has to get past before its run is opened, over state that all
processes share and nothing locks: `Ensure`, `CopyTree`, `BuildFixture` are
`ensure_fixture_repository`; `LoadBenchmark` and `ValidateFixtures`; `ReadRevision` and
`Migrate` are Alembic's look and the statements of the two revisions, each committed on
its own; `RecordLook` and `RecordInsert` are `record_benchmark`. `Break` ends a call
anywhere, by an exception or by its death; `EditFiles` changes the benchmark's files
in place.

**Comparison.** `compare` and any number of other calls. A call gets through `Startup`,
looks up the model's digest (`TakeProvenance`), and has a run as `RunContract` has
it (`OpenRun`, `Execute`, `PublishRun`, `CloseRun`, `Abandon`). `Replace` moves the model's
name or the image's tag to something else, at any time. `Report` is
`comparison_equality` over the dimensions that can differ, with the rule that two
Nones are not equal.

## 3. What is checked

Every property of a passing run has a mutant: a definition changed as a plausible
bug would change it, under which TLC finds that property violated. The mutants stand
in the modules beside the definitions they change.

| run | instance | shows |
|---|---|---|
| RunLifecycle | one run, an editing and a verification scorer; 73,251 states | the row, the files and the worktree agree: `CleanupIsTruthful`, `SuccessIsEarned`, `RowMatchesEvidence`, `ManifestClosesTheSet`, `LeakIsConfessed`, `ReproducibleIsEarned`; `RowIsFinal`; the refinement `KeepsContract`; `EveryRunEnds`, `RunsGetOn` |
| Sandbox | two calls up to permutation, strangers; 1,640,328 states | `RunsOnItsOwn`, `ResultLeavesNothing`, `LeftoversAreReported`, `OthersSurvive`, `CallsGetOn`; the refinement `KeepsContract` |
| SandboxLiveness | one call, strangers, an operator; 30,000 states | `EveryCallEnds` |
| AttachedRun | timeout 2, grace periods 2 and 1, cap 2, three chunks; 289,058 states | `TypeOK` (the cap), `NoSilentLoss`, `FlagsAreTruthful`, `BoundedWait`, `NoProcessSurvives`, `EveryRunEnds` |
| ArtifactStore | three puts, two run files, two contents, up to permutation; 9,338 states | `ReuseIsRefused`, `EvidenceIsImmutable`; the refinement `KeepsContract` |
| Harness | budget 1, three ids, four events; about 155,000 states | `BlockedIsNoSuccess`, `BudgetFailureIsReal`, `ScoredWithoutRuntimeDir`; `IsPartOfTheRun` |
| Evaluation | every worktree over five paths, one scorer of each type; 221,949 states | `EvidenceIsComplete`, `PathVerdictsAreRight`, `SuccessIsOfTheTree`; `IsPartOfTheRun` |
| Comparison | a comparison and a third call on a fresh clone, three versions, two digests, two images; 228,285 states | `HalfMadeHasAnOwner`, `RunsArePinned`, `SomeoneWins`, `ReportIsTrue`, `EveryCallEnds`, `CallsGetOn` |

Four runs show where the code does less than a document says; the quotes are in
`PROJECT.json` under "findings".

| run | what TLC finds |
|---|---|
| RunLifecycleADR | Ctrl-C during a run: the worktree is cleaned up, the row says "running" for ever and no cleanup result is stored |
| SandboxSetup | create succeeds, verifying inspect fails: the resource stays and no cleanup error mentions it |
| AttachedRunLimits | limit noticed, container exits by itself, `docker kill` is refused: an error without flags instead of a limit result |
| EvaluationPaths | a new file in a new directory puts the directory's name among the changed paths, beside the file's |

**Bounds.** One run suffices because runs share nothing. Two scorers give every
order of a passed, failed, erring and raising scorer of both categories. Two
calls and a stranger are three holders for a name: an owner, a rival with a label that is
also checked, and someone who checks nothing. Three chunks with a cap of two let the
cap fall in the middle of what is available, on either stream, with output left.
Three puts are an author, a rival and a later reader of what the two left. A budget of
one with four events lets a call be allowed, blocked, repeated under an old id and
followed by a message or a broken line. Five paths are a tracked file, a tracked and a
new one that share a directory, and a new and an ignored one in a directory of their
own; both an old and a new content make renames possible. Three calls are two that race
and one that comes later and finds what they left. Two of the three versions pin the same
fixture revision, so that a changed hash and a changed revision are both met.
`MaxWritten`, `MaxEvents`, `MaxWrites` (one write of a container left behind),
`MaxChanges` (one change of files, model or image) and `Outcomes` (three of the
verdicts a run may have) are the bounds that cut a larger behaviour; the proofs below
are for any value of them. `Horizon` is not a bound on the model: time is
unbounded there and `BoundedWait` shows it stops.

**Fairness.** RunLifecycle, Sandbox and Comparison assume that a process that is not
interrupted goes on (`WF` on each run's or call's `Step`); this needs that the commands
it waits for end. Docker commands have a 30 s timeout, scorers and harnesses the
task's, requests to Ollama theirs, and the attached run is shown to end in AttachedRun.
Git and Alembic calls have no timeout in the code (workspaces.py 20-26): that they
end is an assumption. Choices among outcomes are not fair: nothing ever has to succeed.
AttachedRun assumes only that the loop runs and that time passes while it waits;
container, client and kill may hang for ever. ArtifactStore, Harness and Evaluation have
safety properties only and no fairness. Deadlock is checked in all runs; `Finished` is
the stutter of an ended system.

## 4. What is proved

TLAPS checks all of the following for every value of the constants that the modules'
ASSUMEs allow. Every invariant and every action property that a passing run checks is
also a theorem. None of them is inductive as it stands, `TypeOK` apart; each proof
module defines the invariant that is, names its parts, and proves one lemma per action.

**RunLifecycleProofs**, for every set of runs and every list of scorers:
`TypeCorrect`, `CleanupTruthful`, `LeakConfessed`, `RowMatches`, `RowFinal`.
`Inv` adds to the types, for each run: what the row may be at each place (`RowInv`:
absent before it is opened, and completed only once the run has returned, with what the
run then believed), that the cleanup flag and every flag on file are set
only once the worktree is gone, and that no place after `Prepare` can bring it back
(`CleanupInv`); that a run past its `finally` block either cleaned up, has no
workspace, or carries the "cleanup" part in its failure (`LeakInv`); and that
during the writing `pending` and `artifacts` split the payloads, each written file
being intact and holding the verdict under way (`EvidenceInv`). `PutFails` is the
interesting step: it changes the verdict, which would break the last part, and drops
the references in the same step. `RowFinal` follows from `RowInv`: a completed row
belongs to a run that has returned, and nothing steps from there. `GetOn` and
`StepsBounded` are about the end of a run: `StepsLeft` counts the steps a run has still
to take, at most 16 and the number of scorers, and every step, failure, interrupt and
crash lowers it. During the writing it is the number of files pending, which is why the
invariant has to keep them among the seven names and not empty.

**RunOutcomeProofs** builds on that invariant: `SuccessEarned`, `ManifestCloses`,
`EnvironmentExplained`, `ReproducibleEarned`, and the refinement `Implements`
(`Spec => KeepsContract`). `FullInv` adds what a run believes of itself
while it is under way: that the verdict is the one its harness result, scores and
failures give, that the manifest comes after the files it lists, and that
provenance comes with the sandbox it names. For the refinement each action maps to
one step of the contract or to a stutter: `CreateRun` opens, the put of the manifest
publishes, `Complete` closes, an interrupt or a crash after the opening abandons.

**SandboxProofs**, for every set of calls, with an operator or without: `TypeCorrect`,
`ResultIsClean`, `LeftoversReported`, `GetOn`, `StepsBounded`; and under
`~OperatorActs`: `RunsAlone`, `OthersAreSpared` and the refinement `Implements`. The
invariant has three parts. `LateInv`: a create that may still land is of a name
the call does not own, and the call is dead or has a primary error, so it never returns
a result; a removal that may still land is of a name the cleanup has passed. `SetupInv`:
up to the attach, the owned names are exactly those before the current one and carry the
call's label. `UnwindInv`: during cleanup, an owned name that carries the call's label is
still to do or in the errors, and at `remove` the name is the call's. That names a call
owns carry its label is the one thing an operator can undo, and what the invariant says of
it is conditional. The hypothesis of the last three is needed: when an operator removes a labelled resource between the check of the label
and the removal by name, a stranger may take the name and lose it to the removal. That
is outside what the program claims; SandboxLiveness lets the operator act. For the
refinement every action maps to a move of one call in `SandboxContract` or, for what the
daemon carries out late, to a change of names that no call relies on. `GetOn`: a call has at
most 16 steps to take, two for each resource it has still to clean up, and neither a
rival nor the daemon gives it more.

**AttachedRunProofs**, for every timeout, grace period and cap: `TypeCorrect`,
`NothingLost`, `FlagsTruthful`, `WaitBounded`, `NothingSurvives`. `OutputInv` counts: what is captured and
what is in the pipes is at most what was written, and exactly that while no kill was
started. `KillInv`: a flag is a kill that was started, and a container is killed by
nothing else. `TimeInv` takes the unit a wait under way may still let pass into account
(`Due`): before a deadline is set time is held by the timeout, afterwards by that
deadline, and at the selector, where a new unit is handed out, it is one less. In the
`finally` block each signal adds one reap time to where the process's turn began
(`ReapFrom`), which makes the bound the timeout, the longer grace period, two turns, and
four reap times. `ProcessInv` follows the two processes: one that was seen to end has ended
for good, so an expired wait in `_reap` never replaces a result, and whoever gets a result or
a `SandboxError` leaves neither `docker kill` nor the client behind.

**ArtifactStoreProofs**, for any number of puts, run files and contents: `TypeCorrect`,
`Readable`, `Complete`, `ReuseRefused`, `Immutable`. `BegunInv` says whose a run file
is that is being written, `AloneInv` what a put finds that has its run file to
itself, and `ReuseInv` that a put gets past its check after another has returned only
when the file is whole and holds its own content. The refinement `Implements` needs
`RivalInv` besides: of two puts of one run file that both got past their checks, one at most
creates it, and the other has an error coming.

**HarnessProofs**, for every budget and streams of any length: `TypeCorrect`,
`Expected`, `BlockedFails`, `BudgetReal`, `NoRuntimeDir`. `MarkInv` says that a call past
the budget has left its mark in the stream; `DistinctIds`, that there are no more
distinct ids than calls, connects the count of the extension with the one of the harness.
`PartOfTheRun`: Pi, raw Ollama and the fake harness, with every event, cut-off and failed
removal, are to the run one `Execute` with a result it allows for that kind, or one
`StepRaises`.

**EvaluationProofs**, for every set of paths, every list of scorers and any number of
writes: `TypeCorrect`, `EvidenceComplete`, `PathVerdicts`, `SuccessOfTheTree`. While
nobody writes the index stays between the commit and the worktree (`IndexInv`), and
`CollectInv` says what the collection has at each command; `DiffIsWhole` and
`NamesAreWhole` are the facts about Git's answers, `WithinBelow` the one about names of
directories. When somebody writes none of this holds, and `LeftoverInv` saves the last
theorem: a container that is still there means a harness that failed in its environment.
`PartOfTheRun`: the Git commands are to the run one `CollectDiff` or one `StepRaises`, and
each scorer one `Score` or `ScorerRaises` of its category, in the task's order. So what is
proved of a run with the results `RunLifecycle` invents holds with those the two modules
compute.

**ComparisonProofs**, for any number of calls, versions, models, images and changes:
`TypeCorrect`, `HalfMade`, `Pinned`, `OneWins`, `ReportTrue`, `RunsKeepContract`.
`BuildInv` and `UpgradeInv` tie the shared state to the call that is at work on it, and
`PinInv` says what a call that has got past a check can rely on for good. `OneWins` rests on
`LeadInv`: as long as nothing breaks and nothing is changed, some call is at the place
that takes the shared state on from where it is. `RunsKeepContract` shows that the
calls' runs are runs of `RunContract`. `GetOn` and `StepsBounded`: a call that meets others
at the fixture, in a migration or at the record neither waits nor tries again; it has at most
19 steps to take.

The invariants were checked by TLC on the instances above before they were proved.
Some theorems are about formulas that no run lists any more, as the proof or another property
covers them: `TypeOK`, except in AttachedRun, where it holds the cap;
`EnvironmentIsExplained`; `RefIsReadable` and `RefIsComplete`, whose part about blobs and
whole files `PutContract` implies; and `ResultIsOneOfTheExpected`, which `IsPartOfTheRun`
implies.

Only model-checked: liveness (`EveryRunEnds`, `EveryCallEnds`), as liveness under
fairness and ENABLED are out of this prover's reach. What is proved of it for RunLifecycle,
Sandbox and Comparison is the half that needs neither, that only a bounded number of steps
can be taken; what TLC adds is that a step can be taken until the end. Out of reach too is induction over data: no
theorem here depends on what a recursive definition computes, and no module has a
RECURSIVE operator.

## 5. What is not modelled

Configuration merging, the command line, the wiring and the doctor have no state or
protocol of their own; what they yield enters as constants. Of the comparison, the
deltas of its report and the check of the two configurations before the runs only
compute. Of benchmark loading, the checks of the manifests' form and paths.

Within modelled components: corruption of a blob (nothing in the program rewrites one),
an attached client that loses its connection while the container still runs (`docker start
--attach` is taken to close its pipes only when the container has stopped), a Git
repository nested in the worktree, unmerged entries and submodules in it, the contents
of prompts and responses, and what the script of a command scorer looks at (it is a set
of accepted contents of one file). Which digest the model server answers
under is not known to the program: `ReportIsTrue` speaks of the digest it looked up.
The protected files of a benchmark are read again when a run is scored; that second read
is a hazard without a property.

Three assumptions of runs and definitions deserve naming. A `StepRaises` of `prepare`
leaves no worktree, since a `git worktree add` that fails removes what it has made; one
whose Git process is itself killed does not, and is not covered. `Evaluation` starts from
an index that is the commit, or what `git add -A` made of the worktree: an agent that
commits or stages in parts is not covered. And `OthersSurvive` is checked and proved
without an operator: what happens when someone else removes a labelled resource between
the check of the label and the removal (sandboxes.py:443) is a hazard without a property.

## 6. Plan

Done, in the order of consequence: `Outcome`, `RunLifecycle`, `Sandbox`, `AttachedRun`,
`ArtifactStore`, `Harness`; then `RunContract` and the refinement, `Evaluation`,
`Startup`, `Comparison`; the proofs for all of them; `SandboxContract` and `PutContract`
with their refinements, `Harness` and `Evaluation` as parts of a run, and the bounds on the
steps of a run and a call. What is left:

1. `Evaluation` with the second read of the protected files, so that an edit
   between load and score can be told from one that the hash covers.
2. A contract of `_run_attached` (one of its limits at most, and what is captured is a
   prefix of what was written), so that `Sandbox` can be composed with `AttachedRun` as
   `RunLifecycle` is with `Harness`.
3. Pure operators over bounded inputs: `_merge` of configuration layers, the deltas of the
   report.
