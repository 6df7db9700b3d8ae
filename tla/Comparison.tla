----------------------------- MODULE Comparison -----------------------------
(***************************************************************************)
(* LabService.compare beside other calls of the program: two runs, one     *)
(* after the other, each through Startup and then as RunContract has it,   *)
(* and a report of what their rows say.  Between and during the runs the   *)
(* benchmark's files, the model behind its name and the sandbox image may  *)
(* be replaced.                                                            *)
(***************************************************************************)
EXTENDS Startup

CONSTANTS
    Baseline, Candidate,  \* the two runs of the comparison
    Models, FirstModel,   \* digests the model's name may stand for, and today's
    Images, FirstImage,   \* sandbox images its tag may stand for, and today's
    Outcomes              \* bound: the verdicts of the example's runs

VARIABLES
    stage, manifest, record,   \* what RunContract says of the runs
    model, image,              \* what the names stand for now
    digest,                    \* the digest in a run's model identity
    sandbox,                   \* the image in a run's sandbox provenance
    report                     \* the comparison's report

runs == <<stage, manifest, record>>
vars == <<startup, runs, model, image, digest, sandbox, report>>

Run == INSTANCE RunContract WITH Runs <- Calls

Compared == {Baseline, Candidate}

ASSUME ComparisonAssumption ==
    /\ Compared \subseteq Calls /\ Baseline # Candidate
    /\ FirstModel \in Models /\ FirstImage \in Images
    /\ None \notin Models \cup Images
    /\ Outcomes \subseteq Run!Verdicts

-----------------------------------------------------------------------------
Places == StartupPlaces \cup {"provenance", "open", "execute", "evaluate",
                              "returned", "raised", "dead"}
Terminal == {"returned", "raised", "dead"}

NoReport == [of |-> None]

\* A report repeats each side's verdict and says whether the sides are comparable.
Reports == [of: {"comparison"}, comparable: BOOLEAN,
            classification: [Compared -> Run!Classifications]]

TypeOK ==
    /\ pc \in [Calls -> Places]
    /\ StartupTypeOK /\ Run!ContractTypeOK
    /\ model \in Models /\ image \in Images
    /\ digest \in [Calls -> Models \cup {None}]
    /\ sandbox \in [Calls -> Images \cup {None}]
    /\ report \in Reports \cup {NoReport}

Init ==
    /\ StartupInit /\ Run!ContractInit
    /\ model = FirstModel /\ image = FirstImage
    /\ digest = [c \in Calls |-> None]
    /\ sandbox = [c \in Calls |-> None]
    /\ report = NoReport

-----------------------------------------------------------------------------
Move(c, from, to) ==
    /\ pc[c] = from
    /\ Goto(c, to)
    /\ UNCHANGED <<files, fixture, schema, recorded, content, seen, changes, troubled>>

\* The candidate's turn comes when the baseline's run has returned.
Call(c) ==
    /\ c = Candidate => pc[Baseline] = "returned"
    /\ Move(c, "idle", "ensure")
    /\ UNCHANGED <<runs, model, image, digest, sandbox, report>>

\* OllamaModelAdapter.identity: the digest behind the name at that moment.
TakeProvenance(c) ==
    /\ Move(c, "provenance", "open")
    /\ digest' = [digest EXCEPT ![c] = model]
    /\ UNCHANGED <<runs, model, image, sandbox, report>>

OpenRun(c) ==
    /\ Move(c, "open", "execute")
    /\ Run!Open(c)
    /\ UNCHANGED <<model, image, digest, sandbox, report>>

\* The harness returns, with the sandbox it ran in or without.
Execute(c) ==
    /\ Move(c, "execute", "evaluate")
    /\ \E i \in {image, None} : sandbox' = [sandbox EXCEPT ![c] = i]
    /\ UNCHANGED <<runs, model, image, digest, report>>

\* The run's own verdict; with the sandbox's provenance it is reproducible.
VerdictOf(c, v) == v \in Outcomes /\ v.reproducible = (sandbox[c] # None)

PublishRun(c) ==
    /\ Move(c, "evaluate", "evaluate")
    /\ Run!Publish(c)
    /\ VerdictOf(c, manifest'[c])
    /\ UNCHANGED <<model, image, digest, sandbox, report>>

CloseRun(c) ==
    /\ Move(c, "evaluate", "returned")
    /\ Run!Close(c)
    /\ \E v \in Outcomes :
          VerdictOf(c, v) /\ record'[c] = Run!Record(v, manifest[c] # Run!NoVerdict)
    /\ UNCHANGED <<model, image, digest, sandbox, report>>

\* A call fails or dies after it has got through startup: its run, if it has
\* opened one, is abandoned.
Abandon(c) ==
    /\ pc[c] \in {"provenance", "open", "execute", "evaluate"}
    /\ \E place \in {"raised", "dead"} : Goto(c, place)
    /\ troubled' = TRUE
    /\ IF stage[c] = "open" THEN Run!Abandon(c) ELSE UNCHANGED runs
    /\ UNCHANGED <<files, fixture, schema, recorded, content, seen, changes,
                   model, image, digest, sandbox, report>>

\* Mutant: two Nones are equal.
EqualIfSame(value) == value[Baseline] = value[Candidate]

\* One dimension of comparison_equality: two Nones are no evidence of equality.
EqualValues(value) ==
    value[Baseline] # None /\ value[Candidate] # None
      /\ value[Baseline] = value[Candidate]

\* The other dimensions are of the configuration both sides share.
Comparable == EqualValues(digest) /\ EqualValues(content) /\ EqualValues(sandbox)

Report ==
    /\ report = NoReport
    /\ \A c \in Compared : pc[c] = "returned"
    /\ report' = [of |-> "comparison", comparable |-> Comparable,
                  classification |-> [c \in Compared |-> record[c].classification]]
    /\ UNCHANGED <<startup, runs, model, image, digest, sandbox>>

\* ollama pull moves the name to another digest; docker build moves the tag.
Replace ==
    /\ changes < MaxChanges
    /\ changes' = changes + 1
    /\ troubled' = TRUE
    /\ \/ \E m \in Models \ {model} : model' = m /\ image' = image
       \/ \E i \in Images \ {image} : image' = i /\ model' = model
    /\ UNCHANGED <<pc, files, fixture, schema, recorded, content, seen, runs, digest,
                   sandbox, report>>

-----------------------------------------------------------------------------
Step(c) ==
    \/ StartupStep(c) /\ UNCHANGED <<runs, model, image, digest, sandbox, report>>
    \/ TakeProvenance(c) \/ OpenRun(c) \/ Execute(c) \/ PublishRun(c) \/ CloseRun(c)

\* The candidate is not called when the baseline has raised or died; and the put
\* that keeps the report may fail.
Finished ==
    /\ \A c \in Calls : pc[c] \in Terminal \/ (c = Candidate /\ pc[c] = "idle")
    /\ UNCHANGED vars

Next ==
    \/ \E c \in Calls : Call(c) \/ Step(c) \/ Abandon(c)
    \/ \E c \in Calls : Break(c) /\ UNCHANGED <<runs, model, image, digest, sandbox, report>>
    \/ Report \/ Replace
    \/ EditFiles /\ UNCHANGED <<runs, model, image, digest, sandbox, report>>
    \/ Finished

\* A call that is under way goes on: every command, request and transaction in it
\* has a timeout or is local.
Spec == Init /\ [][Next]_vars /\ \A c \in Calls : WF_vars(Step(c))

-----------------------------------------------------------------------------
(* Properties.                                                             *)

\* Whatever calls do at once and wherever others have died: an opened run works on
\* the fixture revision its benchmark pins, under a complete schema, and for the
\* version that is recorded under the benchmark's key.
RunsArePinned ==
    \A c \in Calls : stage[c] # "none" =>
        /\ fixture.state = "ready" /\ fixture.revision = Revision[content[c]]
        /\ schema = "head" /\ recorded = content[c]

\* Calls that start at once get in each other's way, and those that lose raise; but
\* while nothing breaks and nothing is changed, one of them gets its run.
SomeoneWins ==
    ~troubled /\ (\A c \in Calls : pc[c] \in Terminal \cup {"idle"})
      /\ (\E c \in Calls : pc[c] # "idle")
    => \E c \in Calls : pc[c] = "returned"

\* The report says of the two runs what their closed rows say, now and later; and
\* they are comparable if and only if both ran in the same known sandbox, for the
\* same benchmark and for the same digest of the model.
ReportIsTrue ==
    report # NoReport =>
        /\ \A c \in Compared :
              /\ stage[c] = "closed"
              /\ report.classification[c] = record[c].classification
        /\ report.comparable <=>
              /\ \A c \in Compared : record[c].reproducible
              /\ sandbox[Baseline] = sandbox[Candidate]
              /\ content[Baseline] = content[Candidate]
              /\ digest[Baseline] = digest[Candidate]

\* The most steps a call has still to take.
StepsLeft(c) ==
    CASE pc[c] = "idle"          -> 19
      [] pc[c] = "ensure"        -> 18
      [] pc[c] = "copy"          -> 17
      [] pc[c] = "init"          -> 16
      [] pc[c] = "initialising"  -> 15
      [] pc[c] = "commit"        -> 14
      [] pc[c] = "load"          -> 13
      [] pc[c] = "validate"      -> 12
      [] pc[c] = "migrate"       -> 11
      [] pc[c] = "upgrade_first" -> 10
      [] pc[c] = "upgrade"       -> 9
      [] pc[c] = "upgrade_ends"  -> 8
      [] pc[c] = "record"        -> 7
      [] pc[c] = "insert"        -> 6
      [] pc[c] = "provenance"    -> 5
      [] pc[c] = "open"          -> 4
      [] pc[c] = "execute"       -> 3
      [] pc[c] = "evaluate"      -> IF manifest[c] = Run!NoVerdict THEN 2 ELSE 1
      [] pc[c] \in Terminal      -> 0

\* A call that finds others in its way neither waits for them nor tries again: it
\* goes on or raises, each step of it brings it nearer to its end, and none of
\* another call, an edit, a replacement or the report takes it back.
CallsGetOn ==
    [][\/ (Report \/ Replace \/ EditFiles) /\ \A c \in Calls : StepsLeft(c)' = StepsLeft(c)
       \/ \E c \in Calls : /\ StepsLeft(c)' < StepsLeft(c)
                           /\ \A d \in Calls \ {c} : StepsLeft(d)' = StepsLeft(d)]_vars

\* A call that was made comes to its end.
EveryCallEnds ==
    \A c \in Calls : pc[c] # "idle" ~> pc[c] \in Terminal
=============================================================================
