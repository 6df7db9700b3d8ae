------------------------- MODULE RunLifecycleProofs -------------------------
(***************************************************************************)
(* What RunLifecycle promises for every set of runs and every sequence of  *)
(* scorers, proved from the one assumption the module makes: that each     *)
(* scorer has a category.                                                  *)
(***************************************************************************)
EXTENDS RunLifecycle, SequenceTheorems, FiniteSetTheorems, TLAPS

-----------------------------------------------------------------------------
(* The values.                                                             *)

\* classify() is total: whatever the harness and the scorers returned, one of
\* the nine classifications names it.
LEMMA ClassifyType ==
    ASSUME NEW h, NEW s PROVE Classify(h, s) \in Classifications
BY DEF Classify, Classifications

\* A scorer's results are scores.
LEMMA ScoresOfType ==
    ASSUME NEW category \in Categories, NEW s \in ScoresOf(category)
    PROVE  s \in ScoreResult
<1>1. CASE \E p \in BOOLEAN :
             s = [passed |-> p, category |-> category, error |-> FALSE]
    BY <1>1 DEF ScoreResult
<1>2. CASE \E c \in {category} \cap {"verification"} :
             s = [passed |-> FALSE, category |-> c, error |-> TRUE]
    BY <1>2 DEF ScoreResult
<1> QED  BY <1>1, <1>2 DEF ScoresOf

LEMMA NoHarnessResultType == NoHarnessResult \in HarnessResult
BY DEF NoHarnessResult, HarnessResult, FailureKinds, None

\* What a harness hands back is a HarnessResult.
LEMMA ResultsOfType ==
    ASSUME NEW k, NEW h \in ResultsOf(k) PROVE h \in HarnessResult
<1>1. FakeResults \subseteq HarnessResult
  <2>1. [NoHarnessResult EXCEPT !.exit_code = 0, !.failure_kind = None]
            \in HarnessResult
    BY NoHarnessResultType DEF HarnessResult, FailureKinds
  <2>2. [NoHarnessResult EXCEPT !.failure_kind = None, !.timed_out = TRUE]
            \in HarnessResult
    BY NoHarnessResultType DEF HarnessResult, FailureKinds
  <2> QED  BY <2>1, <2>2, NoHarnessResultType DEF FakeResults
<1>2. SandboxedResults \subseteq HarnessResult
    BY DEF SandboxedResults
<1> QED  BY <1>1, <1>2 DEF ResultsOf

LEMMA RaisedScoreType == RaisedScore \in ScoreResult
BY DEF RaisedScore, ScoreResult, Categories, None

\* A verdict's parts.
LEMMA StatusOfType ==
    ASSUME NEW c PROVE StatusOf(c) \in {"succeeded", "failed"}
BY DEF StatusOf

LEMMA ReasonOfType ==
    ASSUME NEW h \in HarnessResult, NEW parts PROVE ReasonOf(h, parts) \in Reasons
BY DEF ReasonOf, Reasons, HarnessResult, FailureKinds, None

LEMMA ProvenanceType ==
    ASSUME NEW p \in Provenance, NEW k
    PROVE  /\ [p EXCEPT !.reproducible = k = "fake"] \in Provenance
           /\ WithSandbox(p, k) \in Provenance
BY DEF Provenance, WithSandbox

\* A row that is opened is a row.
LEMMA OpenedRowType ==
    ASSUME NEW w \in Row PROVE [w EXCEPT !.status = "running"] \in Row
BY DEF Row, Statuses

LEMMA PayloadsType ==
    ASSUME NEW c, NEW parts PROVE Payloads(c, parts) \subseteq FileNames
BY DEF Payloads

-----------------------------------------------------------------------------
(* Type correctness.  The scorer loop indexes Scorers, so the type of the  *)
(* scores rests on the loop staying within them.                           *)

BeforeScoring == {"idle", "create_experiment", "create_run", "prepare",
                  "execute", "collect"}

ScoringInBounds ==
    \A r \in Runs :
        /\ pc[r] \in BeforeScoring => scores[r] = <<>>
        /\ pc[r] = "score" => Len(scores[r]) < Len(Scorers)

\* A run that has passed its judgment has a status.
Decided ==
    \A r \in Runs : pc[r] \in {"persist", "complete"} =>
        verdict[r].status \in {"succeeded", "failed"}

TypeInv == TypeOK /\ ScoringInBounds /\ Decided

LEMMA InitType == Init => TypeInv
<1> SUFFICES ASSUME Init PROVE TypeInv
    OBVIOUS
<1>1. TypeOK
    BY NoHarnessResultType DEF Init, TypeOK, Places, Guarded, Terminal, Failures,
       Verdict, Undecided, Row, AbsentRow, Statuses, Reasons, FailureKinds, Content,
       Absent, Provenance, None
<1>2. ScoringInBounds /\ Decided
    BY DEF Init, ScoringInBounds, Decided
<1> QED  BY <1>1, <1>2 DEF TypeInv

\* What a file is written with has the type of a file's content.
LEMMA IntactType ==
    ASSUME TypeOK, NEW r \in Runs PROVE Intact(r) \in Content
<1>1. verdict[r] \in Verdict /\ cleanup[r] \in BOOLEAN /\ provenance[r] \in Provenance
    BY DEF TypeOK
<1> QED  BY <1>1 DEF Intact, Content, Verdict, Provenance

\* A put that ends early leaves the files well typed, and so does a step that is
\* cut off.
LEMMA CutShortType ==
    ASSUME TypeOK, NEW r \in Runs, CutShort(r)
    PROVE  files' \in [Runs -> [FileNames -> Content]]
<1>1. Absent \in Content /\ Partial \in Content
    BY DEF Absent, Partial, Content, None
<1>2. PICK name \in FileNames, c \in {Absent, Partial} :
          files' = [files EXCEPT ![r][name] = c]
    BY DEF CutShort
<1>3. [files[r] EXCEPT ![name] = c] \in [FileNames -> Content]
    BY <1>1, <1>2 DEF TypeOK
<1> QED  BY <1>2, <1>3 DEF TypeOK

LEMMA CutOffType ==
    ASSUME TypeOK, NEW r \in Runs, CutOff(r)
    PROVE  /\ files' \in [Runs -> [FileNames -> Content]]
           /\ worktree' \in [Runs -> BOOLEAN]
BY CutShortType DEF CutOff, TypeOK

\* One step of the type invariant for each action.  What an action leaves alone
\* keeps its type; the leaves name what it changes.
LEMMA StepType ==
    ASSUME TypeInv, NEW r \in Runs, Step(r) \/ Interrupt(r) \/ Crash(r)
    PROVE  TypeInv'
<1> USE DEF TypeInv, TypeOK, ScoringInBounds, Decided, BeforeScoring, Goto, Places,
            Guarded, Terminal, locals, stores
<1>1. CASE Resolve(r)
  <2>1. [provenance[r] EXCEPT !.reproducible = kind[r] = "fake"] \in Provenance
    BY ProvenanceType
  <2> QED  BY <1>1, <2>1 DEF Resolve
<1>2. CASE CreateExperiment(r)
    BY <1>2 DEF CreateExperiment
<1>3. CASE CreateRun(r)
  <2>1. [row[r] EXCEPT !.status = "running"] \in Row
    BY OpenedRowType
  <2> QED  BY <1>3, <2>1 DEF CreateRun
<1>4. CASE Raise(r)
    BY <1>4 DEF Raise
<1>5. CASE Prepare(r)
    BY <1>5 DEF Prepare
<1>6. CASE Execute(r)
  <2>1. WithSandbox(provenance[r], kind[r]) \in Provenance
    BY ProvenanceType
  <2> QED  BY <1>6, <2>1, ResultsOfType DEF Execute
<1>7. CASE CollectDiff(r)
    BY <1>7, ScorersAssumption DEF CollectDiff
<1>8. CASE StepRaises(r)
    BY <1>8 DEF StepRaises, Failures
<1>9. CASE Score(r)
    BY <1>9, ScorersAssumption, ScoresOfType DEF Score
<1>10. CASE ScorerRaises(r)
    BY <1>10, RaisedScoreType DEF ScorerRaises, Failures
<1>11. CASE NothingToDestroy(r)
    BY <1>11 DEF NothingToDestroy, LeaveFinally
<1>12. ASSUME NEW left \in BOOLEAN, NEW succeeded \in BOOLEAN,
              NEW note \in SUBSET {"cleanup"}, Destroyed(r, left, succeeded, note)
       PROVE  TypeInv'
    BY <1>12 DEF Destroyed, LeaveFinally, Failures
<1>13. CASE Destroy(r)
    BY <1>12, <1>13 DEF Destroy
<1>14. CASE DestroyFails(r)
    BY <1>12, <1>14 DEF DestroyFails
<1>15. CASE Judge(r)
    BY <1>15, ClassifyType, StatusOfType, ReasonOfType, PayloadsType
       DEF Judge, Judged, ClassificationOf, FailureOf, Failures, Verdict,
           Classifications
<1>16. CASE Put(r)
  <2>1. Intact(r) \in Content
    BY IntactType
  <2>2. PICK name \in FileNames : files' = [files EXCEPT ![r][name] = Intact(r)]
    BY <1>16 DEF Put
  <2>3. [files[r] EXCEPT ![name] = Intact(r)] \in [FileNames -> Content]
    BY <2>1
  <2>4. files' \in [Runs -> [FileNames -> Content]]
    BY <2>2, <2>3
  <2> QED  BY <1>16, <2>4 DEF Put
<1>17. CASE PutFails(r)
  <2>1. files' \in [Runs -> [FileNames -> Content]]
    BY <1>17, CutShortType DEF PutFails, PersistFailed
  <2>2. [classification |-> "environment", status |-> "failed", reason |-> "artifact"]
            \in Verdict
    BY DEF Verdict, Classifications, Reasons
  <2> QED  BY <1>17, <2>1, <2>2 DEF PutFails, PersistFailed, Failures
<1>18. CASE Complete(r)
  <2> DEFINE closed == [status |-> verdict[r].status,
           classification |-> verdict[r].classification,
           reason |-> verdict[r].reason, cleanup |-> cleanup[r],
           failure |-> failure[r], artifacts |-> artifacts[r],
           reproducible |-> provenance[r].reproducible]
  <2>1. closed \in Row
    <3>1. verdict[r] \in Verdict /\ verdict[r].status \in {"succeeded", "failed"}
      BY <1>18 DEF Complete
    <3>2. /\ cleanup[r] \in BOOLEAN /\ failure[r] \in Failures
          /\ artifacts[r] \in SUBSET FileNames
          /\ provenance[r].reproducible \in BOOLEAN
      BY DEF Provenance
    <3> QED  BY <3>1, <3>2 DEF Row, Verdict, Statuses
  <2> QED  BY <1>18, <2>1 DEF Complete
<1>19. CASE Interrupt(r)
  <2>1. files' \in [Runs -> [FileNames -> Content]] /\ worktree' \in [Runs -> BOOLEAN]
    BY <1>19, CutOffType DEF Interrupt
  <2> QED  BY <1>19, <2>1 DEF Interrupt, CutOff
<1>20. CASE Crash(r)
  <2>1. files' \in [Runs -> [FileNames -> Content]] /\ worktree' \in [Runs -> BOOLEAN]
    BY <1>20, CutOffType DEF Crash
  <2> QED  BY <1>20, <2>1 DEF Crash, CutOff
<1> QED
    BY <1>1, <1>2, <1>3, <1>4, <1>5, <1>6, <1>7, <1>8, <1>9, <1>10, <1>11, <1>13,
       <1>14, <1>15, <1>16, <1>17, <1>18, <1>19, <1>20 DEF Step

\* TypeOK is an invariant: no step, failure, interrupt or crash takes a local, a
\* row, a worktree or a file out of its type.
THEOREM TypeCorrect == Spec => []TypeOK
<1>1. Init => TypeInv
    BY InitType
<1>2. TypeInv /\ [Next]_vars => TypeInv'
  <2>1. ASSUME TypeInv, NEW r \in Runs, Step(r) \/ Interrupt(r) \/ Crash(r)
        PROVE  TypeInv'
    BY <2>1, StepType
  <2>2. ASSUME TypeInv, UNCHANGED vars PROVE TypeInv'
    BY <2>2 DEF TypeInv, TypeOK, ScoringInBounds, Decided, vars, locals, stores
  <2> QED  BY <2>1, <2>2 DEF Next, Finished
<1>3. TypeInv => TypeOK
    BY DEF TypeInv
<1> QED  BY <1>1, <1>2, <1>3, PTL DEF Spec

-----------------------------------------------------------------------------
(* The inductive invariant.                                                *)

\* The run has judged itself, and what it writes and closes is settled.
Settled(r) == pc[r] \in {"persist", "complete"} \/ Completed(r)

\* A row is closed by the last step of a run and by no other, with what the run
\* holds then.
Closed(r) ==
    [status |-> verdict[r].status, classification |-> verdict[r].classification,
     reason |-> verdict[r].reason, cleanup |-> cleanup[r], failure |-> failure[r],
     artifacts |-> artifacts[r], reproducible |-> provenance[r].reproducible]

RowInv(r) ==
    /\ Completed(r) => pc[r] = "returned" /\ row[r] = Closed(r)
    /\ row[r].cleanup => Completed(r)
    /\ pc[r] \in {"idle", "create_experiment", "create_run"}
          => row[r].status = "absent"
    /\ Settled(r) => verdict[r].status = StatusOf(verdict[r].classification)

\* A worktree that was destroyed is not made again, and what the files and the
\* row say of it was known when they were written.
CleanupInv(r) ==
    /\ cleanup[r] =>
          /\ ~worktree[r]
          /\ pc[r] \in {"classify", "persist", "complete"} \cup Terminal
    /\ \A n \in FileNames : files[r][n].cleanup => cleanup[r]

\* A worktree that was not destroyed is accounted for, unless an interrupt has
\* taken the run out of its course.
LeakInv(r) ==
    /\ interrupted[r] => pc[r] \in {"finally", "raised", "dead"}
    /\ pc[r] \in BeforeScoring \cup {"score", "finally"} /\ worktree[r] =>
          workspace[r] \/ interrupted[r]
    /\ (pc[r] = "classify" \/ Settled(r)) /\ worktree[r] =>
          ~cleanup[r] /\ "cleanup" \in failure[r]
    /\ Settled(r) /\ ~cleanup[r] => verdict[r].classification = "environment"

\* While the run persists, what it has written is whole and what it has still to
\* write is the rest; afterwards it references all of it or nothing.
Owed(r) == Payloads(verdict[r].classification, failure[r])

EvidenceInv(r) ==
    /\ pc[r] \notin {"persist", "complete"} \cup Terminal => artifacts[r] = {}
    /\ pc[r] = "persist" =>
          /\ artifacts[r] \subseteq Owed(r)
          /\ pending[r] = Owed(r) \ artifacts[r]
          /\ pending[r] # {}
    /\ pc[r] = "complete" \/ Completed(r) => artifacts[r] \in {{}, Owed(r)}
    /\ Settled(r) => \A n \in artifacts[r] : files[r][n] = Intact(r)

RunInv(r) == RowInv(r) /\ CleanupInv(r) /\ LeakInv(r) /\ EvidenceInv(r)

Inv == TypeInv /\ \A r \in Runs : RunInv(r)

\* A run's step touches nothing of another run.
LEMMA OthersKeep ==
    ASSUME TypeOK, NEW r \in Runs, Step(r) \/ Interrupt(r) \/ Crash(r),
           NEW q \in Runs \ {r}
    PROVE  /\ pc'[q] = pc[q] /\ kind'[q] = kind[q] /\ workspace'[q] = workspace[q]
           /\ harness'[q] = harness[q] /\ provenance'[q] = provenance[q]
           /\ scores'[q] = scores[q] /\ failure'[q] = failure[q]
           /\ cleanup'[q] = cleanup[q] /\ verdict'[q] = verdict[q]
           /\ pending'[q] = pending[q] /\ artifacts'[q] = artifacts[q]
           /\ interrupted'[q] = interrupted[q] /\ experiment'[q] = experiment[q]
           /\ row'[q] = row[q] /\ worktree'[q] = worktree[q] /\ files'[q] = files[q]
<1> USE DEF TypeOK, Goto, locals, stores
<1>1. CASE Resolve(r) \/ CreateExperiment(r) \/ CreateRun(r) \/ Raise(r) \/ Prepare(r)
    BY <1>1 DEF Resolve, CreateExperiment, CreateRun, Raise, Prepare
<1>2. CASE Execute(r) \/ CollectDiff(r) \/ StepRaises(r) \/ Score(r) \/ ScorerRaises(r)
    BY <1>2 DEF Execute, CollectDiff, StepRaises, Score, ScorerRaises
<1>3. CASE NothingToDestroy(r) \/ Destroy(r) \/ DestroyFails(r)
    BY <1>3 DEF NothingToDestroy, LeaveFinally, Destroy, DestroyFails, Destroyed
<1>4. CASE Judge(r) \/ Complete(r)
    BY <1>4 DEF Judge, Judged, Complete
<1>5. CASE Put(r) \/ PutFails(r)
    BY <1>5 DEF Put, PutFails, PersistFailed, CutShort
<1>6. CASE Interrupt(r) \/ Crash(r)
    BY <1>6 DEF Interrupt, Crash, CutOff, CutShort
<1> QED
    BY <1>1, <1>2, <1>3, <1>4, <1>5, <1>6 DEF Step

LEMMA OthersInv ==
    ASSUME Inv, NEW r \in Runs, Step(r) \/ Interrupt(r) \/ Crash(r),
           NEW q \in Runs \ {r}
    PROVE  RunInv(q)'
<1>1. RunInv(q)
    BY DEF Inv
<1>2. TypeOK
    BY DEF Inv, TypeInv
<1> QED
    BY <1>1, <1>2, OthersKeep DEF RunInv, RowInv, CleanupInv, LeakInv, EvidenceInv,
       Completed, Settled, Closed, Owed, Intact

\* A put that ends early does not make a file speak of a cleanup.
LEMMA CutShortKeeps ==
    ASSUME TypeOK, NEW r \in Runs, files' = files \/ CutShort(r)
    PROVE  \A n \in FileNames : files'[r][n].cleanup => files[r][n].cleanup
<1>1. ~Absent.cleanup /\ ~Partial.cleanup
    BY DEF Absent, Partial
<1>2. CASE CutShort(r)
  <2>1. PICK name \in FileNames, c \in {Absent, Partial} :
            files' = [files EXCEPT ![r][name] = c]
    BY <1>2 DEF CutShort
  <2>2. files'[r] = [files[r] EXCEPT ![name] = c] /\ files[r] \in [FileNames -> Content]
    BY <2>1 DEF TypeOK
  <2> QED  BY <1>1, <2>1, <2>2
<1> QED  BY <1>2

\* A step of the run itself keeps its invariant.
LEMMA StepInv ==
    ASSUME Inv, NEW r \in Runs, Step(r) \/ Interrupt(r) \/ Crash(r)
    PROVE  RunInv(r)'
<1> USE DEF RunInv, RowInv, CleanupInv, LeakInv, EvidenceInv, Completed, Settled,
            Closed, Owed, Intact, Goto, BeforeScoring, Terminal, locals, stores
<1>0. TypeOK /\ RunInv(r)
    BY DEF Inv, TypeInv
<1>1. CASE Resolve(r) \/ CreateExperiment(r) \/ Raise(r)
    BY <1>0, <1>1 DEF TypeOK, Resolve, CreateExperiment, Raise
<1>2. CASE CreateRun(r)
    BY <1>0, <1>2 DEF TypeOK, CreateRun
<1>3. CASE Prepare(r)
    BY <1>0, <1>3 DEF TypeOK, Prepare
<1>4. CASE Execute(r) \/ CollectDiff(r) \/ StepRaises(r)
    BY <1>0, <1>4 DEF TypeOK, Execute, CollectDiff, StepRaises
<1>5. CASE Score(r) \/ ScorerRaises(r)
    BY <1>0, <1>5 DEF TypeOK, Score, ScorerRaises
<1>6. CASE NothingToDestroy(r)
    BY <1>0, <1>6 DEF TypeOK, NothingToDestroy, LeaveFinally
<1>7. CASE Destroy(r)
    BY <1>0, <1>7 DEF TypeOK, Destroy, Destroyed, LeaveFinally
<1>8. CASE DestroyFails(r)
    BY <1>0, <1>8 DEF TypeOK, DestroyFails, Destroyed, LeaveFinally
<1>9. CASE Judge(r)
  <2> DEFINE c == ClassificationOf(r)
             f == FailureOf(r)
  <2>1. /\ pc[r] = "classify" /\ pc'[r] = "persist"
        /\ failure'[r] = f /\ pending'[r] = Payloads(c, f)
        /\ verdict'[r].classification = c /\ verdict'[r].status = StatusOf(c)
        /\ row'[r] = row[r] /\ files'[r] = files[r] /\ worktree'[r] = worktree[r]
        /\ cleanup'[r] = cleanup[r] /\ artifacts'[r] = artifacts[r]
        /\ interrupted'[r] = interrupted[r]
    BY <1>0, <1>9 DEF TypeOK, Judge, Judged
  <2>2. c = "environment" \/ cleanup[r]
    BY DEF ClassificationOf
  <2>3. failure[r] # {} => f = failure[r]
    BY DEF FailureOf
  <2> HIDE DEF c, f
  <2>4. RowInv(r)'
    BY <1>0, <2>1
  <2>5. CleanupInv(r)'
    BY <1>0, <2>1
  <2>6. LeakInv(r)'
    BY <1>0, <2>1, <2>2, <2>3
  <2>7. EvidenceInv(r)'
    BY <1>0, <2>1 DEF Payloads, FileNames
  <2> QED  BY <2>4, <2>5, <2>6, <2>7
<1>10. CASE Put(r)
    BY <1>0, <1>10 DEF TypeOK, Put, IsNext
<1>11. CASE PutFails(r)
  <2>1. /\ pc[r] = "persist" /\ pc'[r] = "complete"
        /\ failure'[r] = failure[r] \cup {"artifact"} /\ artifacts'[r] = {}
        /\ verdict'[r].classification = "environment" /\ verdict'[r].status = "failed"
        /\ row'[r] = row[r] /\ worktree'[r] = worktree[r]
        /\ cleanup'[r] = cleanup[r] /\ interrupted'[r] = interrupted[r]
    BY <1>0, <1>11 DEF TypeOK, PutFails, PersistFailed
  <2>2. \A n \in FileNames : files'[r][n].cleanup => files[r][n].cleanup
    BY <1>0, <1>11, CutShortKeeps DEF PutFails, PersistFailed
  <2>3. RowInv(r)'
    BY <1>0, <2>1 DEF StatusOf
  <2>4. CleanupInv(r)'
    BY <1>0, <2>1, <2>2
  <2>5. LeakInv(r)'
    BY <1>0, <2>1
  <2>6. EvidenceInv(r)'
    BY <1>0, <2>1
  <2> QED  BY <2>3, <2>4, <2>5, <2>6
<1>12. CASE Complete(r)
  <2>1. /\ pc[r] = "complete" /\ pc'[r] = "returned" /\ row[r].status = "running"
        /\ row'[r] = Closed(r)
    BY <1>0, <1>12 DEF TypeOK, Complete
  <2>2. UNCHANGED <<locals, worktree, files>>
    BY <1>12 DEF Complete
  <2>3. Closed(r)' = Closed(r)
    BY <2>2
  <2>4. Closed(r).status = verdict[r].status /\ Closed(r).cleanup = cleanup[r]
    OBVIOUS
  <2> HIDE DEF Closed
  <2>5. RowInv(r)'
    BY <1>0, <2>1, <2>2, <2>3, <2>4 DEF StatusOf
  <2>6. CleanupInv(r)'
    BY <1>0, <2>1, <2>2
  <2>7. LeakInv(r)'
    BY <1>0, <2>1, <2>2
  <2>8. EvidenceInv(r)'
    BY <1>0, <2>1, <2>2
  <2> QED  BY <2>5, <2>6, <2>7, <2>8
<1>13. CASE Interrupt(r)
  <2>1. \A n \in FileNames : files'[r][n].cleanup => files[r][n].cleanup
    BY <1>0, <1>13, CutShortKeeps DEF Interrupt, CutOff
  <2>2. /\ pc[r] \notin Terminal
        /\ pc'[r] \in {"finally", "raised"} /\ interrupted'[r]
        /\ pc'[r] = "finally" => pc[r] \in Guarded
        /\ row' = row
        /\ pc[r] \notin {"prepare", "finally"} => worktree'[r] = worktree[r]
        /\ worktree'[r] /\ pc[r] # "prepare" => worktree[r]
    BY <1>0, <1>13 DEF TypeOK, Interrupt, CutOff
  <2>3. UNCHANGED <<workspace, failure, cleanup, verdict, artifacts, provenance>>
    BY <1>13 DEF Interrupt
  <2>4. RowInv(r)'
    BY <1>0, <2>2, <2>3
  <2>5. CleanupInv(r)'
    BY <1>0, <2>1, <2>2, <2>3 DEF Guarded
  <2>6. LeakInv(r)'
    BY <1>0, <2>2, <2>3
  <2>7. EvidenceInv(r)'
    BY <1>0, <2>2, <2>3 DEF Guarded
  <2> QED  BY <2>4, <2>5, <2>6, <2>7
<1>14. CASE Crash(r)
  <2>1. \A n \in FileNames : files'[r][n].cleanup => files[r][n].cleanup
    BY <1>0, <1>14, CutShortKeeps DEF Crash, CutOff
  <2>2. /\ pc[r] \notin Terminal
        /\ pc'[r] = "dead" /\ interrupted' = interrupted
        /\ row' = row
        /\ pc[r] \notin {"prepare", "finally"} => worktree'[r] = worktree[r]
        /\ worktree'[r] /\ pc[r] # "prepare" => worktree[r]
    BY <1>0, <1>14 DEF TypeOK, Crash, CutOff
  <2>3. UNCHANGED <<workspace, failure, cleanup, verdict, artifacts, provenance>>
    BY <1>14 DEF Crash
  <2>4. RowInv(r)'
    BY <1>0, <2>2, <2>3
  <2>5. CleanupInv(r)'
    BY <1>0, <2>1, <2>2, <2>3 DEF Guarded
  <2>6. LeakInv(r)'
    BY <1>0, <2>2, <2>3
  <2>7. EvidenceInv(r)'
    BY <1>0, <2>2, <2>3 DEF Guarded
  <2> QED  BY <2>4, <2>5, <2>6, <2>7
<1> QED
    BY <1>1, <1>2, <1>3, <1>4, <1>5, <1>6, <1>7, <1>8, <1>9, <1>10, <1>11, <1>12,
       <1>13, <1>14 DEF Step

-----------------------------------------------------------------------------
(* The theorems.                                                           *)

LEMMA InitInv == Init => Inv
<1> SUFFICES ASSUME Init PROVE Inv
    OBVIOUS
<1>1. TypeInv
    BY InitType
<1>2. ASSUME NEW r \in Runs PROVE RunInv(r)
    BY DEF Init, RunInv, RowInv, CleanupInv, LeakInv, EvidenceInv, Completed, Settled,
       AbsentRow, Absent, Terminal
<1> QED  BY <1>1, <1>2 DEF Inv

LEMMA NextInv == Inv /\ [Next]_vars => Inv'
<1>1. ASSUME Inv, NEW r \in Runs, Step(r) \/ Interrupt(r) \/ Crash(r)
      PROVE  Inv'
  <2>1. TypeInv'
    BY <1>1, StepType DEF Inv
  <2>2. ASSUME NEW q \in Runs PROVE RunInv(q)'
    BY <1>1, StepInv, OthersInv
  <2> QED  BY <2>1, <2>2 DEF Inv
<1>2. ASSUME Inv, UNCHANGED vars PROVE Inv'
    BY <1>2 DEF Inv, TypeInv, TypeOK, ScoringInBounds, Decided, RunInv, RowInv,
       CleanupInv, LeakInv, EvidenceInv, Completed, Settled, Closed, Owed, Intact,
       vars, locals, stores
<1> QED  BY <1>1, <1>2 DEF Next, Finished

LEMMA Invariant == Spec => []Inv
BY InitInv, NextInv, PTL DEF Spec

\* A closed row, in terms of what the run holds.
LEMMA ClosedRow ==
    ASSUME Inv, NEW r \in Runs, Completed(r)
    PROVE  /\ row[r].status = verdict[r].status
           /\ row[r].status = StatusOf(row[r].classification)
           /\ row[r].classification = verdict[r].classification
           /\ row[r].cleanup = cleanup[r] /\ row[r].failure = failure[r]
           /\ row[r].artifacts = artifacts[r]
           /\ row[r].reproducible = provenance[r].reproducible
<1>1. row[r] = Closed(r) /\ verdict[r].status = StatusOf(verdict[r].classification)
    BY DEF Inv, RunInv, RowInv, Settled
<1> QED  BY <1>1 DEF Closed

\* CleanupIsTruthful: for every set of runs, a closed row or a manifest that says
\* the worktree is gone is right.
THEOREM CleanupTruthful == Spec => []CleanupIsTruthful
<1>1. Inv => CleanupIsTruthful
    BY ClosedRow DEF Inv, RunInv, CleanupInv, CleanupIsTruthful, FileNames
<1> QED  BY <1>1, Invariant, PTL

\* LeakIsConfessed: a closed row whose worktree was left behind says so.
THEOREM LeakConfessed == Spec => []LeakIsConfessed
<1>1. Inv => LeakIsConfessed
    BY ClosedRow DEF Inv, RunInv, LeakInv, LeakIsConfessed, Settled, StatusOf
<1> QED  BY <1>1, Invariant, PTL

\* RowMatchesEvidence: what a closed row references is on disk, whole, and
\* agrees with the row.
THEOREM RowMatches == Spec => []RowMatchesEvidence
<1>1. ASSUME Inv, NEW r \in Runs, Completed(r)
      PROVE  /\ row[r].artifacts \in {{}, Payloads(row[r].classification, row[r].failure)}
             /\ \A n \in row[r].artifacts : files[r][n] = Intact(r)
    BY <1>1, ClosedRow DEF Inv, RunInv, EvidenceInv, Settled, Owed
<1>2. ASSUME Inv PROVE RowMatchesEvidence
  <2> SUFFICES ASSUME NEW r \in Runs, Completed(r)
               PROVE  /\ row[r].artifacts # {} => "manifest.json" \in row[r].artifacts
                      /\ "manifest.json" \in row[r].artifacts =>
                            ("failure.json" \in row[r].artifacts <=>
                                row[r].status = "failed" \/ row[r].failure # {})
                      /\ \A n \in row[r].artifacts :
                            /\ files[r][n].state = "intact"
                            /\ files[r][n].classification = row[r].classification
                            /\ files[r][n].cleanup = row[r].cleanup
                            /\ files[r][n].reproducible = row[r].reproducible
    BY DEF RowMatchesEvidence
  <2>1. row[r].artifacts # {} => "manifest.json" \in row[r].artifacts
    BY <1>1, <1>2 DEF Payloads, FileNames
  <2>2. "manifest.json" \in row[r].artifacts =>
            ("failure.json" \in row[r].artifacts <=>
                row[r].status = "failed" \/ row[r].failure # {})
    BY <1>1, <1>2, ClosedRow DEF Payloads, FileNames, StatusOf
  <2>3. ASSUME NEW n \in row[r].artifacts
        PROVE  /\ files[r][n].state = "intact"
               /\ files[r][n].classification = row[r].classification
               /\ files[r][n].cleanup = row[r].cleanup
               /\ files[r][n].reproducible = row[r].reproducible
    <3>1. files[r][n] = Intact(r)
      BY <1>1, <1>2, <2>3
    <3>2. /\ Intact(r).state = "intact"
          /\ Intact(r).classification = verdict[r].classification
          /\ Intact(r).cleanup = cleanup[r]
          /\ Intact(r).reproducible = provenance[r].reproducible
      BY DEF Intact
    <3> QED  BY <1>2, <3>1, <3>2, ClosedRow
  <2> QED  BY <2>1, <2>2, <2>3
<1> QED  BY <1>2, Invariant, PTL

\* RowIsFinal: a row is opened once and closed once, and neither it nor what it
\* speaks of changes afterwards.
THEOREM RowFinal == Spec => RowIsFinal
<1>1. ASSUME Inv, NEW r \in Runs, Step(r) \/ Interrupt(r) \/ Crash(r),
             NEW q \in Runs \ {r}
      PROVE  KeepsRows(q)
    BY <1>1, OthersKeep DEF Inv, TypeInv, KeepsRows, Completed
<1>2. ASSUME Inv, NEW r \in Runs, Step(r) \/ Interrupt(r) \/ Crash(r)
      PROVE  KeepsRows(r)
  <2>1. Completed(r) => pc[r] = "returned"
    BY <1>2 DEF Inv, RunInv, RowInv
  <2>2. pc[r] # "returned"
    BY <1>2 DEF Step, Resolve, CreateExperiment, CreateRun, Raise, Prepare, Execute,
       CollectDiff, StepRaises, Score, ScorerRaises, NothingToDestroy, Destroy,
       DestroyFails, Destroyed, Judge, Judged, Put, PutFails, PersistFailed, Complete,
       Interrupt, Crash, Terminal
  <2>3. \/ row'[r].status = row[r].status
        \/ row[r].status = "absent" /\ row'[r].status = "running"
        \/ row[r].status = "running" /\ row'[r].status \in {"succeeded", "failed"}
    <3>1. CASE CreateRun(r)
      BY <1>2, <3>1 DEF CreateRun, Inv, TypeInv, TypeOK, RunInv, RowInv, Row
    <3>2. CASE Complete(r)
      BY <1>2, <3>2 DEF Complete, Inv, TypeInv, TypeOK, Decided
    <3>3. CASE ~CreateRun(r) /\ ~Complete(r)
      <4>1. row' = row
        BY <1>2, <3>3 DEF Step, Resolve, CreateExperiment, Raise, Prepare, Execute,
           CollectDiff, StepRaises, Score, ScorerRaises, NothingToDestroy, Destroy,
           DestroyFails, Destroyed, Judge, Put, PutFails, PersistFailed,
           Interrupt, Crash, CutOff, stores
      <4> QED  BY <4>1
    <3> QED  BY <3>1, <3>2, <3>3
  <2> QED  BY <2>1, <2>2, <2>3 DEF KeepsRows
<1>3. Inv /\ [Next]_vars => [\A r \in Runs : KeepsRows(r)]_vars
    BY <1>1, <1>2 DEF Next, Finished
<1> QED  BY <1>3, Invariant, PTL DEF Spec, RowIsFinal

-----------------------------------------------------------------------------
(* The count of the steps a run has still to take.                         *)

LEMMA FileNamesFinite == IsFiniteSet(FileNames) /\ Cardinality(FileNames) <= 7
<1> DEFINE A == {"resolved-config.json"}
           B == A \cup {"provenance.json"}
           C == B \cup {"harness-execution.json"}
           D == C \cup {"patch.diff"}
           E == D \cup {"scorer-results.json"}
           F == E \cup {"failure.json"}
<1>1. IsFiniteSet(A) /\ Cardinality(A) = 1
    BY FS_Singleton
<1>2. FileNames = F \cup {"manifest.json"}
    BY DEF FileNames
<1> HIDE DEF A
<1>3. IsFiniteSet(B) /\ Cardinality(B) \in 1..2
    BY <1>1, FS_AddElement
<1> HIDE DEF B
<1>4. IsFiniteSet(C) /\ Cardinality(C) \in 1..3
    BY <1>3, FS_AddElement
<1> HIDE DEF C
<1>5. IsFiniteSet(D) /\ Cardinality(D) \in 1..4
    BY <1>4, FS_AddElement
<1> HIDE DEF D
<1>6. IsFiniteSet(E) /\ Cardinality(E) \in 1..5
    BY <1>5, FS_AddElement
<1> HIDE DEF E
<1>7. IsFiniteSet(F) /\ Cardinality(F) \in 1..6
    BY <1>6, FS_AddElement
<1> HIDE DEF F
<1> QED  BY <1>2, <1>7, FS_AddElement

LEMMA PendingFinite ==
    ASSUME NEW S \in SUBSET FileNames
    PROVE  IsFiniteSet(S) /\ Cardinality(S) \in 0..7
BY FileNamesFinite, FS_Subset, FS_CardinalityType

\* The count, place by place.
Counted(r) ==
    /\ pc[r] = "idle" => StepsLeft(r) = Len(Scorers) + 16
    /\ pc[r] = "create_experiment" => StepsLeft(r) = Len(Scorers) + 15
    /\ pc[r] = "create_run" => StepsLeft(r) = Len(Scorers) + 14
    /\ pc[r] = "prepare" => StepsLeft(r) = Len(Scorers) + 13
    /\ pc[r] = "execute" => StepsLeft(r) = Len(Scorers) + 12
    /\ pc[r] = "collect" => StepsLeft(r) = Len(Scorers) + 11
    /\ pc[r] = "score" => StepsLeft(r) = Len(Scorers) - Len(scores[r]) + 10
    /\ pc[r] = "finally" => StepsLeft(r) = 10
    /\ pc[r] = "classify" => StepsLeft(r) = 9
    /\ pc[r] = "persist" => StepsLeft(r) = Cardinality(pending[r]) + 1
    /\ pc[r] = "complete" => StepsLeft(r) = 1
    /\ pc[r] \in Terminal => StepsLeft(r) = 0

LEMMA Counts == ASSUME NEW r \in Runs PROVE Counted(r) /\ Counted(r)'
BY DEF Counted, StepsLeft, Terminal

LEMMA ScoreCount ==
    ASSUME TypeInv, NEW r \in Runs, pc[r] = "score"
    PROVE  StepsLeft(r) \in 11..(Len(Scorers) + 10)
<1> DEFINE L == Len(Scorers)
           N == Len(scores[r])
<1>1. L \in Nat /\ N \in Nat
    BY ScorersAssumption DEF TypeInv, TypeOK
<1>2. N < L
    BY DEF TypeInv, ScoringInBounds
<1>3. StepsLeft(r) = L - N + 10
    BY Counts DEF Counted
<1> HIDE DEF L, N
<1>4. StepsLeft(r) \in 11..(L + 10)
    BY <1>1, <1>2, <1>3
<1> QED  BY <1>4 DEF L

\* The count is a number: a run has only so many steps to take.
LEMMA StepsLeftBounds ==
    ASSUME TypeInv, NEW r \in Runs
    PROVE  StepsLeft(r) \in 0..(Len(Scorers) + 16)
<1> DEFINE L == Len(Scorers)
<1>1. L \in Nat
    BY ScorersAssumption
<1>2. Cardinality(pending[r]) \in 0..7
    BY PendingFinite DEF TypeInv, TypeOK
<1>3. CASE pc[r] = "score"
    BY <1>1, <1>3, ScoreCount
<1>4. CASE pc[r] # "score"
  <2>1. pc[r] \in Places
    BY DEF TypeInv, TypeOK
  <2>2. Counted(r)
    BY Counts
  <2>3. \/ StepsLeft(r) \in {L + 16, L + 15, L + 14, L + 13, L + 12, L + 11}
        \/ StepsLeft(r) \in {10, 9, 1, 0, Cardinality(pending[r]) + 1}
    <3> HIDE DEF L
    <3> QED  BY <1>4, <2>1, <2>2 DEF Counted, Places, Guarded, Terminal, L
  <2> QED  BY <1>1, <1>2, <2>3
<1> QED  BY <1>3, <1>4

\* A step of a run, an interrupt and a crash each lower its count.
LEMMA StepLowers ==
    ASSUME Inv, NEW r \in Runs, Step(r) \/ Interrupt(r) \/ Crash(r)
    PROVE  StepsLeft(r)' < StepsLeft(r)
<1>0. TypeInv /\ TypeOK /\ TypeInv'
    BY StepType DEF Inv, TypeInv
<1>1. Len(Scorers) \in Nat /\ Len(scores[r]) \in Nat
    BY <1>0, ScorersAssumption DEF TypeOK
<1>2. Cardinality(pending[r]) \in 0..7
    BY <1>0, PendingFinite DEF TypeOK
<1>3. /\ pc[r] = "score" => Len(scores[r]) < Len(Scorers)
      /\ pc[r] = "collect" => scores[r] = <<>>
    BY <1>0 DEF TypeInv, ScoringInBounds, BeforeScoring
<1>4. Counted(r) /\ Counted(r)'
    BY Counts
<1>5. CASE Resolve(r) \/ CreateExperiment(r) \/ CreateRun(r) \/ Raise(r)
    BY <1>0, <1>1, <1>4, <1>5 DEF TypeOK, Goto, Resolve, CreateExperiment, CreateRun,
       Raise, Counted, Terminal
<1>6. CASE Prepare(r) \/ Execute(r) \/ StepRaises(r)
    BY <1>0, <1>1, <1>4, <1>6 DEF TypeOK, Goto, Prepare, Execute, StepRaises, Counted
<1>7. CASE CollectDiff(r)
  <2>1. pc[r] = "collect" /\ pc'[r] \in {"finally", "score"} /\ scores'[r] = <<>>
    BY <1>0, <1>3, <1>7 DEF TypeOK, Goto, CollectDiff, locals
  <2> QED  BY <1>1, <1>4, <2>1 DEF Counted
<1>8. CASE Score(r)
  <2>1. PICK s : scores' = [scores EXCEPT ![r] = Append(@, s)]
    BY <1>8 DEF Score
  <2>2. Len(scores'[r]) = Len(scores[r]) + 1
    BY <1>0, <1>8, <2>1, ScoresOfType, ScorersAssumption DEF TypeOK, Score
  <2>3. pc[r] = "score" /\ pc'[r] \in {"finally", "score"}
    BY <1>0, <1>8 DEF TypeOK, Goto, Score
  <2>4. CASE pc'[r] = "finally"
    <3>1. StepsLeft(r) > 10
      BY <1>0, <1>1, <2>3, ScoreCount
    <3> QED  BY <1>4, <2>4, <3>1 DEF Counted
  <2>5. CASE pc'[r] = "score"
    <3> DEFINE L == Len(Scorers)
               N == Len(scores[r])
    <3>1. L \in Nat /\ N \in Nat
      BY <1>1
    <3>2. StepsLeft(r) = L - N + 10
      BY <1>4, <2>3 DEF Counted
    <3>3. StepsLeft(r)' = L - (N + 1) + 10
      BY <1>4, <2>2, <2>5 DEF Counted
    <3> HIDE DEF L, N
    <3> QED  BY <3>1, <3>2, <3>3
  <2> QED  BY <2>3, <2>4, <2>5
<1>9. CASE ScorerRaises(r)
  <2>1. pc[r] = "score" /\ pc'[r] = "finally"
    BY <1>0, <1>9 DEF TypeOK, Goto, ScorerRaises
  <2>2. StepsLeft(r) > 10
    BY <1>0, <1>1, <2>1, ScoreCount
  <2> QED  BY <1>4, <2>1, <2>2 DEF Counted
<1>10. CASE NothingToDestroy(r) \/ Destroy(r) \/ DestroyFails(r)
  <2>1. pc[r] = "finally" /\ pc'[r] \in {"raised", "classify"}
    BY <1>0, <1>10 DEF TypeOK, Goto, LeaveFinally, NothingToDestroy, Destroy,
       DestroyFails, Destroyed
  <2> QED  BY <1>4, <2>1 DEF Counted, Terminal
<1>11. CASE Judge(r)
  <2>1. pc[r] = "classify" /\ pc'[r] = "persist"
    BY <1>0, <1>11 DEF TypeOK, Goto, Judge, Judged
  <2>2. Cardinality(pending'[r]) \in 0..7
    BY <1>0, PendingFinite DEF TypeInv, TypeOK
  <2> QED  BY <1>4, <2>1, <2>2 DEF Counted
<1>12. CASE Put(r)
  <2>1. PICK name \in FileNames :
            /\ IsNext(r, name)
            /\ pending' = [pending EXCEPT ![r] = @ \ {name}]
            /\ Goto(r, IF pending[r] = {name} THEN "complete" ELSE "persist")
    BY <1>12 DEF Put
  <2>2. name \in pending[r] /\ pending'[r] = pending[r] \ {name}
    BY <1>0, <2>1 DEF TypeOK, IsNext
  <2>3. Cardinality(pending'[r]) = Cardinality(pending[r]) - 1
    <3>1. IsFiniteSet(pending[r])
      BY <1>0, PendingFinite DEF TypeOK
    <3>2. Cardinality(pending[r] \ {name}) = Cardinality(pending[r]) - 1
      BY <2>2, <3>1, FS_RemoveElement
    <3> QED  BY <2>2, <3>2
  <2>4. pc[r] = "persist" /\ pc'[r] \in {"complete", "persist"}
    BY <1>0, <1>12, <2>1 DEF TypeOK, Goto, Put
  <2>5. Cardinality(pending'[r]) \in 0..7
    BY <1>0, PendingFinite DEF TypeInv, TypeOK
  <2> QED  BY <1>2, <1>4, <2>3, <2>4, <2>5 DEF Counted
<1>13. CASE PutFails(r)
  <2>1. pc[r] = "persist" /\ pc'[r] = "complete" /\ pending[r] # {}
    BY <1>0, <1>13
       DEF TypeOK, Goto, PutFails, PersistFailed, CutShort, IsNext
  <2>2. Cardinality(pending[r]) # 0
    BY <1>0, <2>1, PendingFinite, FS_EmptySet DEF TypeOK
  <2> QED  BY <1>2, <1>4, <2>1, <2>2 DEF Counted
<1>14. CASE Complete(r)
    BY <1>0, <1>4, <1>14 DEF TypeOK, Goto, Complete, Counted, Terminal
<1>15. CASE Interrupt(r) \/ Crash(r)
  <2>1. /\ pc[r] \in Places \ Terminal
        /\ pc'[r] \in {"finally", "raised", "dead"}
        /\ pc'[r] = "finally" => pc[r] \in Guarded
    BY <1>0, <1>15 DEF TypeOK, Goto, Interrupt, Crash
  <2>2. pc[r] = "score" => StepsLeft(r) \in Int /\ StepsLeft(r) > 10
    BY <1>0, <1>1, ScoreCount
  <2>3. CASE pc'[r] = "finally"
    BY <1>1, <1>4, <2>1, <2>2, <2>3 DEF Guarded, Counted
  <2>4. CASE pc'[r] # "finally"
    <3>1. StepsLeft(r)' = 0
      BY <1>4, <2>1, <2>4 DEF Counted, Terminal
    <3>2. StepsLeft(r) > 0
      <4>1. pc[r] # "score" =>
                StepsLeft(r) \in {Len(Scorers) + 16, Len(Scorers) + 15,
                   Len(Scorers) + 14, Len(Scorers) + 13, Len(Scorers) + 12,
                   Len(Scorers) + 11, 10, 9, 1, Cardinality(pending[r]) + 1}
        BY <1>4, <2>1 DEF Places, Guarded, Counted, Terminal
      <4>2. CASE pc[r] # "score"
        BY <1>1, <1>2, <4>1, <4>2
      <4> QED  BY <2>2, <4>2
    <3> QED  BY <3>1, <3>2
  <2> QED  BY <2>3, <2>4
<1> QED
    BY <1>5, <1>6, <1>7, <1>8, <1>9, <1>10, <1>11, <1>12, <1>13, <1>14, <1>15 DEF Step

\* RunsGetOn: whatever fails, is interrupted or dies, every step brings its run,
\* and no other, nearer to its end.
THEOREM GetOn == Spec => RunsGetOn
<1>1. ASSUME Inv, NEW r \in Runs, Step(r) \/ Interrupt(r) \/ Crash(r),
             NEW q \in Runs \ {r}
      PROVE  StepsLeft(q)' = StepsLeft(q)
    BY <1>1, OthersKeep DEF Inv, TypeInv, StepsLeft
<1>2. ASSUME Inv, Next, ~ UNCHANGED vars
      PROVE  \E r \in Runs : /\ StepsLeft(r)' < StepsLeft(r)
                             /\ \A q \in Runs \ {r} : StepsLeft(q)' = StepsLeft(q)
  <2>1. PICK r \in Runs : Step(r) \/ Interrupt(r) \/ Crash(r)
    BY <1>2 DEF Next, Finished
  <2>2. StepsLeft(r)' < StepsLeft(r)
    BY <1>2, <2>1, StepLowers
  <2> QED  BY <1>1, <1>2, <2>1, <2>2
<1> DEFINE Nearer == \E r \in Runs :
               /\ StepsLeft(r)' < StepsLeft(r)
               /\ \A q \in Runs \ {r} : StepsLeft(q)' = StepsLeft(q)
<1>3. Inv /\ [Next]_vars => [Nearer]_vars
    BY <1>2
<1> QED  BY <1>3, Invariant, PTL DEF Spec, RunsGetOn

\* The count never leaves the numbers from 0 to 16 and the number of scorers, so a
\* run takes no more steps than that: with a step taken whenever one is possible
\* it is over.
THEOREM StepsBounded ==
    Spec => [](\A r \in Runs : StepsLeft(r) \in 0..(Len(Scorers) + 16))
<1>1. Inv => \A r \in Runs : StepsLeft(r) \in 0..(Len(Scorers) + 16)
    BY StepsLeftBounds DEF Inv
<1> QED  BY <1>1, Invariant, PTL
=============================================================================
