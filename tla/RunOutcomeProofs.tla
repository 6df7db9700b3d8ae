-------------------------- MODULE RunOutcomeProofs --------------------------
(***************************************************************************)
(* What a closed run is called and what its files say, for every set of    *)
(* runs and every sequence of scorers; and that RunLifecycle implements    *)
(* RunContract.  Builds on the invariant of RunLifecycleProofs.            *)
(***************************************************************************)
EXTENDS RunLifecycleProofs

-----------------------------------------------------------------------------
(* The second inductive invariant.                                         *)

\* The manifest is the last file and closes a complete set of equals; before
\* it there is nothing but what the artifacts list, and the file cut short.
Closing(r) ==
    LET m == files[r]["manifest.json"] IN
    /\ \A n \in FileNames \ {"failure.json"} : files[r][n] = m
    /\ files[r]["failure.json"] \in {Absent, m}
    /\ m.classification # "success" => files[r]["failure.json"] = m
    /\ m.cleanup \/ m.classification = "environment"

HasManifest(r) == files[r]["manifest.json"].state = "intact"

Ended(r) == pc[r] = "complete" \/ Completed(r)

FilesInv(r) ==
    /\ pc[r] \notin {"persist", "complete"} \cup Terminal =>
          \A n \in FileNames : files[r][n] = Absent
    /\ pc[r] = "persist" =>
          /\ "manifest.json" \notin artifacts[r]
          /\ \A n \in FileNames \ artifacts[r] : files[r][n] = Absent
    /\ HasManifest(r) => pc[r] \in {"complete"} \cup Terminal /\ Closing(r)
    /\ Ended(r) => (HasManifest(r) <=> artifacts[r] # {})
    /\ Ended(r) /\ artifacts[r] = {} => verdict[r].classification = "environment"

\* Where each part of the failure comes from.
FailureInv(r) ==
    /\ pc[r] \in BeforeScoring \cup {"score"} => failure[r] = {}
    /\ pc[r] \in {"execute", "collect", "score"} => workspace[r]
    /\ "execution" \in failure[r] => scores[r] = <<>>
    /\ "scorer" \in failure[r] => \E s \in InRange(scores[r]) : s.error
    /\ "cleanup" \in failure[r] => ~cleanup[r] /\ pc[r] # "finally"
    /\ pc[r] = "finally" /\ ~interrupted[r] /\ ~workspace[r] => "execution" \in failure[r]
    /\ pc[r] = "classify" \/ Settled(r) =>
          cleanup[r] \/ failure[r] \cap {"execution", "cleanup"} # {}
    /\ \/ pc[r] = "finally" /\ ~interrupted[r]
       \/ pc[r] = "classify" \/ Settled(r)
       => failure[r] \cap {"execution", "scorer"} # {} \/ Len(scores[r]) = Len(Scorers)

\* The verdict is the judgment's until a file could not be written.
VerdictInv(r) ==
    /\ "artifact" \in failure[r] =>
          /\ pc[r] \in {"complete"} \cup Terminal
          /\ Ended(r) => verdict[r].classification = "environment"
    /\ Settled(r) /\ "artifact" \notin failure[r] =>
          /\ verdict[r].classification = ClassificationOf(r)
          /\ verdict[r].reason = ReasonOf(harness[r], failure[r])
          /\ pc[r] # "persist" => artifacts[r] # {}

ProvenanceInv(r) ==
    /\ pc[r] \in {"idle", "create_experiment", "create_run", "prepare", "execute"} =>
          harness[r] = NoHarnessResult
    /\ (pc[r] \notin {"idle"} \cup Terminal \/ Completed(r)) /\ provenance[r].reproducible =>
          kind[r] = "fake" \/ harness[r].sandbox

\* From create_run to complete_run the row says "running".
OpenInv(r) ==
    pc[r] \notin {"idle", "create_experiment", "create_run"} \cup Terminal =>
        row[r].status = "running"

OutcomeInv(r) ==
    /\ FilesInv(r) /\ FailureInv(r) /\ VerdictInv(r)
    /\ ProvenanceInv(r) /\ OpenInv(r)

FullInv == Inv /\ \A r \in Runs : OutcomeInv(r)

-----------------------------------------------------------------------------
(* The invariant is inductive.  A step of one run leaves the others alone. *)

LEMMA OthersOutcome ==
    ASSUME FullInv, NEW r \in Runs, Step(r) \/ Interrupt(r) \/ Crash(r),
           NEW q \in Runs \ {r}
    PROVE  OutcomeInv(q)'
<1>1. OutcomeInv(q) /\ TypeOK
    BY DEF FullInv, Inv, TypeInv
<1> QED
    BY <1>1, OthersKeep DEF OutcomeInv, FilesInv, FailureInv, VerdictInv,
       ProvenanceInv, OpenInv, Closing, HasManifest, Ended, Completed, Settled,
       ClassificationOf

\* The file a put ends early with is never whole, and the others stay.
LEMMA CutShortFiles ==
    ASSUME TypeOK, NEW r \in Runs, CutShort(r)
    PROVE  \E name \in pending[r] :
              /\ files'[r][name].state # "intact"
              /\ \A n \in FileNames \ {name} : files'[r][n] = files[r][n]
<1>1. PICK name \in FileNames :
          name \in pending[r] /\ \E c \in {Absent, Partial} :
              files' = [files EXCEPT ![r][name] = c]
    BY DEF CutShort, IsNext
<1>2. PICK c \in {Absent, Partial} : files' = [files EXCEPT ![r][name] = c]
    BY <1>1
<1>3. files'[r] = [files[r] EXCEPT ![name] = c] /\ files[r] \in [FileNames -> Content]
    BY <1>2 DEF TypeOK
<1>4. c.state # "intact"
    BY DEF Absent, Partial
<1> QED  BY <1>1, <1>3, <1>4

\* The manifest's turn comes when nothing else is owed.
LEMMA ManifestIsLast ==
    ASSUME TypeOK, NEW r \in Runs, IsNext(r, "manifest.json")
    PROVE  pending[r] = {"manifest.json"}
<1>1. ASSUME NEW m \in pending[r] PROVE m = "manifest.json"
  <2>1. m \in FileNames /\ Rank("manifest.json") <= Rank(m)
    BY <1>1 DEF IsNext, TypeOK
  <2>2. Rank("manifest.json") = 7
    BY DEF Rank
  <2>3. m # "manifest.json" => Rank(m) \in 1..6
    BY <2>1 DEF Rank, FileNames
  <2> QED  BY <2>1, <2>2, <2>3
<1> QED  BY <1>1 DEF IsNext

LEMMA PutFiles ==
    ASSUME FullInv, NEW r \in Runs, Put(r) PROVE FilesInv(r)'
<1> USE DEF FilesInv, Ended, Completed, Terminal, Goto
<1>0. TypeOK /\ FilesInv(r) /\ RunInv(r)
    BY DEF FullInv, Inv, TypeInv, OutcomeInv
<1>1. PICK name \in FileNames :
        /\ IsNext(r, name)
        /\ files' = [files EXCEPT ![r][name] = Intact(r)]
        /\ artifacts' = [artifacts EXCEPT ![r] = @ \cup {name}]
        /\ pending' = [pending EXCEPT ![r] = @ \ {name}]
        /\ Goto(r, IF pending[r] = {name} THEN "complete" ELSE "persist")
    BY DEF Put
<1>2. /\ pc[r] = "persist" /\ name \in pending[r]
      /\ artifacts'[r] = artifacts[r] \cup {name}
      /\ files'[r] = [files[r] EXCEPT ![name] = Intact(r)]
      /\ files[r] \in [FileNames -> Content]
      /\ pc'[r] = IF pending[r] = {name} THEN "complete" ELSE "persist"
      /\ verdict'[r] = verdict[r] /\ failure'[r] = failure[r] /\ row'[r] = row[r]
    BY <1>0, <1>1 DEF TypeOK, Put, IsNext
<1>3. /\ artifacts[r] \subseteq Owed(r) /\ pending[r] = Owed(r) \ artifacts[r]
      /\ \A n \in artifacts[r] : files[r][n] = Intact(r)
      /\ ~cleanup[r] => verdict[r].classification = "environment"
      /\ row'[r].status \notin {"succeeded", "failed"}
    BY <1>0, <1>2 DEF RunInv, EvidenceInv, LeakInv, RowInv, Settled, Owed
<1>4. /\ "manifest.json" \in Owed(r) /\ Owed(r) \subseteq FileNames
      /\ FileNames \ Owed(r) \subseteq {"failure.json"}
      /\ verdict[r].classification # "success" => Owed(r) = FileNames
    BY DEF Owed, Payloads, FileNames
<1>5. CASE name = "manifest.json"
  <2>1. pending[r] = {"manifest.json"}
    BY <1>0, <1>1, <1>5, ManifestIsLast
  <2>2. \A n \in Owed(r) : files'[r][n] = Intact(r)
    BY <1>2, <1>3, <1>4, <1>5, <2>1
  <2>3. \A n \in FileNames \ Owed(r) : files'[r][n] = Absent
    BY <1>0, <1>2, <1>3, <1>4, <1>5
  <2>4. Intact(r).state = "intact" /\ Intact(r).classification = verdict[r].classification
           /\ Intact(r).cleanup = cleanup[r]
    BY DEF Intact
  <2>5. Closing(r)'
    BY <1>3, <1>4, <2>2, <2>3, <2>4 DEF Closing, FileNames
  <2>6. pc'[r] = "complete" /\ HasManifest(r)' /\ artifacts'[r] # {}
    BY <1>2, <1>4, <1>5, <2>1, <2>2, <2>4 DEF HasManifest
  <2> QED  BY <2>5, <2>6
<1>6. CASE name # "manifest.json"
  <2>1. "manifest.json" \in pending[r]
    BY <1>0, <1>2, <1>3, <1>4
  <2>2. pc'[r] = "persist"
    BY <1>2, <1>6, <2>1
  <2>3. \A n \in FileNames \ artifacts'[r] : files'[r][n] = Absent
    BY <1>0, <1>2
  <2>4. "manifest.json" \notin artifacts'[r]
    BY <1>0, <1>2, <1>6
  <2>5. ~HasManifest(r)'
    BY <2>3, <2>4 DEF HasManifest, Absent, FileNames
  <2> QED  BY <1>3, <2>2, <2>3, <2>4, <2>5
<1> QED  BY <1>5, <1>6

LEMMA FilesStep ==
    ASSUME FullInv, NEW r \in Runs, Step(r) \/ Interrupt(r) \/ Crash(r)
    PROVE  FilesInv(r)'
<1> USE DEF FilesInv, Ended, Completed, Closing, HasManifest, Terminal, Goto, locals,
            stores
<1>0. TypeOK /\ FilesInv(r) /\ RunInv(r)
    BY DEF FullInv, Inv, TypeInv, OutcomeInv
<1>1. ~Absent.cleanup /\ Absent.state # "intact"
    BY DEF Absent
<1>2. CASE Resolve(r) \/ CreateExperiment(r) \/ CreateRun(r) \/ Raise(r)
  <2>1. /\ pc[r] \in {"idle", "create_experiment", "create_run", "complete"}
        /\ pc'[r] \in {"create_experiment", "create_run", "prepare", "raised"}
        /\ pc[r] = "complete" => pc'[r] = "raised"
        /\ files' = files /\ artifacts' = artifacts /\ verdict' = verdict
    BY <1>0, <1>2 DEF TypeOK, Resolve, CreateExperiment, CreateRun, Raise
  <2>2. row'[r].status \notin {"succeeded", "failed"}
    <3>1. CASE CreateRun(r)
      BY <1>0, <3>1 DEF TypeOK, CreateRun, Row
    <3>2. CASE Resolve(r) \/ CreateExperiment(r) \/ Raise(r)
      BY <1>0, <3>2, <2>1 DEF RunInv, RowInv, Resolve, CreateExperiment, Raise
    <3> QED  BY <1>2, <3>1, <3>2
  <2>3. pc[r] # "complete" => \A n \in FileNames : files[r][n] = Absent
    BY <1>0, <2>1
  <2> QED  BY <1>0, <1>1, <2>1, <2>2, <2>3 DEF FileNames
<1>3. CASE Prepare(r) \/ Execute(r) \/ CollectDiff(r) \/ StepRaises(r) \/ Score(r)
             \/ ScorerRaises(r)
    BY <1>0, <1>3 DEF TypeOK, RunInv, RowInv, Prepare, Execute, CollectDiff,
       StepRaises, Score, ScorerRaises
<1>4. CASE NothingToDestroy(r) \/ Destroy(r) \/ DestroyFails(r)
    BY <1>0, <1>1, <1>4 DEF TypeOK, RunInv, RowInv, NothingToDestroy, Destroy,
       DestroyFails, Destroyed, LeaveFinally, FileNames
<1>5. CASE Judge(r)
  <2>1. /\ pc[r] = "classify" /\ pc'[r] = "persist" /\ row'[r] = row[r]
        /\ files' = files /\ artifacts' = artifacts
    BY <1>0, <1>5 DEF TypeOK, Judge, Judged
  <2>2. artifacts[r] = {} /\ ~Completed(r)
    BY <1>0, <2>1 DEF RunInv, EvidenceInv, RowInv
  <2> QED  BY <1>0, <1>1, <2>1, <2>2 DEF FileNames
<1>6. CASE Put(r)
    BY <1>6, PutFiles
<1>7. ASSUME CutShort(r), pc[r] = "persist" PROVE ~HasManifest(r)'
  <2>1. files[r]["manifest.json"] = Absent
    BY <1>0, <1>7 DEF FileNames
  <2> QED  BY <1>0, <1>1, <1>7, <2>1, CutShortFiles DEF FileNames
<1>8. CASE PutFails(r)
  <2>1. /\ pc[r] = "persist" /\ pc'[r] = "complete" /\ artifacts'[r] = {}
        /\ verdict'[r].classification = "environment"
    BY <1>0, <1>8 DEF TypeOK, PutFails, PersistFailed
  <2>2. ~HasManifest(r)'
    BY <1>7, <1>8 DEF PutFails, PersistFailed
  <2> QED  BY <2>1, <2>2
<1>9. CASE Complete(r)
  <2>1. pc[r] = "complete" /\ pc'[r] = "returned"
    BY <1>0, <1>9 DEF TypeOK, Complete
  <2> QED  BY <1>0, <1>9, <2>1 DEF TypeOK, Complete
<1>10. CASE Interrupt(r) \/ Crash(r)
  <2>1. /\ pc[r] \notin Terminal /\ row'[r] = row[r] /\ artifacts' = artifacts
        /\ pc'[r] \in {"finally", "raised", "dead"}
        /\ pc'[r] = "finally" => pc[r] \in Guarded
        /\ files' = files \/ (pc[r] = "persist" /\ CutShort(r))
    <3>1. /\ CutOff(r) /\ pc[r] \notin Terminal /\ artifacts' = artifacts
          /\ pc'[r] \in {"finally", "raised", "dead"}
          /\ pc'[r] = "finally" => pc[r] \in Guarded
      BY <1>0, <1>10 DEF TypeOK, Interrupt, Crash
    <3>2. row' = row /\ (files' = files \/ (pc[r] = "persist" /\ CutShort(r)))
      BY <3>1 DEF CutOff
    <3> QED  BY <3>1, <3>2
  <2>2. ~Completed(r)
    BY <1>0, <2>1 DEF RunInv, RowInv
  <2>3. CASE pc[r] = "persist" /\ CutShort(r)
    BY <1>7, <2>1, <2>2, <2>3 DEF Guarded
  <2>4. CASE files' = files
    BY <1>0, <1>1, <2>1, <2>2, <2>4 DEF Guarded, FileNames
  <2> QED  BY <2>1, <2>3, <2>4
<1> QED
    BY <1>2, <1>3, <1>4, <1>5, <1>6, <1>8, <1>9, <1>10 DEF Step

LEMMA FailureStep ==
    ASSUME FullInv, NEW r \in Runs, Step(r) \/ Interrupt(r) \/ Crash(r)
    PROVE  FailureInv(r)'
<1> USE DEF FailureInv, Settled, Completed, Terminal, BeforeScoring, Goto, locals, stores
<1>0. TypeOK /\ FailureInv(r) /\ RunInv(r)
    BY DEF FullInv, Inv, TypeInv, OutcomeInv
<1>1. ScoringInBounds
    BY DEF FullInv, Inv, TypeInv
<1>2. CASE Resolve(r) \/ CreateExperiment(r) \/ Raise(r) \/ Prepare(r)
    BY <1>0, <1>2 DEF TypeOK, RunInv, RowInv, Resolve, CreateExperiment, Raise, Prepare
<1>16. CASE CreateRun(r)
    BY <1>0, <1>16 DEF TypeOK, RunInv, RowInv, CreateRun, Row
<1>3. CASE Execute(r)
    BY <1>0, <1>3 DEF TypeOK, RunInv, RowInv, Execute
<1>4. CASE CollectDiff(r)
    BY <1>0, <1>1, <1>4 DEF TypeOK, RunInv, RowInv, CollectDiff, ScoringInBounds
<1>5. CASE StepRaises(r)
    BY <1>0, <1>1, <1>5 DEF TypeOK, RunInv, RowInv, StepRaises, ScoringInBounds
<1>6. CASE Score(r)
    BY <1>0, <1>6 DEF TypeOK, RunInv, RowInv, Score
<1>7. CASE ScorerRaises(r)
  <2>1. scores[r] \in Seq(ScoreResult) /\ scores'[r] = Append(scores[r], RaisedScore)
    BY <1>0, <1>7 DEF TypeOK, ScorerRaises
  <2>2. RaisedScore \in InRange(scores'[r]) /\ RaisedScore.error
    BY <2>1, RaisedScoreType DEF InRange, RaisedScore
  <2> QED  BY <1>0, <1>7, <2>2 DEF TypeOK, RunInv, RowInv, ScorerRaises
<1>8. CASE NothingToDestroy(r)
    BY <1>0, <1>8 DEF TypeOK, RunInv, RowInv, LeakInv, NothingToDestroy, LeaveFinally
<1>9. CASE Destroy(r)
  <2>1. /\ pc[r] = "finally" /\ pc'[r] \in {"raised", "classify"} /\ cleanup'[r]
        /\ pc'[r] = "classify" => ~interrupted[r]
        /\ failure'[r] = failure[r]
        /\ UNCHANGED <<workspace, scores, row, interrupted>>
    BY <1>0, <1>9 DEF TypeOK, Destroy, Destroyed, LeaveFinally
  <2>2. ~cleanup[r] /\ ~Completed(r)
    BY <1>0, <2>1 DEF RunInv, CleanupInv, RowInv
  <2>3. "cleanup" \notin failure[r]
    BY <1>0, <2>1
  <2> QED  BY <1>0, <2>1, <2>2, <2>3
<1>10. CASE DestroyFails(r)
    BY <1>0, <1>10 DEF TypeOK, RunInv, RowInv, LeakInv, DestroyFails, Destroyed,
       LeaveFinally
<1>11. CASE Judge(r)
  <2>1. /\ pc[r] = "classify" /\ pc'[r] = "persist" /\ row' = row
        /\ failure'[r] = FailureOf(r) /\ scores' = scores /\ cleanup' = cleanup
    BY <1>0, <1>11 DEF TypeOK, Judge, Judged
  <2>2. \/ FailureOf(r) = failure[r]
        \/ /\ failure[r] = {} /\ FailureOf(r) = {"scorer"}
           /\ \E s \in InRange(scores[r]) : s.error
    BY DEF FailureOf
  <2> QED  BY <1>0, <2>1, <2>2 DEF RunInv, RowInv
<1>12. CASE Put(r)
    BY <1>0, <1>12 DEF TypeOK, RunInv, RowInv, Put
<1>13. CASE PutFails(r)
    BY <1>0, <1>13 DEF TypeOK, RunInv, RowInv, PutFails, PersistFailed
<1>14. CASE Complete(r)
    BY <1>0, <1>14 DEF TypeOK, Complete
<1>15. CASE Interrupt(r) \/ Crash(r)
    BY <1>0, <1>15 DEF TypeOK, RunInv, RowInv, Interrupt, Crash, CutOff, Guarded
<1> QED
    BY <1>2, <1>3, <1>4, <1>5, <1>6, <1>7, <1>8, <1>9, <1>10, <1>11, <1>12, <1>13,
       <1>14, <1>15, <1>16 DEF Step

LEMMA VerdictStep ==
    ASSUME FullInv, NEW r \in Runs, Step(r) \/ Interrupt(r) \/ Crash(r)
    PROVE  VerdictInv(r)'
<1> USE DEF VerdictInv, Ended, Settled, Completed, Terminal, Goto, locals, stores
<1>0. TypeOK /\ VerdictInv(r) /\ RunInv(r) /\ FailureInv(r)
    BY DEF FullInv, Inv, TypeInv, OutcomeInv
<1>1. CASE Resolve(r) \/ CreateExperiment(r) \/ Prepare(r)
    BY <1>0, <1>1 DEF TypeOK, RunInv, RowInv, Resolve, CreateExperiment, Prepare
<1>9. CASE CreateRun(r)
    BY <1>0, <1>9 DEF TypeOK, CreateRun, Row, FailureInv, BeforeScoring
<1>10. CASE Raise(r)
    BY <1>0, <1>10 DEF TypeOK, RunInv, RowInv, Raise
<1>2. CASE Execute(r) \/ CollectDiff(r) \/ StepRaises(r) \/ Score(r) \/ ScorerRaises(r)
    BY <1>0, <1>2 DEF TypeOK, RunInv, RowInv, Execute, CollectDiff, StepRaises, Score,
       ScorerRaises
<1>3. CASE NothingToDestroy(r) \/ Destroy(r) \/ DestroyFails(r)
    BY <1>0, <1>3 DEF TypeOK, RunInv, RowInv, NothingToDestroy, Destroy, DestroyFails,
       Destroyed, LeaveFinally
<1>4. CASE Judge(r)
  <2>1. /\ pc[r] = "classify" /\ pc'[r] = "persist" /\ row' = row
        /\ failure'[r] = FailureOf(r)
        /\ verdict'[r].classification = ClassificationOf(r)
        /\ verdict'[r].reason = ReasonOf(harness[r], FailureOf(r))
        /\ harness' = harness /\ scores' = scores /\ cleanup' = cleanup
    BY <1>0, <1>4 DEF TypeOK, Judge, Judged
  <2>2. "artifact" \notin FailureOf(r)
    BY <1>0, <2>1 DEF FailureOf
  <2>3. ClassificationOf(r)' = ClassificationOf(r)
    BY <2>1 DEF ClassificationOf
  <2> QED  BY <1>0, <2>1, <2>2, <2>3 DEF RunInv, RowInv
<1>5. CASE Put(r)
  <2>1. /\ pc[r] = "persist" /\ pc'[r] \in {"persist", "complete"} /\ row' = row
        /\ artifacts'[r] # {}
        /\ UNCHANGED <<failure, verdict, harness, scores, cleanup>>
    BY <1>0, <1>5 DEF TypeOK, Put
  <2>2. ClassificationOf(r)' = ClassificationOf(r)
    BY <2>1 DEF ClassificationOf
  <2> QED  BY <1>0, <2>1, <2>2 DEF RunInv, RowInv
<1>6. CASE PutFails(r)
    BY <1>0, <1>6 DEF TypeOK, PutFails, PersistFailed
<1>7. CASE Complete(r)
  <2>1. ClassificationOf(r)' = ClassificationOf(r)
    BY <1>7 DEF Complete, ClassificationOf
  <2> QED  BY <1>0, <1>7, <2>1 DEF TypeOK, Complete
<1>8. CASE Interrupt(r) \/ Crash(r)
    BY <1>0, <1>8 DEF TypeOK, RunInv, RowInv, Interrupt, Crash, CutOff, Guarded
<1> QED
    BY <1>1, <1>2, <1>3, <1>4, <1>5, <1>6, <1>7, <1>8, <1>9,
       <1>10 DEF Step

LEMMA ProvenanceStep ==
    ASSUME FullInv, NEW r \in Runs, Step(r) \/ Interrupt(r) \/ Crash(r)
    PROVE  ProvenanceInv(r)'
<1> USE DEF ProvenanceInv, Completed, Terminal, Goto, locals, stores
<1>0. TypeOK /\ ProvenanceInv(r) /\ RunInv(r)
    BY DEF FullInv, Inv, TypeInv, OutcomeInv
<1>1. CASE Resolve(r)
  <2>1. provenance'[r].reproducible = (kind[r] = "fake")
    BY <1>0, <1>1 DEF TypeOK, Resolve, Provenance
  <2> QED  BY <1>0, <1>1, <2>1 DEF TypeOK, Resolve
<1>2. CASE CreateExperiment(r) \/ CreateRun(r) \/ Raise(r) \/ Prepare(r)
    BY <1>0, <1>2 DEF TypeOK, RunInv, RowInv, CreateExperiment, CreateRun, Raise, Prepare
<1>3. CASE Execute(r)
  <2>1. PICK h \in ResultsOf(kind[r]) :
            /\ harness' = [harness EXCEPT ![r] = h]
            /\ provenance' = [provenance EXCEPT ![r] =
                  IF h.sandbox THEN WithSandbox(@, kind[r]) ELSE @]
    BY <1>3 DEF Execute
  <2>2. ~NoHarnessResult.sandbox
    BY DEF NoHarnessResult
  <2> QED  BY <1>0, <1>3, <2>1, <2>2 DEF TypeOK, Execute
<1>4. CASE CollectDiff(r) \/ StepRaises(r) \/ Score(r) \/ ScorerRaises(r)
    BY <1>0, <1>4 DEF TypeOK, RunInv, RowInv, CollectDiff, StepRaises, Score, ScorerRaises
<1>5. CASE NothingToDestroy(r) \/ Destroy(r) \/ DestroyFails(r)
    BY <1>0, <1>5 DEF TypeOK, RunInv, RowInv, NothingToDestroy, Destroy, DestroyFails,
       Destroyed, LeaveFinally
<1>6. CASE Judge(r) \/ Put(r) \/ PutFails(r) \/ Complete(r)
    BY <1>0, <1>6 DEF TypeOK, RunInv, RowInv, Judge, Judged, Put, PutFails,
       PersistFailed, Complete
<1>7. CASE Interrupt(r) \/ Crash(r)
    BY <1>0, <1>7 DEF TypeOK, RunInv, RowInv, Interrupt, Crash, CutOff, Guarded
<1> QED
    BY <1>1, <1>2, <1>3, <1>4, <1>5, <1>6, <1>7 DEF Step

LEMMA OpenStep ==
    ASSUME FullInv, NEW r \in Runs, Step(r) \/ Interrupt(r) \/ Crash(r)
    PROVE  OpenInv(r)'
<1> USE DEF OpenInv, Terminal, Goto, stores
<1>0. TypeOK /\ OpenInv(r)
    BY DEF FullInv, Inv, TypeInv, OutcomeInv
<1>1. CASE CreateRun(r)
    BY <1>0, <1>1 DEF TypeOK, CreateRun, Row
<1>2. CASE Complete(r)
    BY <1>0, <1>2 DEF TypeOK, Complete
<1>3. CASE Resolve(r) \/ CreateExperiment(r) \/ Raise(r) \/ Prepare(r) \/ Execute(r)
             \/ CollectDiff(r) \/ StepRaises(r) \/ Score(r) \/ ScorerRaises(r)
    BY <1>0, <1>3 DEF TypeOK, Resolve, CreateExperiment, Raise, Prepare, Execute,
       CollectDiff, StepRaises, Score, ScorerRaises
<1>4. CASE NothingToDestroy(r) \/ Destroy(r) \/ DestroyFails(r)
    BY <1>0, <1>4 DEF TypeOK, NothingToDestroy, Destroy, DestroyFails, Destroyed,
       LeaveFinally
<1>5. CASE Judge(r) \/ Put(r) \/ PutFails(r)
    BY <1>0, <1>5 DEF TypeOK, Judge, Judged, Put, PutFails, PersistFailed
<1>6. CASE Interrupt(r) \/ Crash(r)
    BY <1>0, <1>6 DEF TypeOK, Interrupt, Crash, CutOff, Guarded
<1> QED  BY <1>1, <1>2, <1>3, <1>4, <1>5, <1>6 DEF Step

LEMMA InitFull == Init => FullInv
<1> SUFFICES ASSUME Init, NEW r \in Runs PROVE OutcomeInv(r)
    BY InitInv DEF FullInv
<1> QED
    BY DEF Init, OutcomeInv, FilesInv, FailureInv, VerdictInv, ProvenanceInv, OpenInv,
       Closing, HasManifest, Ended, Completed, Settled, AbsentRow, Absent, Terminal,
       BeforeScoring, FileNames

LEMMA NextFull == FullInv /\ [Next]_vars => FullInv'
<1>1. ASSUME FullInv, NEW r \in Runs, Step(r) \/ Interrupt(r) \/ Crash(r)
      PROVE  FullInv'
  <2>1. Inv'
    BY <1>1, NextInv DEF FullInv, Next
  <2>2. ASSUME NEW q \in Runs PROVE OutcomeInv(q)'
    BY <1>1, FilesStep, FailureStep, VerdictStep, ProvenanceStep, OpenStep,
       OthersOutcome
       DEF OutcomeInv
  <2> QED  BY <2>1, <2>2 DEF FullInv
<1>2. ASSUME FullInv, UNCHANGED vars PROVE FullInv'
  <2>1. Inv'
    BY <1>2, NextInv DEF FullInv
  <2> QED
    BY <1>2, <2>1 DEF FullInv, OutcomeInv, FilesInv, FailureInv, VerdictInv,
       ProvenanceInv, OpenInv, Closing, HasManifest, Ended, Completed, Settled,
       ClassificationOf, vars, locals, stores
<1> QED  BY <1>1, <1>2 DEF Next, Finished

LEMMA FullInvariant == Spec => []FullInv
BY InitFull, NextFull, PTL DEF Spec

-----------------------------------------------------------------------------
(* What a closed run is called.                                            *)

\* A success in the judgment's terms.
LEMMA JudgedSuccess ==
    ASSUME FullInv, NEW r \in Runs
    PROVE  ClassificationOf(r) = "success" <=>
              /\ cleanup[r] /\ harness[r].exit_code = 0 /\ ~harness[r].timed_out
              /\ harness[r].failure_kind = None
              /\ scores[r] # <<>>
              /\ \A s \in InRange(scores[r]) : s.passed /\ ~s.error
<1>1. harness[r].failure_kind \in FailureKinds
    BY DEF FullInv, Inv, TypeInv, TypeOK, HarnessResult
<1>2. FailedIn("editing", scores[r]) \/ FailedIn("verification", scores[r])
         => \E s \in InRange(scores[r]) : ~s.passed
    BY DEF FailedIn
<1> QED  BY <1>1, <1>2 DEF ClassificationOf, Classify, FailureKinds, None

\* SuccessIsEarned: "succeeded" stands for a run that earned it in every respect,
\* and every closed run that earned it says "succeeded".
THEOREM SuccessEarned == Spec => []SuccessIsEarned
<1>1. ASSUME FullInv, NEW r \in Runs, Completed(r)
      PROVE  /\ row[r].status = "succeeded" =>
                  /\ Earned(r)
                  /\ row[r].classification = "success"
                  /\ row[r].reason = "completed"
             /\ Earned(r) => row[r].status = "succeeded"
  <2>1. /\ Inv /\ RunInv(r) /\ FilesInv(r) /\ FailureInv(r) /\ VerdictInv(r)
        /\ Settled(r) /\ Ended(r) /\ failure[r] \in Failures
    BY <1>1 DEF FullInv, OutcomeInv, Inv, TypeInv, TypeOK, Settled, Ended
  <2>2. /\ row[r].status = StatusOf(verdict[r].classification)
        /\ row[r].classification = verdict[r].classification
        /\ row[r].reason = verdict[r].reason
    BY <1>1, <2>1, ClosedRow DEF RunInv, RowInv, Closed
  <2>3. row[r].status = "succeeded" <=> verdict[r].classification = "success"
    BY <2>2 DEF StatusOf
  <2>4. ASSUME verdict[r].classification = "success"
        PROVE  Earned(r) /\ row[r].reason = "completed"
    <3>1. /\ "artifact" \notin failure[r]
          /\ ClassificationOf(r) = "success"
          /\ verdict[r].reason = ReasonOf(harness[r], failure[r])
          /\ pc[r] = "returned" /\ artifacts[r] # {}
      BY <1>1, <2>1, <2>4 DEF VerdictInv, RunInv, RowInv
    <3>2. /\ cleanup[r] /\ harness[r].exit_code = 0 /\ ~harness[r].timed_out
          /\ harness[r].failure_kind = None /\ scores[r] # <<>>
          /\ \A s \in InRange(scores[r]) : s.passed /\ ~s.error
      BY <1>1, <3>1, JudgedSuccess
    <3>3. failure[r] = {}
      BY <2>1, <3>1, <3>2 DEF FailureInv, Failures
    <3>4. Len(scores[r]) = Len(Scorers)
      BY <2>1, <3>3 DEF FailureInv
    <3>5. Scorers # <<>>
      <4>1. scores[r] \in Seq(ScoreResult)
        BY <2>1 DEF Inv, TypeInv, TypeOK
      <4> QED  BY <3>2, <3>4, <4>1, EmptySeq, ScorersAssumption
    <3>6. ~worktree[r]
      BY <2>1, <3>2 DEF RunInv, CleanupInv
    <3>7. \A n \in FileNames \ {"failure.json"} : files[r][n].state = "intact"
      BY <2>1, <3>1 DEF FilesInv, HasManifest, Closing
    <3>8. row[r].reason = "completed"
      BY <2>2, <3>1, <3>2, <3>3 DEF ReasonOf
    <3> QED  BY <3>2, <3>3, <3>4, <3>5, <3>6, <3>7, <3>8 DEF Earned
  <2>5. ASSUME Earned(r) PROVE verdict[r].classification = "success"
    <3>1. cleanup[r]
      BY <2>1, <2>5 DEF FailureInv, Earned
    <3>2. scores[r] # <<>>
      <4>1. scores[r] \in Seq(ScoreResult)
        BY <2>1 DEF Inv, TypeInv, TypeOK
      <4> QED  BY <2>5, <4>1, EmptySeq, ScorersAssumption DEF Earned
    <3>3. ClassificationOf(r) = "success"
      BY <1>1, <2>5, <3>1, <3>2, JudgedSuccess DEF Earned
    <3> QED  BY <2>1, <2>5, <3>3 DEF VerdictInv, Earned
  <2> QED  BY <2>2, <2>3, <2>4, <2>5
<1>2. FullInv => SuccessIsEarned
    BY <1>1 DEF SuccessIsEarned, Completed
<1> QED  BY <1>2, FullInvariant, PTL

\* ManifestClosesTheSet: a manifest on disk closes a complete, agreeing set of
\* files, whatever became of the process that wrote it.
THEOREM ManifestCloses == Spec => []ManifestClosesTheSet
<1>1. FullInv => ManifestClosesTheSet
    BY DEF FullInv, OutcomeInv, FilesInv, HasManifest, Closing, ManifestClosesTheSet
<1> QED  BY <1>1, FullInvariant, PTL

\* EnvironmentIsExplained: no environment failure is recorded without a cause.
THEOREM EnvironmentExplained == Spec => []EnvironmentIsExplained
<1>1. ASSUME FullInv, NEW r \in Runs, Completed(r), row[r].classification = "environment"
      PROVE  row[r].failure # {} \/ harness[r].failure_kind = "environment"
  <2>1. Inv /\ FailureInv(r) /\ VerdictInv(r) /\ Settled(r)
    BY <1>1 DEF FullInv, OutcomeInv, Settled
  <2>2. verdict[r].classification = "environment" /\ row[r].failure = failure[r]
    BY <1>1, <2>1, ClosedRow
  <2>3. CASE failure[r] = {}
    BY <2>1, <2>2, <2>3 DEF FailureInv, VerdictInv, ClassificationOf, Classify
  <2> QED  BY <2>2, <2>3
<1>2. FullInv => EnvironmentIsExplained
    BY <1>1 DEF EnvironmentIsExplained
<1> QED  BY <1>2, FullInvariant, PTL

\* ReproducibleIsEarned: only a fake run or a run with its sandbox's identity is
\* recorded as reproducible.
THEOREM ReproducibleEarned == Spec => []ReproducibleIsEarned
<1>1. ASSUME FullInv, NEW r \in Runs, Completed(r), row[r].reproducible
      PROVE  kind[r] = "fake" \/ harness[r].sandbox
    BY <1>1, ClosedRow DEF FullInv, OutcomeInv, ProvenanceInv
<1>2. FullInv => ReproducibleIsEarned
    BY <1>1 DEF ReproducibleIsEarned
<1> QED  BY <1>2, FullInvariant, PTL

-----------------------------------------------------------------------------
(* RunLifecycle implements RunContract.                                    *)

Stays(r) ==
    Seen(r)' = Seen(r) /\ Published(r)' = Published(r) /\ Recorded(r)' = Recorded(r)

\* What a step means to a reader of the row and of the manifest.
Opens(r) ==
    /\ Seen(r) = "none" /\ Seen(r)' = "open"
    /\ Published(r)' = Published(r) /\ Recorded(r)' = Recorded(r)

Publishes(r) ==
    /\ Seen(r) = "open" /\ Seen(r)' = "open"
    /\ Published(r) = Contract!NoVerdict /\ Published(r)' \in Contract!Verdicts
    /\ Recorded(r)' = Recorded(r)

Closes(r) ==
    /\ Seen(r) = "open" /\ Seen(r)' = "closed"
    /\ Published(r)' = Published(r)
    /\ \E v \in Contract!Verdicts :
          /\ Recorded(r)' = Contract!Record(v, Published(r) # Contract!NoVerdict)
          /\ IF Published(r) = Contract!NoVerdict
               THEN v.classification = "environment" ELSE v = Published(r)

Abandons(r) ==
    /\ Seen(r) = "open" /\ Seen(r)' = "abandoned"
    /\ Published(r)' = Published(r) /\ Recorded(r)' = Recorded(r)

LEMMA MovesImplement ==
    ASSUME NEW r \in Runs,
           Stays(r) \/ Opens(r) \/ Publishes(r) \/ Closes(r) \/ Abandons(r),
           \A q \in Runs \ {r} : Stays(q)
    PROVE  [Contract!ContractNext]_(Contract!contract)
<1> DEFINE stage    == [q \in Runs |-> Seen(q)]
           manifest == [q \in Runs |-> Published(q)]
           record   == [q \in Runs |-> Recorded(q)]
<1>1. /\ stage' = [stage EXCEPT ![r] = Seen(r)']
      /\ manifest' = [manifest EXCEPT ![r] = Published(r)']
      /\ record' = [record EXCEPT ![r] = Recorded(r)']
    BY DEF Stays
<1>2. /\ Seen(r)' = Seen(r) => stage' = stage
      /\ Published(r)' = Published(r) => manifest' = manifest
      /\ Recorded(r)' = Recorded(r) => record' = record
    BY <1>1
<1>3. CASE Stays(r)
    BY <1>2, <1>3 DEF Stays, Contract!contract
<1>4. CASE Opens(r)
  <2>1. Contract!Open(r)
    BY <1>1, <1>2, <1>4 DEF Opens, Contract!Open
  <2> QED  BY <2>1 DEF Contract!ContractNext
<1>5. CASE Publishes(r)
  <2>1. Contract!Publish(r)
    BY <1>1, <1>2, <1>5 DEF Publishes, Contract!Publish
  <2> QED  BY <2>1 DEF Contract!ContractNext
<1>6. CASE Closes(r)
  <2>1. Contract!Close(r)
    BY <1>1, <1>2, <1>6 DEF Closes, Contract!Close
  <2> QED  BY <2>1 DEF Contract!ContractNext
<1>7. CASE Abandons(r)
  <2>1. Contract!Abandon(r)
    BY <1>1, <1>2, <1>7 DEF Abandons, Contract!Abandon
  <2> QED  BY <2>1 DEF Contract!ContractNext
<1> QED  BY <1>3, <1>4, <1>5, <1>6, <1>7

\* The verdict of a run that has judged itself is one the contract knows.
LEMMA SettledVerdict ==
    ASSUME FullInv, NEW r \in Runs, pc[r] \in {"persist", "complete"}
    PROVE  /\ VerdictIn(Intact(r)) \in Contract!Verdicts
           /\ VerdictIn(Closed(r)) = VerdictIn(Intact(r))
           /\ VerdictIn(Intact(r)).classification = verdict[r].classification
<1>1. /\ verdict[r].classification \in Classifications
      /\ ~cleanup[r] => verdict[r].classification = "environment"
  <2>1. LeakInv(r) /\ VerdictInv(r) /\ Settled(r)
    BY DEF FullInv, OutcomeInv, Inv, RunInv, Settled
  <2>2. ClassificationOf(r) \in Classifications
    BY ClassifyType DEF ClassificationOf, Classifications
  <2> QED
    BY <2>1, <2>2 DEF VerdictInv, LeakInv, Ended, Settled, Terminal, Classifications
<1>2. cleanup[r] \in BOOLEAN /\ provenance[r].reproducible \in BOOLEAN
    BY DEF FullInv, Inv, TypeInv, TypeOK, Provenance
<1> QED  BY <1>1, <1>2 DEF VerdictIn, Intact, Closed, Contract!Verdicts,
       Contract!Classifications, Classifications

LEMMA NothingPublished ==
    ASSUME NEW r, ~HasManifest(r) PROVE Published(r) = Contract!NoVerdict
BY DEF HasManifest, Published, VerdictIn, Absent, Contract!NoVerdict, None, Contract!None

LEMMA StepMoves ==
    ASSUME FullInv, NEW r \in Runs, Step(r) \/ Interrupt(r) \/ Crash(r)
    PROVE  Stays(r) \/ Opens(r) \/ Publishes(r) \/ Closes(r) \/ Abandons(r)
<1> USE DEF Goto, Terminal
<1>0. /\ TypeOK /\ RunInv(r) /\ FilesInv(r) /\ OpenInv(r) /\ FullInv'
      /\ pc[r] \notin {"returned", "raised", "dead"}
  <2>1. FullInv'
    BY NextFull DEF Next
  <2>2. pc[r] \notin Terminal
    BY DEF Step, Resolve, CreateExperiment, CreateRun, Raise, Prepare, Execute,
       CollectDiff, StepRaises, Score, ScorerRaises, NothingToDestroy, Destroy,
       DestroyFails, Destroyed, Judge, Judged, Put, PutFails, PersistFailed, Complete,
       Interrupt, Crash
  <2> QED  BY <2>1, <2>2 DEF FullInv, OutcomeInv, Inv, TypeInv
<1>1. ~Completed(r) /\ Seen(r) \in {"none", "open"}
    BY <1>0 DEF RunInv, RowInv, Seen
<1>2. ASSUME row' = row, Published(r)' = Published(r) PROVE Stays(r) \/ Abandons(r)
    BY <1>0, <1>1, <1>2 DEF Stays, Abandons, Seen, Recorded, Completed
<1>3. CASE CreateRun(r)
  <2>1. /\ row[r].status = "absent" /\ row'[r].status = "running"
        /\ pc'[r] = "prepare" /\ files' = files
    BY <1>0, <1>3 DEF RunInv, RowInv, TypeOK, CreateRun, Row
  <2> QED  BY <1>0, <1>1, <2>1 DEF Opens, Seen, Recorded, Published, Completed
<1>4. CASE Complete(r)
  <2>1. /\ pc[r] = "complete" /\ row[r].status = "running" /\ row'[r] = Closed(r)
        /\ verdict[r].status \in {"succeeded", "failed"} /\ files' = files
    BY <1>0, <1>4 DEF TypeOK, Complete, Closed, RunInv, RowInv, Settled, StatusOf
  <2>2. Completed(r)' /\ Seen(r) = "open" /\ Seen(r)' = "closed"
           /\ Published(r)' = Published(r)
    BY <1>1, <2>1 DEF Completed, Seen, Published, Closed
  <2>3. Recorded(r)' = Contract!Record(VerdictIn(Closed(r)), artifacts[r] # {})
    BY <2>1, <2>2 DEF Recorded, Closed, VerdictIn, Contract!Record
  <2>4. HasManifest(r) <=> artifacts[r] # {}
    BY <1>0, <2>1 DEF FilesInv, Ended
  <2>5. CASE HasManifest(r)
    <3>1. files[r]["manifest.json"] = Intact(r)
      BY <1>0, <2>1, <2>4, <2>5 DEF RunInv, EvidenceInv, Settled, Owed, Payloads,
         FileNames
    <3>2. Published(r) = VerdictIn(Closed(r)) /\ Published(r) \in Contract!Verdicts
      BY <2>1, <2>5, <3>1, SettledVerdict DEF Published, HasManifest
    <3>3. Published(r) # Contract!NoVerdict
      BY <3>2 DEF Contract!Verdicts, Contract!NoVerdict, Classifications, None,
         Contract!Classifications, Contract!None
    <3> QED  BY <2>2, <2>3, <2>4, <2>5, <3>2, <3>3 DEF Closes
  <2>6. CASE ~HasManifest(r)
    <3>1. Published(r) = Contract!NoVerdict
      BY <2>6, NothingPublished
    <3>2. verdict[r].classification = "environment"
      BY <1>0, <2>1, <2>4, <2>6 DEF FilesInv, Ended
    <3>3. VerdictIn(Closed(r)) \in Contract!Verdicts
             /\ VerdictIn(Closed(r)).classification = "environment"
      BY <2>1, <3>2, SettledVerdict
    <3> QED  BY <2>2, <2>3, <2>4, <2>6, <3>1, <3>3 DEF Closes
  <2> QED  BY <2>5, <2>6
<1>5. CASE Put(r)
  <2>1. PICK name \in FileNames :
          /\ IsNext(r, name)
          /\ files' = [files EXCEPT ![r][name] = Intact(r)]
          /\ Goto(r, IF pending[r] = {name} THEN "complete" ELSE "persist")
    BY <1>5 DEF Put
  <2>2. /\ pc[r] = "persist" /\ row' = row /\ pc'[r] \in {"persist", "complete"}
        /\ files'[r] = [files[r] EXCEPT ![name] = Intact(r)]
        /\ files[r] \in [FileNames -> Content] /\ "manifest.json" \in FileNames
    BY <1>0, <1>5, <2>1 DEF Put, TypeOK, FileNames
  <2>3. ~HasManifest(r)
    BY <1>0, <2>2 DEF FilesInv
  <2>4. CASE name # "manifest.json"
    <3>1. files'[r]["manifest.json"] = files[r]["manifest.json"]
      BY <2>2, <2>4
    <3> QED  BY <1>2, <2>2, <3>1 DEF Published
  <2>5. CASE name = "manifest.json"
    <3>1. files'[r]["manifest.json"] = Intact(r) /\ Intact(r).state = "intact"
      BY <2>2, <2>5 DEF Intact
    <3>2. Published(r)' = VerdictIn(Intact(r))
      BY <3>1 DEF Published, VerdictIn
    <3>3. row[r].status # "absent"
      BY <1>0, <2>2 DEF OpenInv
    <3>4. Seen(r) = "open" /\ Seen(r)' = "open" /\ Recorded(r)' = Recorded(r)
      BY <1>1, <2>2, <3>3 DEF Seen, Recorded, Completed
    <3>5. Published(r)' \in Contract!Verdicts
      BY <2>2, <3>2, SettledVerdict
    <3>6. Published(r) = Contract!NoVerdict
      BY <2>3, NothingPublished
    <3> QED  BY <3>4, <3>5, <3>6 DEF Publishes
  <2> QED  BY <2>4, <2>5
<1>6. ASSUME pc[r] = "persist", CutShort(r) PROVE Published(r)' = Published(r)
  <2>1. ~HasManifest(r)
    BY <1>0, <1>6 DEF FilesInv
  <2>2. PICK name \in pending[r] :
          /\ files'[r][name].state # "intact"
          /\ \A n \in FileNames \ {name} : files'[r][n] = files[r][n]
    BY <1>0, <1>6, CutShortFiles
  <2>3. ~HasManifest(r)'
    BY <2>1, <2>2 DEF HasManifest, FileNames
  <2> QED  BY <2>1, <2>3 DEF Published, HasManifest, VerdictIn, Absent
<1>7. CASE PutFails(r)
    BY <1>2, <1>6, <1>7 DEF PutFails, PersistFailed
<1>8. CASE Interrupt(r) \/ Crash(r)
  <2>1. row' = row
    BY <1>8 DEF Interrupt, Crash, CutOff
  <2>2. files' = files \/ (pc[r] = "persist" /\ CutShort(r))
    BY <1>8 DEF Interrupt, Crash, CutOff
  <2>3. Published(r)' = Published(r)
    BY <1>6, <2>2 DEF Published
  <2> QED  BY <1>2, <2>1, <2>3
<1>9. CASE ~CreateRun(r) /\ ~Complete(r) /\ ~Put(r) /\ ~PutFails(r) /\ Step(r)
  <2>1. row' = row /\ files' = files
    BY <1>9 DEF Step, Resolve, CreateExperiment, Raise, Prepare, Execute, CollectDiff,
       StepRaises, Score, ScorerRaises, NothingToDestroy, Destroy, DestroyFails,
       Destroyed, Judge, Judged, stores
  <2> QED  BY <1>2, <2>1 DEF Published
<1> QED  BY <1>3, <1>4, <1>5, <1>7, <1>8, <1>9 DEF Step

\* KeepsContract: every behaviour of RunLifecycle is one of RunContract.
THEOREM Implements == Spec => KeepsContract
<1>1. ASSUME Init PROVE Contract!ContractInit
  <2>1. ASSUME NEW r \in Runs
        PROVE  /\ Seen(r) = "none" /\ Published(r) = Contract!NoVerdict
               /\ Recorded(r) = Contract!NoRecord
    <3>1. row[r] = AbsentRow /\ files[r]["manifest.json"] = Absent
      BY <1>1 DEF Init, FileNames
    <3>2. ~Completed(r) /\ Seen(r) = "none" /\ ~HasManifest(r)
      BY <3>1 DEF Completed, Seen, AbsentRow, HasManifest, Absent
    <3>3. Recorded(r) = Contract!NoRecord
      BY <3>2 DEF Recorded, VerdictIn, AbsentRow, Contract!NoRecord, Contract!NoVerdict,
         Contract!Record, None, Contract!None
    <3> QED  BY <3>2, <3>3, NothingPublished
  <2> QED  BY <2>1 DEF Contract!ContractInit
<1>2. ASSUME FullInv, [Next]_vars PROVE [Contract!ContractNext]_(Contract!contract)
  <2>1. ASSUME NEW r \in Runs, Step(r) \/ Interrupt(r) \/ Crash(r)
        PROVE  [Contract!ContractNext]_(Contract!contract)
    <3>1. ASSUME NEW q \in Runs \ {r} PROVE Stays(q)
      BY <1>2, <2>1, <3>1, OthersKeep
         DEF FullInv, Inv, TypeInv, Stays, Seen, Published, Recorded, Completed
    <3> QED  BY <1>2, <2>1, <3>1, StepMoves, MovesImplement
  <2>2. ASSUME UNCHANGED vars PROVE UNCHANGED Contract!contract
    BY <2>2 DEF vars, stores, Contract!contract, Seen, Published, Recorded, Completed
  <2> QED  BY <1>2, <2>1, <2>2 DEF Next, Finished
<1> QED
    BY <1>1, <1>2, FullInvariant, PTL DEF Spec, KeepsContract, Contract!ContractSpec
=============================================================================
