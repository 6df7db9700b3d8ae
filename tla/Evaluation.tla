----------------------------- MODULE Evaluation -----------------------------
(***************************************************************************)
(* How a run's worktree becomes evidence and the evidence becomes scores:  *)
(* GitWorktreeManager.collect_diff and the four scorers.                   *)
(*                                                                         *)
(* collect_diff is a handful of git commands, one after the other, over a  *)
(* worktree nothing locks.  A harness that could not remove its container  *)
(* says so in its result, and the run goes on: the container may still be  *)
(* writing while the diff is taken and the scorers read.                   *)
(*                                                                         *)
(* A path is the sequence of its names.  A directory, as git status writes *)
(* one with a slash at its end, is the sequence that ends in the slash.    *)
(***************************************************************************)
EXTENDS Outcome, FiniteSets, SequencesExt

CONSTANTS
    Names,            \* what paths are made of, the slash included
    Paths,            \* the files of the example, tracked or not
    Contents,         \* what a file may hold
    Commit,           \* the commit: what each tracked file holds
    Ignored,          \* the paths .gitignore names
    Harnesses,        \* the harness results of the example
    Scorers,          \* the types of the task's scorers, in order
    AllowedPaths,     \* options of the allowed-diff scorer
    ForbiddenPaths,   \* options of the forbidden-path scorer
    ExactPath, Expected,  \* options of the exact-content scorer
    Correct,          \* the contents of ExactPath the command accepts
    MaxWrites         \* bound: writes of a container left behind

Gone == "gone"   \* the content of a file that is not there

Slash == "/"

Tree == [Paths -> Contents \cup {Gone}]

ScorerTypes == {"command", "exact-content", "allowed-diff", "forbidden-path"}

ASSUME EvaluationAssumption ==
    /\ Slash \in Names /\ Paths \subseteq Seq(Names)
    /\ Commit \in Tree /\ Ignored \subseteq Paths
    /\ Harnesses \subseteq HarnessResult
    /\ Scorers \in Seq(ScorerTypes)
    /\ AllowedPaths \cup ForbiddenPaths \subseteq Seq(Names)
    /\ ExactPath \in Paths /\ Expected \in Contents /\ Correct \subseteq Contents
    /\ MaxWrites \in Nat

VARIABLES
    tree,       \* the worktree's files
    index,      \* what git add has staged, the commit's files to start with
    harness,    \* the result the harness returned
    leftover,   \* its container is still there and writes
    writes,     \* how often it has written
    pc,
    untracked,  \* untracked_paths of collect_diff
    patch,      \* the changes the patch holds, as pairs of path and content
    changed,    \* changed_paths
    scores

vars == <<tree, index, harness, leftover, writes, pc, untracked, patch, changed,
          scores>>

-----------------------------------------------------------------------------
(* What Git answers.                                                       *)

\* git diff HEAD: the files the commit or the index knows.  A path that has been
\* taken out of the index counts as deleted whatever is on disk.
DiffHead ==
    {<<p, IF index[p] = Gone THEN Gone ELSE tree[p]>> :
        p \in {q \in Paths : /\ Commit[q] # Gone \/ index[q] # Gone
                             /\ Commit[q] # IF index[q] = Gone THEN Gone ELSE tree[q]}}

\* git ls-files --others: what is on disk and not in the index, ignored or not.
Others == {p \in Paths : tree[p] # Gone /\ index[p] = Gone}

Parents(p) == {SubSeq(p, 1, i) : i \in 1..(Len(p) - 1)}

\* The directories above p that hold no file of the index.
UntrackedParents(p) ==
    {d \in Parents(p) : \A q \in Paths : index[q] # Gone => ~IsPrefix(d, q)}

\* How git status names an untracked file: itself, or the directory that is the
\* topmost of those.
Collapsed(p) ==
    IF UntrackedParents(p) = {} THEN {p}
    ELSE {Append(d, Slash) : d \in {e \in UntrackedParents(p) :
                            \A u \in UntrackedParents(p) : Len(e) <= Len(u)}}

Staged == {p \in Paths : index[p] # Commit[p]}

\* The source of a staged rename: an entry of its own has only the new path.
RenamedFrom ==
    {p \in Staged : index[p] = Gone /\ \E q \in Staged :
                        Commit[q] = Gone /\ index[q] = Commit[p]}

\* Mutant: the path after a renaming entry is taken for an entry.
StatusPathsWithoutSources ==
    (Staged \ RenamedFrom)
      \cup {p \in Paths : index[p] # Gone /\ tree[p] # index[p]}
      \cup UNION {Collapsed(p) : p \in Others \ Ignored}

\* The paths collect_diff reads out of git status --porcelain -z: what is staged,
\* both paths of a rename, what differs from the index, what is untracked.
StatusPaths ==
    Staged \cup {p \in Paths : index[p] # Gone /\ tree[p] # index[p]}
           \cup UNION {Collapsed(p) : p \in Others \ Ignored}

-----------------------------------------------------------------------------
(* The scorers.                                                            *)

\* A root without the slash at its end.
Stripped(root) ==
    IF root # <<>> /\ Last(root) = Slash THEN Front(root) ELSE root

\* _within: the path is a root, or below one; nothing is below the empty root.
Within(path, roots) ==
    \/ path \in roots
    \/ \E root \in roots :
          Stripped(root) # <<>> /\ IsStrictPrefix(Stripped(root), path)

Score(passed, category) == [passed |-> passed, category |-> category, error |-> FALSE]

CategoryOf(type) == IF type = "command" THEN "verification" ELSE "editing"

\* The scores a scorer may give on the worktree t and the collected paths.  The
\* command's script looks at a copy of the worktree; it may also not end in time.
ScoresFor(type, t, paths) ==
    CASE type = "command" ->
            {Score(t[ExactPath] \in Correct, "verification"),
             [passed |-> FALSE, category |-> "verification", error |-> TRUE]}
      [] type = "exact-content" -> {Score(t[ExactPath] = Expected, "editing")}
      [] type = "allowed-diff" ->
            {Score(\A p \in paths : Within(p, AllowedPaths), "editing")}
      [] type = "forbidden-path" ->
            {Score(\A p \in paths : ~Within(p, ForbiddenPaths), "editing")}

-----------------------------------------------------------------------------
Collecting == {"diff", "list", "each"}

Places == Collecting \cup {"score", "done", "failed"}

TypeOK ==
    /\ tree \in Tree /\ index \in Tree
    /\ harness \in Harnesses
    /\ leftover \in BOOLEAN /\ writes \in 0..MaxWrites
    /\ pc \in Places
    /\ untracked \subseteq Paths
    /\ patch \subseteq Paths \X (Contents \cup {Gone})
    /\ changed \subseteq Paths \cup {Append(d, Slash) : d \in UNION {Parents(p) : p \in Paths}}
    /\ scores \in Seq(ScoreResult) /\ Len(scores) <= Len(Scorers)

\* Whatever the harness did to the files; it may have staged it (git add -A, git
\* mv).  A container can only be left behind by a harness that says it failed in
\* its environment: Sandbox!LeftoversAreReported and Harness say why.
Init ==
    /\ tree \in Tree
    /\ index \in {Commit, [p \in Paths |-> IF p \in Ignored /\ Commit[p] = Gone
                                           THEN Gone ELSE tree[p]]}
    /\ harness \in Harnesses
    /\ leftover \in {FALSE, harness.failure_kind = "environment"}
    /\ writes = 0
    /\ pc = "diff"
    /\ untracked = {} /\ patch = {} /\ changed = {} /\ scores = <<>>

\* patch = git diff HEAD
GitDiff ==
    /\ pc = "diff"
    /\ patch' = DiffHead
    /\ pc' = "list"
    /\ UNCHANGED <<tree, index, harness, leftover, writes, untracked, changed, scores>>

\* untracked_paths = git ls-files --others; they go into changed at once.
GitLsFiles ==
    /\ pc = "list"
    /\ untracked' = Others
    /\ changed' = Others
    /\ pc' = "each"
    /\ UNCHANGED <<tree, index, harness, leftover, writes, patch, scores>>

\* One git diff --no-index.  For a file that has gone in the meantime it complains
\* with the exit code 1 of a difference, which collect_diff accepts.
GitDiffUntracked ==
    /\ pc = "each"
    /\ \E p \in untracked :
          /\ untracked' = untracked \ {p}
          /\ patch' = patch \cup ({<<p, tree[p]>>} \ {<<p, Gone>>})
    /\ UNCHANGED <<tree, index, harness, leftover, writes, pc, changed, scores>>

GitStatus ==
    /\ pc = "each"
    /\ untracked = {}
    /\ changed' = changed \cup StatusPaths
    /\ pc' = IF Scorers = <<>> THEN "done" ELSE "score"
    /\ UNCHANGED <<tree, index, harness, leftover, writes, untracked, patch, scores>>

\* A git command fails: collect_diff raises, what it had is lost and the run goes on
\* with the empty diff it started with, and without scores.
GitFails ==
    /\ pc \in Collecting
    /\ pc' = "failed"
    /\ untracked' = {} /\ patch' = {} /\ changed' = {}
    /\ UNCHANGED <<tree, index, harness, leftover, writes, scores>>

\* A scorer has given the score s and left the worktree t; the last one ends the
\* loop.
Scored(s, t, last) ==
    /\ scores' = Append(scores, s)
    /\ tree' = t
    /\ pc' = IF last \/ Len(scores') = Len(Scorers) THEN "done" ELSE "score"
    /\ UNCHANGED <<index, harness, leftover, writes, untracked, patch, changed>>

\* Mutant: the command runs in the worktree, where it leaves its files.
RunScorerInPlace ==
    /\ pc = "score"
    /\ LET type == Scorers[Len(scores) + 1] IN
       \E s \in ScoresFor(type, tree, changed) :
          \E t \in IF type = "command"
                     THEN {[tree EXCEPT ![p] = c] : p \in Ignored, c \in Contents}
                     ELSE {tree} :
             Scored(s, t, FALSE)

RunScorer ==
    /\ pc = "score"
    /\ \E s \in ScoresFor(Scorers[Len(scores) + 1], tree, changed) :
          Scored(s, tree, FALSE)

\* Mutant: the scorers after one that raised are asked as well.
ScorerRaisesGoingOn == pc = "score" /\ Scored(RaisedScore, tree, FALSE)

\* A scorer that cannot be built, or raises, ends the loop with an error score.
ScorerRaises == pc = "score" /\ Scored(RaisedScore, tree, TRUE)

\* The container that was left behind writes or removes a file.
Write ==
    /\ leftover /\ writes < MaxWrites
    /\ \E p \in Paths, c \in Contents \cup {Gone} :
          c # tree[p] /\ tree' = [tree EXCEPT ![p] = c]
    /\ writes' = writes + 1
    /\ UNCHANGED <<index, harness, leftover, pc, untracked, patch, changed, scores>>

Finished == pc \in {"done", "failed"} /\ UNCHANGED vars

Next ==
    \/ GitDiff \/ GitLsFiles \/ GitDiffUntracked \/ GitStatus \/ GitFails
    \/ RunScorer \/ ScorerRaises \/ Write \/ Finished

Spec == Init /\ [][Next]_vars

-----------------------------------------------------------------------------
(* Properties.                                                             *)

\* What the harness changed: the worktree against the commit.
Changes == {<<p, tree[p]>> : p \in {q \in Paths : tree[q] # Commit[q]}}

\* The files an entry of changed_paths stands for.
Covers(entry, p) == entry = p \/ (Last(entry) = Slash /\ IsStrictPrefix(Front(entry), p))

\* With nobody writing any more, the patch is the difference between the commit
\* and the worktree, ignored and untracked files and renames included; each
\* change is among the changed paths, and each of them stands for a change.  It
\* stays so until the last scorer is done: scoring leaves the worktree alone.
EvidenceIsComplete ==
    writes = 0 /\ pc \in {"score", "done"} =>
        /\ patch = Changes
        /\ \A c \in Changes : c[1] \in changed
        /\ \A entry \in changed : \E c \in Changes : Covers(entry, c[1])

\* The score the task's scorer of a type gave.
Passed(type) ==
    \E i \in DOMAIN scores : Scorers[i] = type /\ scores[i].passed

Failed(type) ==
    \E i \in DOMAIN scores :
        Scorers[i] = type /\ ~scores[i].passed /\ ~scores[i].error

\* The path scorers read the names Git gave, among them names of directories, and
\* still judge the files: the scope passes only if every change is within it, and
\* the forbidden paths pass if and only if none is.
PathVerdictsAreRight ==
    writes = 0 =>
        /\ Passed("allowed-diff") => \A c \in Changes : Within(c[1], AllowedPaths)
        /\ Passed("forbidden-path") => \A c \in Changes : ~Within(c[1], ForbiddenPaths)
        /\ Failed("forbidden-path") => \E c \in Changes : Within(c[1], ForbiddenPaths)

\* A run is called a success only on evidence that is whole and that says what the
\* worktree says, although nothing keeps a container that was left behind from
\* writing between the commands and the scorers.
SuccessIsOfTheTree ==
    pc \in {"done", "failed"} /\ Classify(harness, scores) = "success" =>
        /\ patch = Changes
        /\ \A type \in InRange(Scorers) : Passed(type)
        /\ "exact-content" \in InRange(Scorers) => tree[ExactPath] = Expected
        /\ "allowed-diff" \in InRange(Scorers) =>
              \A c \in patch : Within(c[1], AllowedPaths)

\* What _run_resolved sees of all this, as RunLifecycle tells it of the one run r:
\* the rest of the run stands still meanwhile.
PlaceInRun ==
    CASE pc \in Collecting         -> "collect"
      [] pc = "score"              -> "score"
      [] pc \in {"done", "failed"} -> "finally"

FailureText ==
    (IF pc = "failed" THEN {"execution"} ELSE {})
      \cup (IF RaisedScore \in InRange(scores) THEN {"scorer"} ELSE {})

OfRun(x) == [r \in {"r"} |-> x]

Run == INSTANCE RunLifecycle WITH
    Runs        <- {"r"},
    Scorers     <- [i \in DOMAIN Scorers |-> CategoryOf(Scorers[i])],
    pc          <- OfRun(PlaceInRun),
    kind        <- OfRun("pi"),
    workspace   <- OfRun(TRUE),
    harness     <- OfRun(harness),
    provenance  <- OfRun([sandbox |-> harness.sandbox, reproducible |-> harness.sandbox]),
    scores      <- OfRun(scores),
    failure     <- OfRun(FailureText),
    cleanup     <- OfRun(FALSE),
    verdict     <- OfRun([classification |-> None, status |-> None, reason |-> None]),
    pending     <- OfRun({}),
    artifacts   <- OfRun({}),
    interrupted <- OfRun(FALSE),
    experiment  <- OfRun(TRUE),
    row         <- OfRun([status |-> "running"]),
    worktree    <- OfRun(TRUE),
    files       <- OfRun({})

\* To the run all of it is what RunLifecycle takes for granted: one step that
\* collects, then a score of its category from one scorer after the other, until
\* the last or one that raises, or the failure of a step.  However the worktree is
\* written meanwhile, no score is skipped, given twice or taken after a failure.
IsPartOfTheRun ==
    [][\/ Run!CollectDiff("r") \/ Run!StepRaises("r")
       \/ Run!Score("r") \/ Run!ScorerRaises("r")]_(Run!vars)

\* docs/pr-readiness/plan.md: "WorkspaceDiff.changed_paths remains correct for
\* tracked and untracked changes."  As written: each of them is a changed path.
ChangedPathsAreCorrect ==
    writes = 0 /\ pc = "score" => changed = {c[1] : c \in Changes}
=============================================================================
