-------------------------- MODULE EvaluationProofs --------------------------
(***************************************************************************)
(* What the evidence and the scores of a run are worth, for every tree of  *)
(* paths, every list of scorers and any number of writes of a container    *)
(* that was left behind.                                                   *)
(***************************************************************************)
EXTENDS Evaluation, SequenceTheorems, TLAPS

\* Only a container that was left behind writes, and its harness said that it
\* failed in its environment.
LeftoverInv ==
    /\ leftover => harness.failure_kind = "environment"
    /\ writes > 0 => leftover

\* With nobody writing the index stays between the commit and the worktree.
IndexInv == \A p \in Paths : index[p] = Commit[p] \/ index[p] = tree[p]

\* What collect_diff has at each of its commands.
CollectInv ==
    /\ pc = "list" => patch = DiffHead
    /\ pc = "each" =>
          /\ changed = Others /\ untracked \subseteq Others
          /\ patch = DiffHead \cup {<<p, tree[p]>> : p \in Others \ untracked}
    /\ pc \in {"score", "done"} => patch = Changes /\ changed = Others \cup StatusPaths

\* Each score is one its scorer gives on this worktree and these paths.
JudgedInv ==
    \A i \in DOMAIN scores :
        scores[i] \in ScoresFor(Scorers[i], tree, changed) \cup {RaisedScore}

\* The loop over the scorers ends at the last one or at one that raised.
LoopInv ==
    /\ pc \notin {"score", "done"} => scores = <<>>
    /\ pc = "score" => Len(scores) < Len(Scorers)
    /\ pc = "done" => \/ Len(scores) = Len(Scorers)
                      \/ scores # <<>> /\ scores[Len(scores)] = RaisedScore

QuietInv == writes = 0 => IndexInv /\ CollectInv /\ JudgedInv

Inv == TypeOK /\ LeftoverInv /\ LoopInv /\ QuietInv

-----------------------------------------------------------------------------
USE EvaluationAssumption

\* Names of directories.

\* An untracked directory that status names stands for a file below it.
LEMMA CollapsedFacts ==
    ASSUME NEW p \in Paths, NEW entry \in Collapsed(p)
    PROVE \/ entry = p
          \/ \E d \in Parents(p) :
                /\ entry = Append(d, Slash) /\ d \in Seq(Names) /\ d # <<>>
                /\ Len(d) < Len(p) /\ d = SubSeq(p, 1, Len(d))
<1>1. p \in Seq(Names) /\ Len(p) \in Nat  OBVIOUS
<1>2. ASSUME entry # p
      PROVE \E d \in Parents(p) : entry = Append(d, Slash)
  BY <1>2 DEF Collapsed, UntrackedParents
<1>3. ASSUME NEW d \in Parents(p)
      PROVE /\ d \in Seq(Names) /\ d # <<>>
            /\ Len(d) < Len(p) /\ d = SubSeq(p, 1, Len(d))
  <2>1. PICK i \in 1..(Len(p) - 1) : d = SubSeq(p, 1, i)  BY <1>3 DEF Parents
  <2>2. \A j \in 1..i : p[j] \in Names  BY <1>1
  <2>3. d \in Seq(Names) /\ Len(d) = i  BY <1>1, <2>1, <2>2, SubSeqProperties
  <2>4. d # <<>>
    <3>1. i > 0 /\ Len(<<>>) = 0  BY <1>1
    <3> QED  BY <2>3, <3>1
  <2>5. Len(d) < Len(p)
    <3>1. i < Len(p)  BY <1>1
    <3> QED  BY <2>3, <3>1
  <2>6. d = SubSeq(p, 1, Len(d))
    <3> HIDE EvaluationAssumption
    <3> QED  BY <2>1, <2>3
  <2> QED  BY <2>3, <2>4, <2>5, <2>6
<1> QED  BY <1>2, <1>3

LEMMA AppendFacts ==
    ASSUME NEW d \in Seq(Names)
    PROVE /\ Append(d, Slash) \in Seq(Names) /\ Append(d, Slash) # <<>>
          /\ Last(Append(d, Slash)) = Slash /\ Front(Append(d, Slash)) = d
          /\ Len(Append(d, Slash)) = Len(d) + 1
          /\ \A i \in 1..Len(d) : Append(d, Slash)[i] = d[i]
<1> DEFINE e == Append(d, Slash)
<1>1. /\ e \in Seq(Names) /\ e # <<>> /\ Len(e) = Len(d) + 1
      /\ \A i \in 1..Len(d) : e[i] = d[i]
      /\ e[Len(d) + 1] = Slash
  BY AppendProperties
<1>2. Last(e) = Slash  BY <1>1 DEF Last
<1>3. Front(e) = d
  <2>1. Len(d) \in Nat /\ Front(e) = SubSeq(e, 1, Len(d))  BY <1>1 DEF Front
  <2>2. \A i \in 1..Len(d) : e[i] \in Names  BY <1>1
  <2>3. /\ Front(e) \in Seq(Names) /\ Len(Front(e)) = Len(d)
        /\ \A i \in 1..Len(d) : Front(e)[i] = e[1 + i - 1]
    BY <2>1, <2>2, SubSeqProperties
  <2>4. \A i \in 1..Len(d) : Front(e)[i] = d[i]  BY <1>1, <2>1, <2>3
  <2> QED  BY <2>3, <2>4
<1> QED  BY <1>1, <1>2, <1>3

\* Being a prefix, place by place.
LEMMA PrefixFacts ==
    ASSUME NEW s \in Seq(Names), NEW t \in Seq(Names)
    PROVE IsPrefix(s, t) <=> Len(s) <= Len(t) /\ \A i \in 1..Len(s) : s[i] = t[i]
<1>1. Len(s) \in Nat /\ Len(t) \in Nat  OBVIOUS
<1>2. SUFFICES ASSUME Len(s) <= Len(t)
               PROVE SubSeq(s, 1, Len(s)) = SubSeq(t, 1, Len(s))
                     <=> \A i \in 1..Len(s) : s[i] = t[i]
  BY DEF IsPrefix
<1> DEFINE a == SubSeq(s, 1, Len(s))
           b == SubSeq(t, 1, Len(s))
<1>3. \A i \in 1..Len(s) : s[i] \in Names /\ t[i] \in Names  BY <1>1, <1>2
<1>4. /\ a \in Seq(Names) /\ Len(a) = Len(s)
      /\ \A i \in 1..(Len(s) - 1 + 1) : a[i] = s[1 + i - 1]
  BY <1>1, <1>3, SubSeqProperties
<1>5. /\ b \in Seq(Names) /\ Len(b) = Len(s)
      /\ \A i \in 1..(Len(s) - 1 + 1) : b[i] = t[1 + i - 1]
  BY <1>1, <1>2, <1>3, SubSeqProperties
<1>6. \A i \in 1..Len(s) : a[i] = s[i] /\ b[i] = t[i]  BY <1>1, <1>4, <1>5
<1>7. a = b <=> \A i \in 1..Len(s) : a[i] = b[i]  BY <1>4, <1>5
<1> QED  BY <1>6, <1>7

\* A directory is a strict prefix of what is below it.
LEMMA DirectoryIsPrefix ==
    ASSUME NEW p \in Seq(Names), NEW d \in Seq(Names),
           Len(d) < Len(p), d = SubSeq(p, 1, Len(d))
    PROVE (\A i \in 1..Len(d) : d[i] = p[i]) /\ IsStrictPrefix(d, p)
<1>1. Len(p) \in Nat /\ Len(d) \in Nat  OBVIOUS
<1>2. \A i \in 1..Len(d) : p[i] \in Names  BY <1>1
<1>3. \A i \in 1..(Len(d) - 1 + 1) : SubSeq(p, 1, Len(d))[i] = p[1 + i - 1]
  BY <1>1, <1>2, SubSeqProperties
<1>4. \A i \in 1..Len(d) : d[i] = p[i]  BY <1>1, <1>3
<1>5. IsPrefix(d, p) /\ d # p
  <2>1. Len(d) # Len(p)  BY <1>1
  <2> QED  BY <1>1, <1>4, <2>1, PrefixFacts
<1> QED  BY <1>4, <1>5 DEF IsStrictPrefix

\* A directory that is forbidden, or below one that is, has only forbidden files.
LEMMA WithinBelow ==
    ASSUME NEW p \in Paths, NEW d \in Seq(Names),
           d # <<>>, Len(d) < Len(p), d = SubSeq(p, 1, Len(d)),
           NEW roots \in SUBSET Seq(Names), Within(Append(d, Slash), roots)
    PROVE Within(p, roots)
<1> DEFINE e == Append(d, Slash)
<1>1. /\ e \in Seq(Names) /\ e # <<>> /\ Last(e) = Slash /\ Front(e) = d
      /\ Len(e) = Len(d) + 1 /\ \A i \in 1..Len(d) : e[i] = d[i]
  BY AppendFacts
<1>2. p \in Seq(Names) /\ Len(p) \in Nat /\ Len(d) \in Nat  OBVIOUS
<1>3. \A i \in 1..Len(d) : d[i] = p[i]  BY <1>2, DirectoryIsPrefix
<1>4. PICK root \in roots :
        e = root \/ (Stripped(root) # <<>> /\ IsStrictPrefix(Stripped(root), e))
  BY DEF Within
<1> DEFINE r == Stripped(root)
<1>5. r \in Seq(Names)
  <2>1. root \in Seq(Names) /\ Len(root) \in Nat  OBVIOUS
  <2>2. \A i \in 1..(Len(root) - 1) : root[i] \in Names  BY <2>1
  <2>3. Front(root) \in Seq(Names)  BY <2>1, <2>2, SubSeqProperties DEF Front
  <2> QED  BY <2>1, <2>3 DEF Stripped
<1>6. r # <<>> /\ Len(r) <= Len(d) /\ \A i \in 1..Len(r) : r[i] = d[i]
  <2>1. CASE e = root  BY <1>1, <1>2, <2>1 DEF Stripped
  <2>2. CASE r # <<>> /\ IsStrictPrefix(r, e)
    <3>1. Len(r) <= Len(e) /\ (\A i \in 1..Len(r) : r[i] = e[i]) /\ r # e
      BY <1>1, <1>5, <2>2, PrefixFacts DEF IsStrictPrefix
    <3>2. ASSUME NEW u \in Seq(Names), NEW v \in Seq(Names), Len(u) = Len(v),
                 \A i \in 1..Len(u) : u[i] = v[i]
          PROVE u = v
      BY <3>2
    <3>3. Len(r) # Len(e)  BY <1>1, <1>5, <3>1, <3>2
    <3> QED  BY <1>1, <1>2, <1>5, <2>2, <3>1, <3>3
  <2> QED  BY <1>4, <2>1, <2>2
<1> HIDE DEF r
<1>7. Len(r) < Len(p) /\ \A i \in 1..Len(r) : r[i] = p[i]
  BY <1>2, <1>3, <1>5, <1>6
<1>8. IsStrictPrefix(r, p)  BY <1>2, <1>5, <1>7, PrefixFacts DEF IsStrictPrefix
<1> QED  BY <1>6, <1>8 DEF Within, r

-----------------------------------------------------------------------------
(* What Git answers about a worktree nobody writes to.                     *)

\* The tracked and the untracked changes are the changes.
LEMMA DiffIsWhole ==
    ASSUME TypeOK, IndexInv
    PROVE /\ DiffHead \cup {<<p, tree[p]>> : p \in Others} = Changes
          /\ \A p \in Others : tree[p] # Gone
<1> DEFINE T == {q \in Paths : /\ Commit[q] # Gone \/ index[q] # Gone
                               /\ Commit[q] # IF index[q] = Gone THEN Gone ELSE tree[q]}
           C == {q \in Paths : tree[q] # Commit[q]}
<1>1. \A p \in T : (IF index[p] = Gone THEN Gone ELSE tree[p]) = tree[p]
  BY DEF IndexInv
<1>2. DiffHead = {<<p, tree[p]>> : p \in T}  BY <1>1 DEF DiffHead
<1>3. T \cup Others = C  BY DEF IndexInv, Others
<1>4. Changes = {<<p, tree[p]>> : p \in C}  BY DEF Changes
<1> QED  BY <1>2, <1>3, <1>4 DEF Others

\* Each change is named by git, and each name stands for a change.
LEMMA NamesAreWhole ==
    ASSUME TypeOK, IndexInv
    PROVE /\ \A c \in Changes : c[1] \in Others \cup StatusPaths
          /\ \A entry \in Others \cup StatusPaths :
                \E c \in Changes :
                    \/ entry = c[1]
                    \/ c[1] \in Paths /\ entry \in Collapsed(c[1])
<1>1. \A p \in Paths : tree[p] # Commit[p] =>
          p \in Others \cup Staged \cup {q \in Paths : index[q] # Gone /\ tree[q] # index[q]}
  BY DEF IndexInv, Others, Staged
<1>2. \A p \in Others \cup Staged \cup {q \in Paths : index[q] # Gone /\ tree[q] # index[q]} :
          p \in Paths /\ tree[p] # Commit[p]
  BY DEF IndexInv, Others, Staged
<1>3. \A c \in Changes : c[1] \in Paths /\ tree[c[1]] # Commit[c[1]]  BY DEF Changes
<1>4. \A p \in Paths : tree[p] # Commit[p] => \E c \in Changes : c[1] = p
  <2> SUFFICES ASSUME NEW p \in Paths, tree[p] # Commit[p]
               PROVE \E c \in Changes : c[1] = p
    OBVIOUS
  <2>1. <<p, tree[p]>> \in Changes /\ <<p, tree[p]>>[1] = p  BY DEF Changes
  <2> QED  BY <2>1
<1>5. \A c \in Changes : c[1] \in Others \cup StatusPaths  BY <1>1, <1>3 DEF StatusPaths
<1>6. ASSUME NEW entry \in Others \cup StatusPaths
      PROVE \E c \in Changes : entry = c[1] \/ (c[1] \in Paths /\ entry \in Collapsed(c[1]))
  <2>1. CASE entry \in Others \cup Staged \cup {q \in Paths : index[q] # Gone /\ tree[q] # index[q]}
    BY <1>2, <1>4, <2>1
  <2>2. CASE \E p \in Others \ Ignored : entry \in Collapsed(p)
    <3>1. PICK p \in Others \ Ignored : entry \in Collapsed(p)  BY <2>2
    <3>2. p \in Paths /\ \E c \in Changes : c[1] = p  BY <1>2, <1>4
    <3> QED  BY <3>1, <3>2
  <2> QED  BY <1>6, <2>1, <2>2 DEF StatusPaths
<1> QED  BY <1>5, <1>6

\* Git's names are names of files or of directories above one.
LEMMA NamesTyped ==
    ASSUME TypeOK
    PROVE /\ DiffHead \subseteq Paths \X (Contents \cup {Gone})
          /\ Others \subseteq Paths
          /\ Others \cup StatusPaths \subseteq
                Paths \cup {Append(d, Slash) : d \in UNION {Parents(p) : p \in Paths}}
<1>1. DiffHead \subseteq Paths \X (Contents \cup {Gone})
  BY DEF DiffHead, TypeOK, Tree
<1>2. Others \subseteq Paths  BY DEF Others
<1>3. \A p \in Paths : Collapsed(p) \subseteq
          Paths \cup {Append(d, Slash) : d \in UNION {Parents(q) : q \in Paths}}
  BY CollapsedFacts
<1> QED  BY <1>1, <1>2, <1>3 DEF StatusPaths, Staged

-----------------------------------------------------------------------------
(* The steps.                                                              *)

LEMMA InitInv == Init => Inv
<1> SUFFICES ASSUME Init PROVE Inv  OBVIOUS
<1>1. index \in Tree
  <2>1. \A p \in Paths : tree[p] \in Contents \cup {Gone}  BY DEF Init, Tree
  <2>2. Gone \in Contents \cup {Gone} /\ Commit \in Tree  OBVIOUS
  <2> QED  BY <2>1, <2>2 DEF Init, Tree
<1>2. TypeOK
  <2>1. leftover \in BOOLEAN  BY DEF Init
  <2>2. writes \in 0..MaxWrites /\ scores \in Seq(ScoreResult) /\ Len(scores) <= Len(Scorers)
    BY DEF Init
  <2>3. pc \in Places  BY DEF Init, Places, Collecting
  <2> QED  BY <1>1, <2>1, <2>2, <2>3 DEF Init, TypeOK
<1>3. LeftoverInv /\ LoopInv
  <2>1. leftover => harness.failure_kind = "environment"  BY Zenon DEF Init
  <2>2. ~(writes > 0)  BY DEF Init
  <2>3. pc = "diff" /\ scores = <<>>  BY DEF Init
  <2> QED  BY <2>1, <2>2, <2>3 DEF LeftoverInv, LoopInv
<1>4. IndexInv  BY DEF Init, IndexInv
<1>5. CollectInv /\ JudgedInv  BY DEF Init, CollectInv, JudgedInv
<1> QED  BY <1>2, <1>3, <1>4, <1>5 DEF Inv, QuietInv

\* While it collects there are no scores, and the files are left alone.
LEMMA CollectStep ==
    ASSUME Inv, pc \in Collecting, UNCHANGED <<tree, index, harness, leftover, writes, scores>>,
           pc' \in Places, untracked' \subseteq Paths,
           patch' \subseteq Paths \X (Contents \cup {Gone}),
           changed' \subseteq Paths \cup {Append(d, Slash) : d \in UNION {Parents(p) : p \in Paths}},
           pc' = "score" => Scorers # <<>>, pc' = "done" => Scorers = <<>>,
           IndexInv /\ CollectInv => CollectInv'
    PROVE Inv'
<1>1. scores = <<>> /\ scores' = <<>>  BY DEF Inv, LoopInv, Collecting
<1>2. TypeOK'  BY DEF Inv, TypeOK
<1>3. LeftoverInv'  BY DEF Inv, LeftoverInv
<1>4. LoopInv'
  <2>1. Scorers # <<>> => 0 < Len(Scorers)  OBVIOUS
  <2> QED  BY <1>1, <2>1 DEF LoopInv
<1>5. IndexInv => IndexInv'  BY DEF IndexInv
<1>6. JudgedInv'  BY <1>1 DEF JudgedInv
<1>7. QuietInv'  BY <1>5, <1>6 DEF Inv, QuietInv
<1> QED  BY <1>2, <1>3, <1>4, <1>7 DEF Inv

LEMMA GitDiffInv == ASSUME Inv, GitDiff PROVE Inv'
<1>1. /\ pc = "diff" /\ pc' = "list" /\ patch' = DiffHead
      /\ UNCHANGED <<tree, index, harness, leftover, writes, untracked, changed, scores>>
  BY DEF GitDiff
<1>2. CollectInv'  BY <1>1 DEF CollectInv, DiffHead
<1> QED  BY <1>1, <1>2, CollectStep, NamesTyped DEF Inv, TypeOK, Places, Collecting

LEMMA GitLsFilesInv == ASSUME Inv, GitLsFiles PROVE Inv'
<1>1. /\ pc = "list" /\ pc' = "each" /\ untracked' = Others /\ changed' = Others
      /\ UNCHANGED <<tree, index, harness, leftover, writes, patch, scores>>
  BY DEF GitLsFiles
<1>2. Others' = Others /\ DiffHead' = DiffHead  BY <1>1 DEF Others, DiffHead
<1>3. CollectInv => CollectInv'  BY <1>1, <1>2 DEF CollectInv
<1> QED  BY <1>1, <1>3, CollectStep, NamesTyped DEF Inv, TypeOK, Places, Collecting

LEMMA GitDiffUntrackedInv == ASSUME Inv, GitDiffUntracked PROVE Inv'
<1>1. PICK p \in untracked :
        /\ untracked' = untracked \ {p}
        /\ patch' = patch \cup ({<<p, tree[p]>>} \ {<<p, Gone>>})
  BY DEF GitDiffUntracked
<1>2. /\ pc = "each" /\ pc' = "each"
      /\ UNCHANGED <<tree, index, harness, leftover, writes, changed, scores>>
  BY DEF GitDiffUntracked
<1>3. p \in Paths /\ tree[p] \in Contents \cup {Gone}  BY DEF Inv, TypeOK, Tree
<1>4. IndexInv /\ CollectInv => CollectInv'
  <2> SUFFICES ASSUME IndexInv, CollectInv PROVE CollectInv'  OBVIOUS
  <2>1. Others' = Others /\ DiffHead' = DiffHead  BY <1>2 DEF Others, DiffHead
  <2>2. p \in Others /\ tree[p] # Gone  BY <1>2, DiffIsWhole DEF Inv, CollectInv
  <2>3. patch' = patch \cup {<<p, tree[p]>>}  BY <1>1, <2>2
  <2>4. Others \ untracked' = (Others \ untracked) \cup {p}  BY <1>1, <2>2
  <2>5. patch' = DiffHead \cup {<<q, tree[q]>> : q \in Others \ untracked'}
    BY <1>2, <2>3, <2>4 DEF CollectInv
  <2> QED  BY <1>1, <1>2, <2>1, <2>5 DEF CollectInv
<1>5. untracked' \subseteq Paths /\ patch' \subseteq Paths \X (Contents \cup {Gone})
  BY <1>1, <1>3 DEF Inv, TypeOK
<1> QED  BY <1>2, <1>4, <1>5, CollectStep DEF Inv, TypeOK, Places, Collecting

LEMMA GitStatusInv == ASSUME Inv, GitStatus PROVE Inv'
<1>1. /\ pc = "each" /\ untracked = {} /\ changed' = changed \cup StatusPaths
      /\ pc' = IF Scorers = <<>> THEN "done" ELSE "score"
      /\ UNCHANGED <<tree, index, harness, leftover, writes, untracked, patch, scores>>
  BY DEF GitStatus
<1>2. Others' = Others /\ StatusPaths' = StatusPaths /\ Changes' = Changes
  BY <1>1 DEF Others, StatusPaths, Changes, Staged, Collapsed, UntrackedParents
<1>3. IndexInv /\ CollectInv => CollectInv'
  <2> SUFFICES ASSUME IndexInv, CollectInv PROVE CollectInv'  OBVIOUS
  <2>1. Others \ untracked = Others  BY <1>1
  <2>2. patch = Changes  BY <1>1, <2>1, DiffIsWhole DEF Inv, CollectInv
  <2> QED  BY <1>1, <1>2, <2>2 DEF CollectInv
<1>4. changed' \subseteq Paths \cup {Append(d, Slash) : d \in UNION {Parents(p) : p \in Paths}}
  BY <1>1, NamesTyped DEF Inv, TypeOK
<1>5. pc' \in {"score", "done"} /\ (pc' = "score" <=> Scorers # <<>>)  BY <1>1
<1> QED  BY <1>1, <1>3, <1>4, <1>5, CollectStep DEF Inv, TypeOK, Places, Collecting

LEMMA GitFailsInv == ASSUME Inv, GitFails PROVE Inv'
<1>1. /\ pc \in Collecting /\ pc' = "failed" /\ untracked' = {} /\ patch' = {} /\ changed' = {}
      /\ UNCHANGED <<tree, index, harness, leftover, writes, scores>>
  BY DEF GitFails
<1>2. CollectInv'  BY <1>1 DEF CollectInv
<1> QED  BY <1>1, <1>2, CollectStep DEF Places

\* What a scorer gives is a score.
LEMMA ScoresTyped ==
    \A type \in ScorerTypes : ScoresFor(type, tree, changed) \subseteq ScoreResult
<1>1. \A passed \in BOOLEAN, category \in {"verification", "editing"} :
          Score(passed, category) \in ScoreResult
  BY DEF Score, ScoreResult, Categories
<1>2. [passed |-> FALSE, category |-> "verification", error |-> TRUE] \in ScoreResult
  BY DEF ScoreResult, Categories
<1>3. ScoresFor("command", tree, changed) \subseteq ScoreResult
  <2> DEFINE correct == tree[ExactPath] \in Correct
  <2>1. correct \in BOOLEAN  OBVIOUS
  <2>2. ScoresFor("command", tree, changed) =
           {Score(correct, "verification"),
            [passed |-> FALSE, category |-> "verification", error |-> TRUE]}
    BY DEF ScoresFor
  <2> HIDE DEF correct
  <2> QED  BY <1>1, <1>2, <2>1, <2>2
<1>4. ScoresFor("exact-content", tree, changed) \subseteq ScoreResult
  BY <1>1 DEF ScoresFor
<1>5. ScoresFor("allowed-diff", tree, changed) \subseteq ScoreResult
  BY <1>1 DEF ScoresFor
<1>6. ScoresFor("forbidden-path", tree, changed) \subseteq ScoreResult
  BY <1>1 DEF ScoresFor
<1> QED  BY <1>3, <1>4, <1>5, <1>6 DEF ScorerTypes

LEMMA ScoredInv ==
    ASSUME Inv, pc = "score", NEW last \in BOOLEAN,
           NEW s \in ScoresFor(Scorers[Len(scores) + 1], tree, changed) \cup {RaisedScore},
           last => s = RaisedScore, Scored(s, tree, last)
    PROVE Inv'
<1>1. /\ scores' = Append(scores, s)
      /\ pc' = IF last \/ Len(scores') = Len(Scorers) THEN "done" ELSE "score"
      /\ UNCHANGED <<tree, index, harness, leftover, writes, untracked, patch, changed>>
  BY DEF Scored
<1>2. /\ scores \in Seq(ScoreResult) /\ Len(scores) \in Nat /\ Len(Scorers) \in Nat
      /\ Len(scores) < Len(Scorers)
  BY DEF Inv, TypeOK, LoopInv
<1>3. Scorers[Len(scores) + 1] \in ScorerTypes  BY <1>2
<1>4. s \in ScoreResult
  <2>1. RaisedScore \in ScoreResult  BY DEF RaisedScore, ScoreResult, Categories
  <2> QED  BY <1>3, <2>1, ScoresTyped
<1>5. /\ scores' \in Seq(ScoreResult) /\ scores' # <<>> /\ Len(scores') = Len(scores) + 1
      /\ \A i \in 1..Len(scores) : scores'[i] = scores[i]
      /\ scores'[Len(scores) + 1] = s
  BY <1>1, <1>2, <1>4, AppendProperties
<1>6. TypeOK'
  <2>1. pc' \in Places  BY <1>1 DEF Places
  <2>2. Len(scores') <= Len(Scorers)  BY <1>2, <1>5
  <2> QED  BY <1>1, <1>5, <2>1, <2>2 DEF Inv, TypeOK
<1>7. LeftoverInv'  BY <1>1 DEF Inv, LeftoverInv
<1>8. LoopInv'
  <2>1. CASE last
    <3>1. pc' = "done" /\ scores' # <<>> /\ scores'[Len(scores')] = RaisedScore
      BY <1>1, <1>5, <2>1
    <3> QED  BY <3>1 DEF LoopInv
  <2>2. CASE ~last /\ Len(scores') = Len(Scorers)  BY <1>1, <2>2 DEF LoopInv
  <2>3. CASE ~last /\ Len(scores') # Len(Scorers)
    <3>1. pc' = "score" /\ Len(scores') < Len(Scorers)  BY <1>1, <1>2, <1>5, <2>3
    <3> QED  BY <3>1 DEF LoopInv
  <2> QED  BY <2>1, <2>2, <2>3
<1>9. ASSUME IndexInv, CollectInv, JudgedInv PROVE IndexInv' /\ CollectInv' /\ JudgedInv'
  <2>1. IndexInv'  BY <1>1, <1>9 DEF IndexInv
  <2>2. Others' = Others /\ StatusPaths' = StatusPaths /\ Changes' = Changes
    BY <1>1 DEF Others, StatusPaths, Changes, Staged, Collapsed, UntrackedParents
  <2>3. pc' \in {"score", "done"}  BY <1>1
  <2>4. CollectInv'  BY <1>1, <1>9, <2>2, <2>3 DEF CollectInv
  <2>5. DOMAIN scores' = 1..(Len(scores) + 1) /\ DOMAIN scores = 1..Len(scores)
    BY <1>2, <1>5
  <2>6. \A i \in DOMAIN scores' : i \in DOMAIN scores \/ i = Len(scores) + 1
    BY <1>2, <2>5
  <2>7. JudgedInv'
    <3> SUFFICES ASSUME NEW i \in DOMAIN scores'
                 PROVE scores'[i] \in ScoresFor(Scorers[i], tree, changed) \cup {RaisedScore}
      BY <1>1 DEF JudgedInv
    <3>1. CASE i \in DOMAIN scores  BY <1>5, <1>9, <2>5, <3>1 DEF JudgedInv
    <3>2. CASE i = Len(scores) + 1  BY <1>5, <3>2
    <3> QED  BY <2>6, <3>1, <3>2
  <2> QED  BY <2>1, <2>4, <2>7
<1>10. QuietInv'  BY <1>1, <1>9 DEF Inv, QuietInv
<1> QED  BY <1>6, <1>7, <1>8, <1>10 DEF Inv

\* A write of a container left behind ends the quiet.
LEMMA WriteInv == ASSUME Inv, Write PROVE Inv'
<1>1. /\ leftover /\ writes \in Nat /\ writes < MaxWrites /\ writes' = writes + 1
      /\ UNCHANGED <<index, harness, leftover, pc, untracked, patch, changed, scores>>
  BY DEF Write, Inv, TypeOK
<1>2. tree' \in Tree  BY DEF Write, Inv, TypeOK, Tree
<1>3. writes' \in 0..MaxWrites /\ writes' # 0 /\ writes' > 0  BY <1>1
<1>4. TypeOK'  BY <1>1, <1>2, <1>3 DEF Inv, TypeOK
<1>5. LeftoverInv' /\ LoopInv'  BY <1>1 DEF Inv, LeftoverInv, LoopInv
<1>6. QuietInv'  BY <1>3 DEF QuietInv
<1> QED  BY <1>4, <1>5, <1>6 DEF Inv

-----------------------------------------------------------------------------
\* Every step keeps the invariant.
LEMMA Inductive == Inv /\ [Next]_vars => Inv'
<1> SUFFICES ASSUME Inv, [Next]_vars PROVE Inv'  OBVIOUS
<1>1. CASE GitDiff \/ GitLsFiles \/ GitDiffUntracked \/ GitStatus \/ GitFails
  BY <1>1, GitDiffInv, GitLsFilesInv, GitDiffUntrackedInv, GitStatusInv, GitFailsInv
<1>2. CASE RunScorer  BY <1>2, ScoredInv DEF RunScorer
<1>3. CASE ScorerRaises  BY <1>3, ScoredInv DEF ScorerRaises
<1>4. CASE Write  BY <1>4, WriteInv
<1>5. CASE UNCHANGED vars
  <2> USE <1>5 DEF vars
  <2>1. TypeOK' /\ LeftoverInv' /\ LoopInv'  BY DEF Inv, TypeOK, LeftoverInv, LoopInv
  <2>2. IndexInv' <=> IndexInv  BY DEF IndexInv
  <2>3. /\ Others' = Others /\ StatusPaths' = StatusPaths /\ Changes' = Changes
        /\ DiffHead' = DiffHead
    BY DEF Others, StatusPaths, Changes, DiffHead, Staged, Collapsed, UntrackedParents
  <2>4. CollectInv => CollectInv'  BY <2>3 DEF CollectInv
  <2>5. JudgedInv => JudgedInv'  BY DEF JudgedInv
  <2>6. QuietInv'  BY <2>2, <2>4, <2>5 DEF Inv, QuietInv
  <2> QED  BY <2>1, <2>6 DEF Inv
<1> QED  BY <1>1, <1>2, <1>3, <1>4, <1>5 DEF Next, Finished

LEMMA Invariance == Spec => []Inv
<1>1. Init => Inv  BY InitInv
<1>2. Inv /\ [Next]_vars => Inv'  BY Inductive
<1> QED  BY <1>1, <1>2, PTL DEF Spec

\* Every variable keeps its type: the changed paths are files and the directories
\* above them, and there is never more than one score for each scorer.
THEOREM TypeCorrect == Spec => []TypeOK
<1>1. Inv => TypeOK  BY DEF Inv
<1> QED  BY <1>1, Invariance, PTL

\* The patch is the difference between the commit and the worktree, and changed paths
\* and changes stand for each other.
THEOREM EvidenceComplete == Spec => []EvidenceIsComplete
<1>1. Inv => EvidenceIsComplete
  <2> SUFFICES ASSUME Inv, writes = 0, pc \in {"score", "done"}
               PROVE /\ patch = Changes
                     /\ \A c \in Changes : c[1] \in changed
                     /\ \A entry \in changed : \E c \in Changes : Covers(entry, c[1])
    BY DEF EvidenceIsComplete
  <2>1. IndexInv /\ patch = Changes /\ changed = Others \cup StatusPaths
    BY DEF Inv, QuietInv, CollectInv
  <2>2. ASSUME NEW entry \in changed PROVE \E c \in Changes : Covers(entry, c[1])
    <3>1. PICK c \in Changes : entry = c[1] \/ (c[1] \in Paths /\ entry \in Collapsed(c[1]))
      BY <2>1, NamesAreWhole DEF Inv
    <3>2. ASSUME c[1] \in Paths, entry \in Collapsed(c[1]), entry # c[1]
          PROVE Covers(entry, c[1])
      <4>1. PICK d \in Parents(c[1]) :
              /\ entry = Append(d, Slash) /\ d \in Seq(Names)
              /\ Len(d) < Len(c[1]) /\ d = SubSeq(c[1], 1, Len(d))
        BY <3>2, CollapsedFacts
      <4>2. Last(entry) = Slash /\ Front(entry) = d  BY <4>1, AppendFacts
      <4>3. IsStrictPrefix(d, c[1])  BY <3>2, <4>1, DirectoryIsPrefix
      <4> QED  BY <4>2, <4>3 DEF Covers
    <3> QED  BY <3>1, <3>2 DEF Covers
  <2> QED  BY <2>1, <2>2, NamesAreWhole DEF Inv
<1> QED  BY <1>1, Invariance, PTL

\* A score that passed is one its scorer gave; the verdicts on paths then hold of the
\* files, directories among the changed paths or not.
LEMMA VerdictFacts ==
    ASSUME Inv, writes = 0
    PROVE /\ scores # <<>> => pc \in {"score", "done"}
          /\ Passed("allowed-diff") => \A p \in changed : Within(p, AllowedPaths)
          /\ Passed("forbidden-path") => \A p \in changed : ~Within(p, ForbiddenPaths)
          /\ Failed("forbidden-path") => \E p \in changed : Within(p, ForbiddenPaths)
          /\ Passed("exact-content") => tree[ExactPath] = Expected
<1>1. \A i \in DOMAIN scores :
          scores[i] \in ScoresFor(Scorers[i], tree, changed) \cup {RaisedScore}
  BY DEF Inv, QuietInv, JudgedInv
<1>2. RaisedScore.passed = FALSE /\ RaisedScore.error = TRUE  BY DEF RaisedScore
<1>3. scores # <<>> => pc \in {"score", "done"}  BY DEF Inv, LoopInv
<1>4. ASSUME Passed("allowed-diff") PROVE \A p \in changed : Within(p, AllowedPaths)
  <2>1. PICK i \in DOMAIN scores : Scorers[i] = "allowed-diff" /\ scores[i].passed
    BY <1>4 DEF Passed
  <2>2. scores[i] = Score(\A p \in changed : Within(p, AllowedPaths), "editing")
    BY <1>1, <1>2, <2>1 DEF ScoresFor
  <2> QED  BY <2>1, <2>2 DEF Score
<1>5. ASSUME Passed("forbidden-path") PROVE \A p \in changed : ~Within(p, ForbiddenPaths)
  <2>1. PICK i \in DOMAIN scores : Scorers[i] = "forbidden-path" /\ scores[i].passed
    BY <1>5 DEF Passed
  <2>2. scores[i] = Score(\A p \in changed : ~Within(p, ForbiddenPaths), "editing")
    BY <1>1, <1>2, <2>1 DEF ScoresFor
  <2> QED  BY <2>1, <2>2 DEF Score
<1>6. ASSUME Failed("forbidden-path") PROVE \E p \in changed : Within(p, ForbiddenPaths)
  <2>1. PICK i \in DOMAIN scores :
          Scorers[i] = "forbidden-path" /\ ~scores[i].passed /\ ~scores[i].error
    BY <1>6 DEF Failed
  <2>2. scores[i] = Score(\A p \in changed : ~Within(p, ForbiddenPaths), "editing")
    BY <1>1, <1>2, <2>1 DEF ScoresFor
  <2> QED  BY <2>1, <2>2 DEF Score
<1>7. ASSUME Passed("exact-content") PROVE tree[ExactPath] = Expected
  <2>1. PICK i \in DOMAIN scores : Scorers[i] = "exact-content" /\ scores[i].passed
    BY <1>7 DEF Passed
  <2> DEFINE exact == tree[ExactPath] = Expected
  <2>2. scores[i] = Score(exact, "editing")  BY <1>1, <1>2, <2>1 DEF ScoresFor
  <2>3. exact
    <3> HIDE DEF exact
    <3> QED  BY <2>1, <2>2 DEF Score
  <2> QED  BY <2>3
<1> QED  BY <1>3, <1>4, <1>5, <1>6, <1>7

\* A path scorer judges Git's names, directories among them, and its verdict holds of
\* the files.
THEOREM PathVerdicts == Spec => []PathVerdictsAreRight
<1>1. Inv => PathVerdictsAreRight
  <2> SUFFICES ASSUME Inv, writes = 0
        PROVE /\ Passed("allowed-diff") => \A c \in Changes : Within(c[1], AllowedPaths)
              /\ Passed("forbidden-path") => \A c \in Changes : ~Within(c[1], ForbiddenPaths)
              /\ Failed("forbidden-path") => \E c \in Changes : Within(c[1], ForbiddenPaths)
    BY DEF PathVerdictsAreRight
  <2>1. IndexInv /\ (scores # <<>> => changed = Others \cup StatusPaths)
    BY VerdictFacts DEF Inv, QuietInv, CollectInv
  <2>2. \A type \in ScorerTypes : Passed(type) \/ Failed(type) => scores # <<>>
    BY DEF Passed, Failed
  <2>3. scores # <<>> => \A c \in Changes : c[1] \in changed
    BY <2>1, NamesAreWhole DEF Inv
  <2>4. ASSUME Failed("forbidden-path")
        PROVE \E c \in Changes : Within(c[1], ForbiddenPaths)
    <3>1. PICK entry \in changed : Within(entry, ForbiddenPaths)  BY <2>4, VerdictFacts
    <3>2. changed = Others \cup StatusPaths  BY <2>1, <2>2, <2>4 DEF ScorerTypes
    <3>3. PICK c \in Changes : entry = c[1] \/ (c[1] \in Paths /\ entry \in Collapsed(c[1]))
      BY <2>1, <3>2, NamesAreWhole DEF Inv
    <3>4. ASSUME c[1] \in Paths, entry \in Collapsed(c[1]), entry # c[1]
          PROVE Within(c[1], ForbiddenPaths)
      <4>1. PICK d \in Parents(c[1]) :
              /\ entry = Append(d, Slash) /\ d \in Seq(Names)
              /\ d # <<>> /\ Len(d) < Len(c[1]) /\ d = SubSeq(c[1], 1, Len(d))
        BY <3>4, CollapsedFacts
      <4>2. Within(Append(d, Slash), ForbiddenPaths)  BY <3>1, <4>1
      <4> QED  BY <3>4, <4>1, <4>2, WithinBelow
    <3> QED  BY <3>1, <3>3, <3>4
  <2> QED  BY <2>2, <2>3, <2>4, VerdictFacts DEF ScorerTypes
<1> QED  BY <1>1, Invariance, PTL

\* A run is called a success only on evidence that is whole and true: a container left
\* behind makes it an environment failure, whatever it wrote and when.
THEOREM SuccessOfTheTree == Spec => []SuccessIsOfTheTree
<1>1. Inv => SuccessIsOfTheTree
  <2> SUFFICES ASSUME Inv, pc \in {"done", "failed"}, Classify(harness, scores) = "success"
        PROVE /\ patch = Changes
              /\ \A type \in InRange(Scorers) : Passed(type)
              /\ "exact-content" \in InRange(Scorers) => tree[ExactPath] = Expected
              /\ "allowed-diff" \in InRange(Scorers) =>
                    \A c \in patch : Within(c[1], AllowedPaths)
    BY DEF SuccessIsOfTheTree
  <2>1. /\ \A s \in InRange(scores) : s.passed /\ ~s.error
        /\ harness.failure_kind # "environment" /\ scores # <<>>
    BY DEF Classify
  <2>2. writes = 0  BY <2>1 DEF Inv, LeftoverInv, TypeOK
  <2>3. pc = "done" /\ patch = Changes /\ IndexInv /\ changed = Others \cup StatusPaths
    BY <2>1, <2>2 DEF Inv, LoopInv, QuietInv, CollectInv
  <2>4. \A i \in DOMAIN scores : scores[i].passed /\ ~scores[i].error
    BY <2>1 DEF InRange
  <2>5. Len(scores) = Len(Scorers)
    <3>1. Len(scores) \in Nat /\ DOMAIN scores = 1..Len(scores) /\ Len(scores) # 0
      BY <2>1 DEF Inv, TypeOK
    <3>2. scores[Len(scores)] # RaisedScore  BY <2>4, <3>1 DEF RaisedScore
    <3> QED  BY <2>3, <3>2 DEF Inv, LoopInv
  <2>6. DOMAIN scores = DOMAIN Scorers  BY <2>5 DEF Inv, TypeOK
  <2>7. \A type \in InRange(Scorers) : Passed(type)  BY <2>4, <2>6 DEF InRange, Passed
  <2>8. \A c \in Changes : c[1] \in changed  BY <2>3, NamesAreWhole DEF Inv
  <2> QED  BY <2>2, <2>3, <2>7, <2>8, VerdictFacts
<1> QED  BY <1>1, Invariance, PTL

-----------------------------------------------------------------------------
(* Evaluation is the part of RunLifecycle's run that it claims to be.      *)

\* The run's list of categories is as long as the list of scorers.
LEMMA CategoriesOfRun ==
    LET cs == [i \in DOMAIN Scorers |-> CategoryOf(Scorers[i])] IN
    /\ Len(cs) = Len(Scorers) /\ (cs = <<>> <=> Scorers = <<>>)
    /\ \A i \in DOMAIN Scorers : cs[i] = CategoryOf(Scorers[i])
<1> DEFINE cs == [i \in DOMAIN Scorers |-> CategoryOf(Scorers[i])]
<1>1. Len(Scorers) \in Nat /\ DOMAIN Scorers = 1..Len(Scorers)  OBVIOUS
<1>2. cs \in Seq({"verification", "editing"})  BY <1>1 DEF CategoryOf
<1>3. Len(cs) = Len(Scorers)  BY <1>1, <1>2
<1>4. cs = <<>> <=> Scorers = <<>>  BY <1>2, <1>3, EmptySeq
<1> QED  BY <1>3, <1>4

\* What a scorer gives is a score of its category, and not that of a raised one.
LEMMA ScoresOfRun ==
    ASSUME NEW type \in ScorerTypes, NEW s \in ScoresFor(type, tree, changed)
    PROVE  s \in ScoresOf(CategoryOf(type)) /\ s # RaisedScore
<1>1. \A passed \in BOOLEAN, category \in {"verification", "editing"} :
        /\ Score(passed, category) \in ScoresOf(category)
        /\ Score(passed, category) # RaisedScore
  BY DEF Score, ScoresOf, RaisedScore, None
<1>2. CASE type = "command"
  <2> DEFINE correct == tree[ExactPath] \in Correct
             late == [passed |-> FALSE, category |-> "verification", error |-> TRUE]
  <2>1. s \in {Score(correct, "verification"), late} /\ correct \in BOOLEAN
    BY <1>2 DEF ScoresFor
  <2>2. late \in ScoresOf("verification") /\ late # RaisedScore
    BY DEF ScoresOf, RaisedScore, None
  <2>3. CategoryOf(type) = "verification"  BY <1>2 DEF CategoryOf
  <2> HIDE DEF correct, late
  <2> QED  BY <1>1, <2>1, <2>2, <2>3
<1>3. CASE type # "command"
  <2>1. \E passed \in BOOLEAN : s = Score(passed, "editing")
    BY <1>3 DEF ScorerTypes, ScoresFor
  <2> QED  BY <1>1, <1>3, <2>1 DEF CategoryOf
<1> QED  BY <1>2, <1>3

\* A score more.
LEMMA RaisedAppended ==
    ASSUME TypeOK, NEW s \in ScoreResult
    PROVE  InRange(Append(scores, s)) = InRange(scores) \cup {s}
<1>1. /\ scores \in Seq(ScoreResult) /\ Len(scores) \in Nat
      /\ DOMAIN scores = 1..Len(scores)
  BY DEF TypeOK
<1>2. /\ DOMAIN Append(scores, s) = 1..(Len(scores) + 1)
      /\ \A i \in 1..Len(scores) : Append(scores, s)[i] = scores[i]
      /\ Append(scores, s)[Len(scores) + 1] = s
  BY <1>1, AppendProperties
<1> QED  BY <1>1, <1>2 DEF InRange

\* IsPartOfTheRun (service.py, lines 184-194; workspaces.py, lines 43-73): for any
\* paths, scorers and writes, every step of Evaluation is to the run a step of
\* RunLifecycle, or nothing.
THEOREM PartOfTheRun == Spec => IsPartOfTheRun
<1> DEFINE A == \/ Run!CollectDiff("r") \/ Run!StepRaises("r")
                \/ Run!Score("r") \/ Run!ScorerRaises("r")
<1>1. ASSUME Inv, [Next]_vars PROVE [A]_(Run!vars)
  <2>1. /\ TypeOK /\ LoopInv /\ scores \in Seq(ScoreResult)
        /\ Len(scores) \in Nat /\ Len(Scorers) \in Nat
    BY <1>1 DEF Inv, TypeOK
  <2>2. UNCHANGED harness
    BY <1>1 DEF Next, GitDiff, GitLsFiles, GitDiffUntracked, GitStatus, GitFails,
       RunScorer, ScorerRaises, Scored, Write, Finished, vars
  <2>3. ASSUME UNCHANGED <<PlaceInRun, scores, FailureText>> PROVE UNCHANGED Run!vars
    BY <2>2, <2>3 DEF Run!vars, Run!locals, Run!stores, OfRun
  <2>4. CASE GitDiff \/ GitLsFiles \/ GitDiffUntracked \/ Write \/ UNCHANGED vars
    <3>1. UNCHANGED <<PlaceInRun, scores, FailureText>>
      BY <2>4 DEF GitDiff, GitLsFiles, GitDiffUntracked, Write, vars, PlaceInRun,
         FailureText, Collecting
    <3> QED  BY <2>3, <3>1
  <2>5. CASE GitStatus
    <3>1. /\ PlaceInRun = "collect" /\ UNCHANGED <<scores, FailureText>>
          /\ PlaceInRun' = IF Scorers = <<>> THEN "finally" ELSE "score"
      BY <2>5 DEF GitStatus, PlaceInRun, Collecting, FailureText
    <3>2. Run!CollectDiff("r")
      BY <2>2, <3>1, CategoriesOfRun
         DEF Run!CollectDiff, Run!Goto, Run!locals, Run!stores, OfRun
    <3> QED  BY <3>2
  <2>6. CASE GitFails
    <3>1. /\ PlaceInRun = "collect" /\ PlaceInRun' = "finally" /\ scores' = scores
          /\ FailureText' = FailureText \cup {"execution"}
      BY <2>6 DEF GitFails, PlaceInRun, Collecting, FailureText
    <3>2. Run!StepRaises("r")
      BY <2>2, <3>1 DEF Run!StepRaises, Run!Goto, Run!stores, OfRun
    <3> QED  BY <3>2
  <2>7. CASE RunScorer
    <3>1. PICK s \in ScoresFor(Scorers[Len(scores) + 1], tree, changed) :
            Scored(s, tree, FALSE)
      BY <2>7 DEF RunScorer
    <3>2. /\ pc = "score" /\ Len(scores) < Len(Scorers)
          /\ Scorers[Len(scores) + 1] \in ScorerTypes
      BY <2>1, <2>7 DEF RunScorer, LoopInv
    <3>3. /\ s \in ScoresOf(CategoryOf(Scorers[Len(scores) + 1])) /\ s # RaisedScore
          /\ s \in ScoreResult
      BY <3>2, ScoresOfRun, ScoresTyped
    <3>4. scores' = Append(scores, s) /\ UNCHANGED harness
      BY <3>1 DEF Scored
    <3>5. pc' = IF Len(scores') = Len(Scorers) THEN "done" ELSE "score"
      BY <3>1 DEF Scored
    <3>6. /\ PlaceInRun = "score"
          /\ PlaceInRun' = IF Len(scores') = Len(Scorers) THEN "finally" ELSE "score"
      BY <3>2, <3>5 DEF PlaceInRun, Collecting
    <3>7. FailureText' = FailureText
      BY <2>1, <3>2, <3>3, <3>4, <3>5, RaisedAppended DEF FailureText
    <3>8. CategoryOf(Scorers[Len(scores) + 1]) =
            [i \in DOMAIN Scorers |-> CategoryOf(Scorers[i])][Len(scores) + 1]
      BY <2>1, <3>2
    <3>9. Run!Score("r")
      BY <2>2, <3>3, <3>4, <3>6, <3>7, <3>8, CategoriesOfRun
         DEF Run!Score, Run!Goto, Run!stores, Run!ScoresOf, ScoresOf, OfRun
    <3> QED  BY <3>9
  <2>8. CASE ScorerRaises
    <3>1. /\ pc = "score" /\ pc' = "done" /\ scores' = Append(scores, RaisedScore)
      BY <2>8 DEF ScorerRaises, Scored
    <3>2. PlaceInRun = "score" /\ PlaceInRun' = "finally"
      BY <3>1 DEF PlaceInRun, Collecting
    <3>3. RaisedScore \in ScoreResult  BY DEF RaisedScore, ScoreResult, Categories
    <3>4. FailureText' = FailureText \cup {"scorer"}
      BY <2>1, <3>1, <3>3, RaisedAppended DEF FailureText
    <3>5. Run!ScorerRaises("r")
      BY <2>2, <3>1, <3>2, <3>4
         DEF Run!ScorerRaises, Run!Goto, Run!stores, Run!RaisedScore, RaisedScore,
             Run!None, None, OfRun
    <3> QED  BY <3>5
  <2> QED
    BY <1>1, <2>4, <2>5, <2>6, <2>7, <2>8 DEF Next, Finished
<1> QED  BY <1>1, Invariance, PTL DEF Spec, IsPartOfTheRun
=============================================================================
