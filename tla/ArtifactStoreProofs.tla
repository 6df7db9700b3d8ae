------------------------ MODULE ArtifactStoreProofs ------------------------
(***************************************************************************)
(* What a reference from put is worth, for any number of puts, run files   *)
(* and contents, with failures and deaths anywhere.                        *)
(***************************************************************************)
EXTENDS ArtifactStore, TLAPS

\* A put that is past its check, and has neither failed nor died.
Admitted == {"blob", "replace", "exists", "create", "write", "returned"}

\* The blob is in place before the run file is looked at.
BlobInv ==
    \A p \in Puts :
        pc[p] \in {"exists", "create", "write", "returned"} => content[p] \in blobs

\* A run file that is being written belongs to the put that began it, and that
\* put is at the writing or stopped in it.
BegunInv ==
    /\ \A k \in Keys, p \in Puts : runFiles[k] = Begun(p) =>
          key[p] = k /\ pc[p] \in {"write", "error", "dead"}
    /\ \A p \in Puts : pc[p] = "write" => FileOf(p) = Begun(p)

\* A put returns only when there is a run file.
FileInv == \A p \in Puts : pc[p] = "returned" => FileOf(p) # Missing

\* The put has its run file to itself.
Alone(p) == \A q \in Puts \ {p} : key[q] # key[p]

AloneInv ==
    \A p \in Puts : Alone(p) =>
        /\ pc[p] \in {"conflict", "blob", "replace", "exists", "create"}
              => FileOf(p) = Missing
        /\ pc[p] = "returned" => Same(p)

\* What has ended stays so.  Once a put for the run file has returned, a later one
\* gets past its check only when the file is whole and holds its own content.
ReuseInv ==
    /\ \A p \in Puts : pc[p] = "conflict" => earlier[p] = {}
    /\ \A p \in Puts : \A q \in earlier[p] :
          /\ pc[q] \in Ended
          /\ pc[p] \in Admitted /\ pc[q] = "returned" /\ key[q] = key[p] => Same(p)

\* q works on p's run file, and had not ended when p began.
Rival(q, p) ==
    q # p /\ key[q] = key[p] /\ pc[q] # "conflict" /\ q \notin earlier[p]

\* A file that a put finds after its check, and that is not its own, is a rival's.
RivalInv ==
    \A p \in Puts : pc[p] \in {"blob", "replace", "exists", "create"} =>
        FileOf(p) = Missing \/ Same(p) \/ \E q \in Puts : Rival(q, p)

Inv == TypeOK /\ BlobInv /\ BegunInv /\ FileInv /\ AloneInv /\ ReuseInv /\ RivalInv

-----------------------------------------------------------------------------
\* The three kinds of run file are distinct, and each says whose it is.
LEMMA RunFileKinds ==
    /\ \A p \in Puts : Begun(p) \in RunFile /\ Begun(p) # Missing
    /\ \A c \in Contents : Whole(c) \in RunFile /\ Whole(c) # Missing
    /\ \A p \in Puts, c \in Contents : Begun(p) # Whole(c)
    /\ \A p, q \in Puts : Begun(p) = Begun(q) => p = q
    /\ \A c, d \in Contents : Whole(c) = Whole(d) => c = d
    /\ Missing \in RunFile
<1>1. \A p \in Puts : Begun(p).state = "partial" /\ Begun(p).by = p  BY DEF Begun
<1>2. \A c \in Contents : Whole(c).state = "whole" /\ Whole(c).content = c  BY DEF Whole
<1>3. Missing.state = "missing"  BY DEF Missing
<1> QED  BY <1>1, <1>2, <1>3, "partial" # "whole", "partial" # "missing",
            "whole" # "missing" DEF RunFile

LEMMA InitInv == Init => Inv
<1> SUFFICES ASSUME Init PROVE Inv  OBVIOUS
<1>1. TypeOK  BY RunFileKinds DEF Init, TypeOK, Places
<1>2. \A p \in Puts : pc[p] = "conflict" /\ FileOf(p) = Missing /\ earlier[p] = {}
  BY DEF Init, FileOf
<1>3. \A k \in Keys : runFiles[k] = Missing  BY DEF Init
<1> QED  BY <1>1, <1>2, <1>3, RunFileKinds DEF Inv, BlobInv, BegunInv, FileInv, AloneInv, ReuseInv, RivalInv, Admitted

\* A step that leaves every file, blob and payload alone keeps the invariant when
\* it only stops a put.
LEMMA StopInv ==
    ASSUME Inv, NEW p \in Puts, Fail(p) \/ Crash(p) PROVE Inv'
<1> USE DEF Inv
<1>1. PICK end \in {"error", "dead"} :
        /\ pc[p] \notin Ended
        /\ pc' = [pc EXCEPT ![p] = end]
        /\ UNCHANGED <<key, content, earlier, blobs, temps, runFiles>>
  BY DEF Fail, Crash, Goto
<1>2. TypeOK'  BY <1>1 DEF TypeOK, Places, Ended
<1>3. \A q \in Puts : pc'[q] = IF q = p THEN end ELSE pc[q]  BY <1>1 DEF TypeOK
<1>4. \A q \in Puts : FileOf(q)' = FileOf(q) /\ Same(q)' = Same(q) /\ Alone(q)' = Alone(q)
  BY <1>1 DEF FileOf, Same, Alone
<1>5. BlobInv'  BY <1>1, <1>3 DEF BlobInv
<1>6. BegunInv'  BY <1>1, <1>3, <1>4 DEF BegunInv
<1>7. FileInv'  BY <1>3, <1>4 DEF FileInv
<1>8. AloneInv'  BY <1>3, <1>4 DEF AloneInv
<1>9. ReuseInv'  BY <1>1, <1>3, <1>4 DEF ReuseInv, Admitted, Ended
<1>10. RivalInv'  BY <1>1, <1>3, <1>4 DEF RivalInv, Rival, Ended
<1> QED  BY <1>2, <1>5, <1>6, <1>7, <1>8, <1>9, <1>10

\* The check, after which the puts that had ended before it are known.
LEMMA CheckConflictInv ==
    ASSUME Inv, NEW p \in Puts, CheckConflict(p) PROVE Inv'
<1> USE DEF Inv
<1>1. PICK to \in {"blob", "error"} :
        /\ pc[p] = "conflict" /\ pc' = [pc EXCEPT ![p] = to]
        /\ to = "blob" => NoConflict(p)
        /\ earlier' = [earlier EXCEPT ![p] = {q \in Puts : pc[q] \in Ended}]
        /\ UNCHANGED <<key, content, blobs, temps, runFiles>>
  BY DEF CheckConflict, At, Goto
<1>2. TypeOK'  BY <1>1 DEF TypeOK, Places
<1>3. \A q \in Puts : /\ pc'[q] = IF q = p THEN to ELSE pc[q]
                      /\ q # p => earlier'[q] = earlier[q]
  BY <1>1 DEF TypeOK
<1>4. \A q \in Puts : FileOf(q)' = FileOf(q) /\ Same(q)' = Same(q) /\ Alone(q)' = Alone(q)
  BY <1>1 DEF FileOf, Same, Alone
<1>5. BlobInv'  BY <1>1, <1>3 DEF BlobInv
<1>6. BegunInv'  BY <1>1, <1>3, <1>4 DEF BegunInv
<1>7. FileInv'  BY <1>1, <1>3, <1>4 DEF FileInv
<1>8. AloneInv'  BY <1>1, <1>3, <1>4 DEF AloneInv
<1>9. ReuseInv'
  <2>1. ASSUME NEW q \in Puts, pc[q] = "returned", to = "blob", key[q] = key[p]
        PROVE  Same(p)
    <3>1. FileOf(p) # Missing  BY <2>1 DEF FileInv, FileOf
    <3> QED  BY <1>1, <2>1, <3>1 DEF NoConflict
  <2>2. earlier'[p] = {q \in Puts : pc[q] \in Ended}  BY <1>1 DEF TypeOK
  <2> QED  BY <1>1, <1>2, <1>3, <1>4, <2>1, <2>2 DEF ReuseInv, TypeOK, Admitted, Ended
<1>10. RivalInv'
  BY <1>1, <1>3, <1>4 DEF RivalInv, Rival, NoConflict
<1> QED  BY <1>2, <1>5, <1>6, <1>7, <1>8, <1>9, <1>10

\* The blob is written, or there already.
LEMMA BlobStepInv ==
    ASSUME Inv, NEW p \in Puts, WriteBlob(p) \/ Replace(p) PROVE Inv'
<1> USE DEF Inv
<1>1. PICK to \in {"replace", "exists"} :
        /\ pc[p] \in {"blob", "replace"} /\ pc' = [pc EXCEPT ![p] = to]
        /\ to = "exists" => content[p] \in blobs'
        /\ blobs \subseteq blobs' /\ blobs' \subseteq Contents
        /\ temps' \subseteq temps \cup {p} /\ (to = "exists" => p \notin temps')
        /\ UNCHANGED <<key, content, earlier, runFiles>>
  BY DEF WriteBlob, Replace, At, Goto, TypeOK
<1>2. TypeOK'  BY <1>1 DEF TypeOK, Places
<1>3. \A q \in Puts : pc'[q] = IF q = p THEN to ELSE pc[q]  BY <1>1 DEF TypeOK
<1>4. \A q \in Puts : FileOf(q)' = FileOf(q) /\ Same(q)' = Same(q) /\ Alone(q)' = Alone(q)
  BY <1>1 DEF FileOf, Same, Alone
<1>5. BlobInv'  BY <1>1, <1>3 DEF BlobInv
<1>6. BegunInv'  BY <1>1, <1>3, <1>4 DEF BegunInv
<1>7. FileInv'  BY <1>1, <1>3, <1>4 DEF FileInv
<1>8. AloneInv'  BY <1>1, <1>3, <1>4 DEF AloneInv
<1>9. ReuseInv'  BY <1>1, <1>3, <1>4 DEF ReuseInv, Admitted, Ended
<1>10. RivalInv'  BY <1>1, <1>3, <1>4 DEF RivalInv, Rival, Ended
<1> QED  BY <1>2, <1>5, <1>6, <1>7, <1>8, <1>9, <1>10

\* The look at the run file, and the exclusive creation when it finds one after all.
LEMMA LookInv ==
    ASSUME Inv, NEW p \in Puts, CheckExists(p) \/ (Create(p) /\ FileOf(p) # Missing)
    PROVE  Inv'
<1> USE DEF Inv
<1>1. PICK to \in {"create", "returned", "error"} :
        /\ pc[p] \in {"exists", "create"} /\ pc' = [pc EXCEPT ![p] = to]
        /\ to = "returned" => FileOf(p) # Missing
        /\ UNCHANGED <<key, content, earlier, blobs, temps, runFiles>>
  BY DEF CheckExists, Create, At, Goto
<1>2. TypeOK'  BY <1>1 DEF TypeOK, Places
<1>3. \A q \in Puts : pc'[q] = IF q = p THEN to ELSE pc[q]  BY <1>1 DEF TypeOK
<1>4. \A q \in Puts : FileOf(q)' = FileOf(q) /\ Same(q)' = Same(q) /\ Alone(q)' = Alone(q)
  BY <1>1 DEF FileOf, Same, Alone
<1>5. BlobInv'  BY <1>1, <1>3 DEF BlobInv
<1>6. BegunInv'  BY <1>1, <1>3, <1>4 DEF BegunInv
<1>7. FileInv'  BY <1>1, <1>3, <1>4 DEF FileInv
<1>8. AloneInv'  BY <1>1, <1>3, <1>4 DEF AloneInv
<1>9. ReuseInv'  BY <1>1, <1>3, <1>4 DEF ReuseInv, Admitted, Ended
<1>10. RivalInv'  BY <1>1, <1>3, <1>4 DEF RivalInv, Rival, Ended
<1> QED  BY <1>2, <1>5, <1>6, <1>7, <1>8, <1>9, <1>10

\* The run file is created, which only one put can do.
LEMMA CreateInv ==
    ASSUME Inv, NEW p \in Puts, Create(p), FileOf(p) = Missing PROVE Inv'
<1> USE DEF Inv
<1>1. /\ pc[p] = "create" /\ pc' = [pc EXCEPT ![p] = "write"]
      /\ runFiles' = [runFiles EXCEPT ![key[p]] = Begun(p)]
      /\ runFiles[key[p]] = Missing
      /\ UNCHANGED <<key, content, earlier, blobs, temps>>
  BY DEF Create, At, Goto, FileOf
<1>2. TypeOK'  BY <1>1, RunFileKinds DEF TypeOK, Places
<1>3. \A q \in Puts : pc'[q] = IF q = p THEN "write" ELSE pc[q]  BY <1>1 DEF TypeOK
<1>4. \A q \in Puts :
        /\ FileOf(q)' = IF key[q] = key[p] THEN Begun(p) ELSE FileOf(q)
        /\ Alone(q)' = Alone(q)
  BY <1>1 DEF TypeOK, FileOf, Alone
<1>5. \A q \in Puts : /\ key[q] = key[p] => FileOf(q) = Missing
                      /\ key[q] # key[p] => Same(q)' = Same(q)
  BY <1>1, <1>4 DEF FileOf, Same
<1>6. \A q \in Puts : key[q] = key[p] => ~Same(q)
  BY <1>5, RunFileKinds DEF Same, TypeOK
<1>7. BlobInv'  BY <1>1, <1>3 DEF BlobInv
<1>8. BegunInv'
  <2>1. ASSUME NEW k \in Keys, NEW q \in Puts, runFiles'[k] = Begun(q)
        PROVE  key'[q] = k /\ pc'[q] \in {"write", "error", "dead"}
    BY <1>1, <1>3, <2>1, RunFileKinds DEF TypeOK, BegunInv
  <2>2. ASSUME NEW q \in Puts, pc'[q] = "write" PROVE FileOf(q)' = Begun(q)
    BY <1>1, <1>3, <1>4, <1>5, <2>2, RunFileKinds DEF BegunInv
  <2> QED  BY <2>1, <2>2 DEF BegunInv
<1>9. FileInv'  BY <1>3, <1>4, RunFileKinds DEF FileInv
<1>10. AloneInv'
  BY <1>1, <1>3, <1>4, <1>5 DEF AloneInv, Alone, TypeOK
<1>11. ReuseInv'
  BY <1>1, <1>3, <1>5, <1>6 DEF ReuseInv, Admitted, Ended
<1>12. RivalInv'
  BY <1>1, <1>3, <1>4, <1>5 DEF RivalInv, Rival, ReuseInv, Ended
<1> QED  BY <1>2, <1>7, <1>8, <1>9, <1>10, <1>11, <1>12

\* The run file is whole, and stays what it is.
LEMMA WriteInv ==
    ASSUME Inv, NEW p \in Puts, Write(p) PROVE Inv'
<1> USE DEF Inv
<1>1. /\ pc[p] = "write" /\ pc' = [pc EXCEPT ![p] = "returned"]
      /\ runFiles' = [runFiles EXCEPT ![key[p]] = Whole(content[p])]
      /\ runFiles[key[p]] = Begun(p)
      /\ UNCHANGED <<key, content, earlier, blobs, temps>>
  BY DEF Write, At, Goto, FileOf, BegunInv
<1>2. TypeOK'  BY <1>1, RunFileKinds DEF TypeOK, Places
<1>3. \A q \in Puts : pc'[q] = IF q = p THEN "returned" ELSE pc[q]  BY <1>1 DEF TypeOK
<1>4. \A q \in Puts :
        /\ FileOf(q)' = IF key[q] = key[p] THEN Whole(content[p]) ELSE FileOf(q)
        /\ Alone(q)' = Alone(q)
  BY <1>1 DEF TypeOK, FileOf, Alone
<1>5. \A q \in Puts : /\ key[q] = key[p] => FileOf(q) = Begun(p)
                      /\ key[q] # key[p] => Same(q)' = Same(q)
  BY <1>1, <1>4 DEF FileOf, Same
<1>6. \A q \in Puts : key[q] = key[p] => ~Same(q)
  BY <1>5, RunFileKinds DEF Same, TypeOK
<1>7. Same(p)'  BY <1>1, <1>4 DEF Same
<1>8. BlobInv'  BY <1>1, <1>3 DEF BlobInv
<1>9. BegunInv'
  <2>1. ASSUME NEW k \in Keys, NEW q \in Puts, runFiles'[k] = Begun(q)
        PROVE  key'[q] = k /\ pc'[q] \in {"write", "error", "dead"}
    <3>1. k # key[p] /\ runFiles[k] = Begun(q)
      BY <1>1, <2>1, RunFileKinds DEF TypeOK
    <3> QED  BY <1>1, <1>3, <3>1 DEF BegunInv
  <2>2. ASSUME NEW q \in Puts, pc'[q] = "write" PROVE FileOf(q)' = Begun(q)
    BY <1>1, <1>3, <1>4, <1>5, <2>2, RunFileKinds DEF BegunInv
  <2> QED  BY <2>1, <2>2 DEF BegunInv
<1>10. FileInv'  BY <1>3, <1>4, RunFileKinds DEF FileInv, TypeOK
<1>11. AloneInv'
  BY <1>1, <1>3, <1>4, <1>5, <1>7 DEF AloneInv, Alone, TypeOK
<1>12. ReuseInv'
  BY <1>1, <1>3, <1>5, <1>6, <1>7 DEF ReuseInv, Admitted, Ended
<1>13. RivalInv'
  BY <1>1, <1>3, <1>4, <1>5 DEF RivalInv, Rival, ReuseInv, Ended
<1> QED  BY <1>2, <1>8, <1>9, <1>10, <1>11, <1>12, <1>13

LEMMA NextInv == Inv /\ [Next]_vars => Inv'
<1> SUFFICES ASSUME Inv, [Next]_vars PROVE Inv'  OBVIOUS
<1>1. CASE UNCHANGED vars
  <2>1. \A p \in Puts : FileOf(p)' = FileOf(p) /\ Same(p)' = Same(p) /\ Alone(p)' = Alone(p)
    BY <1>1 DEF vars, FileOf, Same, Alone
  <2> QED  BY <1>1, <2>1 DEF vars, Inv, TypeOK, BlobInv, BegunInv, FileInv, AloneInv, ReuseInv, RivalInv, Rival
<1>2. ASSUME NEW p \in Puts, Step(p) \/ Crash(p) PROVE Inv'
  <2>1. CASE CheckConflict(p)  BY <2>1, CheckConflictInv
  <2>2. CASE WriteBlob(p) \/ Replace(p)  BY <2>2, BlobStepInv
  <2>3. CASE CheckExists(p)  BY <2>3, LookInv
  <2>4. CASE Create(p)  BY <2>4, LookInv, CreateInv
  <2>5. CASE Write(p)  BY <2>5, WriteInv
  <2>6. CASE Fail(p) \/ Crash(p)  BY <2>6, StopInv
  <2> QED  BY <1>2, <2>1, <2>2, <2>3, <2>4, <2>5, <2>6 DEF Step
<1> QED  BY <1>1, <1>2 DEF Next, Finished

LEMMA Invariant == Spec => []Inv
BY InitInv, NextInv, PTL DEF Spec

-----------------------------------------------------------------------------
\* Every variable keeps its type, and a temporary file is one of a put at its
\* rename, or of one that failed or died (put, lines 32-40).
THEOREM TypeCorrect == Spec => []TypeOK
<1>1. Inv => TypeOK  BY DEF Inv
<1> QED  BY <1>1, Invariant, PTL

\* A reference that was handed out can be read, through open() and in the run
\* directory: its blob and a run file of its name are there, whatever other puts fail
\* or die (put, lines 32-50).
THEOREM Readable == Spec => []RefIsReadable
<1>1. Inv => RefIsReadable  BY DEF Inv, BlobInv, FileInv, RefIsReadable, At
<1> QED  BY <1>1, Invariant, PTL

\* A put with a run file of its own, as the unique run ids of the service give it,
\* hands out a reference only to a whole file with its payload (lines 41-50).
THEOREM Complete == Spec => []RefIsComplete
<1>1. Inv => RefIsComplete  BY DEF Inv, AloneInv, Alone, RefIsComplete, At
<1> QED  BY <1>1, Invariant, PTL

\* A put that starts after another has returned for the same run file is refused
\* unless its content is the same (lines 28-31).
THEOREM ReuseRefused == Spec => []ReuseIsRefused
<1>1. Inv => ReuseIsRefused  BY DEF Inv, ReuseInv, Admitted, ReuseIsRefused, At
<1> QED  BY <1>1, Invariant, PTL

\* Evidence is never rewritten (lines 39-50): no step takes a blob away, and a run
\* file is begun once and completed once, by the same put.
THEOREM Immutable == Spec => EvidenceIsImmutable
<1> DEFINE Kept ==
      /\ blobs \subseteq blobs'
      /\ \A k \in Keys : runFiles'[k] # runFiles[k] =>
            \/ runFiles[k] = Missing /\ \E p \in Puts : runFiles'[k] = Begun(p)
            \/ \E p \in Puts : runFiles[k] = Begun(p) /\ runFiles'[k] = Whole(content[p])
<1>1. Inv /\ [Next]_vars => [Kept]_vars
  <2> SUFFICES ASSUME Inv, Next PROVE Kept \/ UNCHANGED vars
    OBVIOUS
  <2>1. ASSUME NEW p \in Puts, Step(p) \/ Crash(p) PROVE Kept
    <3>1. CASE Create(p) /\ FileOf(p) = Missing
      BY <3>1 DEF Inv, TypeOK, Create, FileOf
    <3>2. CASE Write(p)
      BY <3>2 DEF Inv, TypeOK, BegunInv, Write, FileOf, At
    <3>3. CASE runFiles' = runFiles /\ blobs \subseteq blobs'
      BY <3>3
    <3>4. \/ Create(p) /\ FileOf(p) = Missing
          \/ Write(p)
          \/ runFiles' = runFiles /\ blobs \subseteq blobs'
      BY <2>1 DEF Step, Crash, Fail, CheckConflict, WriteBlob, Replace, CheckExists, Create
    <3> QED  BY <3>1, <3>2, <3>3, <3>4
  <2> QED  BY <2>1 DEF Next, Finished
<1> QED  BY <1>1, Invariant, PTL DEF Spec, EvidenceIsImmutable

-----------------------------------------------------------------------------
(* ArtifactStore implements PutContract.                                   *)

LEMMA SettledIs ==
    ASSUME Inv, NEW k \in Keys
    PROVE  /\ runFiles[k] = Missing => Settled(k) = Contract!Missing
           /\ \A c \in Contents : runFiles[k] = Whole(c) => Settled(k) = Contract!Holds(c)
           /\ \A p \in Puts : runFiles[k] = Begun(p) /\ pc[p] = "write" =>
                 Settled(k) = Contract!Missing
<1>1. \A p \in Puts : Begun(p).state = "partial"  BY DEF Begun
<1>2. \A c \in Contents : Whole(c).state = "whole"  BY DEF Whole
<1> QED  BY <1>1, <1>2 DEF Settled, Missing, Whole, At, Contract!Missing, Contract!Holds

\* A run file stays what it is while no step writes to it and its writer stays.
LEMMA SettledStays ==
    ASSUME Inv, NEW p \in Puts, NEW k \in Keys, NEW to \in Places,
           pc' = [pc EXCEPT ![p] = to], runFiles'[k] = runFiles[k],
           runFiles[k] = Begun(p) => (pc[p] = "write" <=> to = "write")
    PROVE  Settled(k)' = Settled(k)
<1>1. \A q \in Puts : pc'[q] = IF q = p THEN to ELSE pc[q]  BY DEF Inv, TypeOK
<1>2. (\E q \in Puts : At(q, "write") /\ runFiles[k] = Begun(q))
      <=> (\E q \in Puts : At(q, "write") /\ runFiles[k] = Begun(q))'
  BY <1>1 DEF At
<1> QED  BY <1>2 DEF Settled

\* A put moves alone.
LEMMA AnswersMove ==
    ASSUME TypeOK, NEW p \in Puts, NEW to \in Places, pc' = [pc EXCEPT ![p] = to]
    PROVE  [q \in Puts |-> Answered(q)]' =
              [[q \in Puts |-> Answered(q)] EXCEPT ![p] = Answered(p)']
<1>1. \A q \in Puts \ {p} : Answered(q)' = Answered(q)  BY DEF TypeOK, Answered
<1> QED  BY <1>1

\* What the contract speaks of does not move.
LEMMA Silent ==
    ASSUME Inv, NEW p \in Puts, NEW to \in Places, pc' = [pc EXCEPT ![p] = to],
           Answered(p)' = Answered(p), UNCHANGED <<key, content, earlier, blobs>>,
           \A k \in Keys : Settled(k)' = Settled(k)
    PROVE  UNCHANGED Contract!store
<1>1. [q \in Puts |-> Answered(q)]' = [q \in Puts |-> Answered(q)]
  BY AnswersMove DEF Inv
<1> QED  BY <1>1 DEF Contract!store

\* put's first look at the run file is where the contract's put begins.
LEMMA CheckBegins ==
    ASSUME Inv, NEW p \in Puts, CheckConflict(p)
    PROVE  Contract!Begin(p) /\ UNCHANGED <<key, content>>
<1>1. PICK to \in {"blob", "error"} :
        /\ pc[p] = "conflict" /\ pc' = [pc EXCEPT ![p] = to]
        /\ to = "blob" => NoConflict(p)
        /\ earlier' = [earlier EXCEPT ![p] = {q \in Puts : pc[q] \in Ended}]
        /\ UNCHANGED <<key, content, blobs, temps, runFiles>>
  BY DEF CheckConflict, At, Goto
<1>2. to \in Places /\ pc'[p] = to /\ key[p] \in Keys /\ content[p] \in Contents
  BY <1>1 DEF Inv, TypeOK, Places
<1>3. [k \in Keys |-> Settled(k)]' = [k \in Keys |-> Settled(k)]
  BY <1>1, <1>2, SettledStays
<1>4. Answered(p) = "none" /\ Answered(p)' = IF to = "blob" THEN "working" ELSE "failed"
  BY <1>1, <1>2 DEF Answered
<1>5. to = "blob" => Settled(key[p]) \in {Contract!Missing, Contract!Holds(content[p])}
  BY <1>1, <1>2, SettledIs DEF NoConflict, Same, FileOf
<1>6. {q \in Puts : pc[q] \in Ended} =
      {q \in Puts : [r \in Puts |-> Answered(r)][q] \in Contract!Final}
  BY DEF Answered, Ended, Contract!Final, Inv, TypeOK, Places
<1> QED
  BY <1>1, <1>2, <1>3, <1>4, <1>5, <1>6, AnswersMove
     DEF Inv, Contract!Begin, Contract!Mine

\* The blob's steps are silent but for the rename.
LEMMA BlobSteps ==
    ASSUME Inv, NEW p \in Puts, WriteBlob(p) \/ Replace(p)
    PROVE  \/ UNCHANGED Contract!store
           \/ Contract!KeepBlob(p) /\ UNCHANGED <<key, content>>
<1>1. PICK to \in {"replace", "exists"} :
        /\ pc[p] \in {"blob", "replace"} /\ pc' = [pc EXCEPT ![p] = to]
        /\ blobs' = blobs \/ blobs' = blobs \cup {content[p]}
        /\ UNCHANGED <<key, content, earlier, runFiles>>
  BY DEF WriteBlob, Replace, At, Goto
<1>2. to \in Places /\ pc'[p] = to  BY <1>1 DEF Inv, TypeOK, Places
<1>3. \A k \in Keys : Settled(k)' = Settled(k)  BY <1>1, <1>2, SettledStays
<1>4. Answered(p) = "working" /\ Answered(p)' = "working"  BY <1>1, <1>2 DEF Answered
<1>5. CASE blobs' = blobs  BY <1>1, <1>2, <1>3, <1>4, <1>5, Silent
<1>6. CASE blobs' = blobs \cup {content[p]}
  BY <1>1, <1>2, <1>3, <1>4, <1>6, AnswersMove DEF Inv, Contract!KeepBlob
<1> QED  BY <1>1, <1>5, <1>6

\* A put that takes the run file it finds has its own content in it, or a rival.
LEMMA LookReuses ==
    ASSUME Inv, NEW p \in Puts, CheckExists(p) \/ (Create(p) /\ FileOf(p) # Missing)
    PROVE  \/ UNCHANGED Contract!store
           \/ (Contract!Reuse(p) \/ Contract!Fail(p)) /\ UNCHANGED <<key, content>>
<1>1. PICK to \in {"create", "returned", "error"} :
        /\ pc[p] \in {"exists", "create"} /\ pc' = [pc EXCEPT ![p] = to]
        /\ to = "returned" => FileOf(p) # Missing
        /\ UNCHANGED <<key, content, earlier, blobs, temps, runFiles>>
  BY DEF CheckExists, Create, At, Goto
<1>2. to \in Places /\ pc'[p] = to /\ key[p] \in Keys /\ content[p] \in Contents
  BY <1>1 DEF Inv, TypeOK, Places
<1>3. \A k \in Keys : Settled(k)' = Settled(k)  BY <1>1, <1>2, SettledStays
<1>4. Answered(p) = "working"  BY <1>1 DEF Answered
<1>5. CASE to = "create"
  BY <1>1, <1>2, <1>3, <1>4, <1>5, Silent DEF Answered
<1>6. CASE to = "error"
  <2>1. Answered(p)' = "failed"  BY <1>2, <1>6 DEF Answered
  <2> QED  BY <1>1, <1>2, <1>3, <1>4, <2>1, AnswersMove DEF Inv, Contract!Fail
<1>7. CASE to = "returned"
  <2>1. Answered(p)' = "reference"  BY <1>2, <1>7 DEF Answered
  <2>3. content[p] \in blobs  BY <1>1 DEF Inv, BlobInv
  <2>4. Same(p) \/ \E q \in Puts : Rival(q, p)
    BY <1>1, <1>7 DEF Inv, RivalInv
  <2>5. Same(p) => Settled(key[p]) = Contract!Holds(content[p])
    BY <1>2, SettledIs DEF Same, FileOf
  <2>6. \A q \in Puts : Rival(q, p) => Answered(q) # "none"
    BY DEF Rival, Answered
  <2>7. Same(p) => Contract!Mine(p)
    BY <1>2, <2>5 DEF Contract!Mine
  <2>8. \A q \in Puts : Rival(q, p) => Contract!Overlaps(q, p)
    BY <2>6 DEF Rival, Contract!Overlaps
  <2> QED
    BY <1>1, <1>2, <1>3, <1>4, <2>1, <2>3, <2>4, <2>7, <2>8, AnswersMove
       DEF Inv, Contract!Reuse
<1> QED  BY <1>1, <1>5, <1>6, <1>7

\* The run file is created: nothing yet for the contract.
LEMMA CreateIsSilent ==
    ASSUME Inv, NEW p \in Puts, Create(p), FileOf(p) = Missing
    PROVE  UNCHANGED Contract!store
<1>1. /\ pc[p] = "create" /\ pc' = [pc EXCEPT ![p] = "write"]
      /\ runFiles' = [runFiles EXCEPT ![key[p]] = Begun(p)]
      /\ runFiles[key[p]] = Missing
      /\ UNCHANGED <<key, content, earlier, blobs, temps>>
  BY DEF Create, At, Goto, FileOf
<1>2. "write" \in Places /\ pc'[p] = "write" /\ key[p] \in Keys
  BY <1>1 DEF Inv, TypeOK, Places
<1>3. Answered(p)' = Answered(p)  BY <1>1, <1>2 DEF Answered
<1>4. ASSUME NEW k \in Keys PROVE Settled(k)' = Settled(k)
  <2>1. CASE k = key[p]
    <3>1. Settled(k) = Contract!Missing  BY <1>1, <2>1, SettledIs
    <3>2. runFiles'[k] = Begun(p) /\ Begun(p).state = "partial"
      BY <1>1, <1>2, <2>1 DEF Inv, TypeOK, Begun
    <3>3. Settled(k)' = Missing
      BY <1>2, <3>2 DEF Settled, At
    <3> QED  BY <3>1, <3>3 DEF Missing, Contract!Missing
  <2>2. CASE k # key[p]
    <3>1. runFiles'[k] = runFiles[k]  BY <1>1, <2>2 DEF Inv, TypeOK
    <3>2. runFiles[k] # Begun(p)  BY <2>2 DEF Inv, BegunInv
    <3> QED  BY <1>1, <1>2, <3>1, <3>2, SettledStays
  <2> QED  BY <2>1, <2>2
<1> QED  BY <1>1, <1>2, <1>3, <1>4, Silent

\* Its content is the contract's Store.
LEMMA WriteStores ==
    ASSUME Inv, NEW p \in Puts, Write(p)
    PROVE  Contract!Store(p) /\ UNCHANGED <<key, content>>
<1>1. /\ pc[p] = "write" /\ pc' = [pc EXCEPT ![p] = "returned"]
      /\ runFiles' = [runFiles EXCEPT ![key[p]] = Whole(content[p])]
      /\ runFiles[key[p]] = Begun(p)
      /\ content[p] \in blobs
      /\ UNCHANGED <<key, content, earlier, blobs, temps>>
  BY DEF Write, At, Goto, FileOf, Inv, BegunInv, BlobInv
<1>2. /\ "returned" \in Places /\ pc'[p] = "returned"
      /\ key[p] \in Keys /\ content[p] \in Contents
  BY <1>1 DEF Inv, TypeOK, Places
<1>3. Answered(p) = "working" /\ Answered(p)' = "reference"  BY <1>1, <1>2 DEF Answered
<1>4. Settled(key[p]) = Contract!Missing  BY <1>1, <1>2, SettledIs
<1>5. Settled(key[p])' = Contract!Holds(content[p])
  <2>1. runFiles'[key[p]] = Whole(content[p])  BY <1>1, <1>2 DEF Inv, TypeOK
  <2>2. runFiles'[key'[p]].state # "partial"  BY <1>1, <2>1 DEF Whole
  <2> QED  BY <1>1, <2>1, <2>2 DEF Settled, Whole, Contract!Holds
<1>6. ASSUME NEW k \in Keys, k # key[p] PROVE Settled(k)' = Settled(k)
  <2>1. runFiles'[k] = runFiles[k]  BY <1>1, <1>6 DEF Inv, TypeOK
  <2>2. runFiles[k] # Begun(p)  BY <1>6 DEF Inv, BegunInv
  <2> QED  BY <1>1, <1>2, <2>1, <2>2, SettledStays
<1>7. [k \in Keys |-> Settled(k)]' =
        [[k \in Keys |-> Settled(k)] EXCEPT ![key[p]] = Contract!Holds(content[p])]
  BY <1>1, <1>2, <1>5, <1>6
<1> QED
  BY <1>1, <1>2, <1>3, <1>4, <1>7, AnswersMove DEF Inv, Contract!Store

\* A put that stops in the middle of its run file leaves it torn.
LEMMA StopFails ==
    ASSUME Inv, NEW p \in Puts, Fail(p) \/ Crash(p)
    PROVE  Contract!Fail(p) /\ UNCHANGED <<key, content>>
<1>1. PICK end \in {"error", "dead"} :
        /\ pc[p] \notin Ended
        /\ pc' = [pc EXCEPT ![p] = end]
        /\ UNCHANGED <<key, content, earlier, blobs, temps, runFiles>>
  BY DEF Fail, Crash, Goto
<1>2. end \in Places /\ pc'[p] = end /\ key[p] \in Keys
  BY <1>1 DEF Inv, TypeOK, Places
<1>3. /\ Answered(p) \in {"none", "working"} /\ Answered(p)' = "failed"
      /\ pc[p] = "write" => Answered(p) = "working"
  BY <1>1, <1>2 DEF Answered, Ended
<1>4. [q \in Puts |-> Answered(q)]' = [[q \in Puts |-> Answered(q)] EXCEPT ![p] = "failed"]
  BY <1>1, <1>2, <1>3, AnswersMove DEF Inv
<1>5. CASE pc[p] # "write"
  <2>1. [k \in Keys |-> Settled(k)]' = [k \in Keys |-> Settled(k)]
    BY <1>1, <1>2, <1>5, SettledStays
  <2> QED  BY <1>1, <1>3, <1>4, <2>1 DEF Contract!Fail
<1>6. CASE pc[p] = "write"
  <2>1. runFiles[key[p]] = Begun(p)  BY <1>6 DEF Inv, BegunInv, FileOf
  <2>2. Settled(key[p]) = Contract!Missing  BY <1>2, <1>6, <2>1, SettledIs
  <2>3. Settled(key[p])' = Contract!Torn
    <3>1. Begun(p).state = "partial" /\ runFiles'[key'[p]] = Begun(p)
      BY <1>1, <2>1 DEF Begun
    <3>2. \A q \in Puts : ~(At(q, "write")' /\ Begun(p) = Begun(q))
      BY <1>2, RunFileKinds DEF At
    <3> QED  BY <1>1, <3>1, <3>2 DEF Settled, Contract!Torn
  <2>4. ASSUME NEW k \in Keys, k # key[p] PROVE Settled(k)' = Settled(k)
    <3>1. runFiles[k] # Begun(p)  BY <2>4 DEF Inv, BegunInv
    <3> QED  BY <1>1, <1>2, <3>1, SettledStays
  <2>5. [k \in Keys |-> Settled(k)]' =
          [[k \in Keys |-> Settled(k)] EXCEPT ![key[p]] = Contract!Torn]
    BY <1>1, <1>2, <2>3, <2>4
  <2> QED  BY <1>1, <1>2, <1>3, <1>4, <1>6, <2>2, <2>5 DEF Contract!Fail
<1> QED  BY <1>5, <1>6

\* KeepsContract (put, lines 28-56): for any number of puts, run files and contents,
\* and whatever fails or dies, ArtifactStore implements PutContract.
THEOREM Implements == Spec => KeepsContract
<1>1. ASSUME Init PROVE Contract!ContractInit
  <2>1. \A k \in Keys : Settled(k) = Contract!Missing
    BY <1>1, InitInv, SettledIs DEF Init
  <2> QED  BY <1>1, <2>1 DEF Init, Contract!ContractInit, Answered
<1>2. ASSUME Inv, [Next]_vars PROVE [Contract!ContractNext]_(Contract!store)
  <2>1. ASSUME UNCHANGED vars PROVE UNCHANGED Contract!store
    BY <2>1 DEF vars, Contract!store, Answered, Settled, At
  <2>2. ASSUME NEW p \in Puts, Step(p) \/ Crash(p)
        PROVE  [Contract!ContractNext]_(Contract!store)
    <3>1. CASE CheckConflict(p)  BY <1>2, <3>1, CheckBegins DEF Contract!ContractNext
    <3>2. CASE WriteBlob(p) \/ Replace(p)
      BY <1>2, <3>2, BlobSteps DEF Contract!ContractNext
    <3>3. CASE CheckExists(p)  BY <1>2, <3>3, LookReuses DEF Contract!ContractNext
    <3>4. CASE Create(p)
      BY <1>2, <3>4, LookReuses, CreateIsSilent DEF Contract!ContractNext
    <3>5. CASE Write(p)  BY <1>2, <3>5, WriteStores DEF Contract!ContractNext
    <3>6. CASE Fail(p) \/ Crash(p)  BY <1>2, <3>6, StopFails DEF Contract!ContractNext
    <3> QED  BY <2>2, <3>1, <3>2, <3>3, <3>4, <3>5, <3>6 DEF Step
  <2> QED  BY <1>2, <2>1, <2>2 DEF Next, Finished
<1> QED
  BY <1>1, <1>2, Invariant, PTL DEF Spec, KeepsContract, Contract!ContractSpec
=============================================================================
