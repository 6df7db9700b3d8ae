--------------------------- MODULE ArtifactStore ---------------------------
(***************************************************************************)
(* FilesystemArtifactStore.put, step by step as the file system sees it:   *)
(* concurrent puts share the blobs by content and, when they name the same *)
(* run and file, the run file.  A blob arrives by rename, all at once; a   *)
(* run file is created exclusively and then written, so that it can be     *)
(* seen, or left behind, cut short.  Digests do not collide, so a blob is  *)
(* named by its content.                                                   *)
(***************************************************************************)
EXTENDS Naturals, FiniteSets

CONSTANTS
    Puts,       \* calls of put
    Keys,       \* <run id, artifact name> pairs
    Contents

VARIABLES
    key,        \* key[p], content[p]: the payload
    content,
    pc,
    earlier,    \* history: the puts that had ended when p looked first
    blobs,      \* contents that have a blob
    temps,      \* puts whose temporary file exists
    runFiles    \* runFiles[k]

vars == <<key, content, pc, earlier, blobs, temps, runFiles>>

-----------------------------------------------------------------------------
Missing == [state |-> "missing"]
Begun(p)   == [state |-> "partial", by |-> p]
Whole(c)   == [state |-> "whole", content |-> c]
RunFile == {Missing} \cup {Begun(p) : p \in Puts} \cup {Whole(c) : c \in Contents}

Places == {"conflict", "blob", "replace", "exists", "create", "write",
           "returned", "error", "dead"}
Ended  == {"returned", "error", "dead"}

TypeOK ==
    /\ key \in [Puts -> Keys]
    /\ content \in [Puts -> Contents]
    /\ pc \in [Puts -> Places]
    /\ earlier \in [Puts -> SUBSET Puts]
    /\ blobs \subseteq Contents
    /\ temps \subseteq {p \in Puts : pc[p] \in {"replace", "error", "dead"}}
    /\ runFiles \in [Keys -> RunFile]

Init ==
    /\ key \in [Puts -> Keys]
    /\ content \in [Puts -> Contents]
    /\ pc = [p \in Puts |-> "conflict"]
    /\ earlier = [p \in Puts |-> {}]
    /\ blobs = {}
    /\ temps = {}
    /\ runFiles = [k \in Keys |-> Missing]

At(p, place)   == pc[p] = place
Goto(p, place) == pc' = [pc EXCEPT ![p] = place]
FileOf(p)      == runFiles[key[p]]

\* What read_bytes returns is the payload: a file cut short never is.
Same(p) == FileOf(p) = Whole(content[p])

-----------------------------------------------------------------------------
\* Mutant: the file of an earlier put is not read, as in the second check.
NoConflictEver(p) == TRUE

\* if run_path.exists() and run_path.read_bytes() != artifact.content
NoConflict(p) == FileOf(p) = Missing \/ Same(p)

CheckConflict(p) ==
    /\ At(p, "conflict")
    /\ earlier' = [earlier EXCEPT ![p] = {q \in Puts : pc[q] \in Ended}]
    /\ Goto(p, IF NoConflict(p) THEN "blob" ELSE "error")
    /\ UNCHANGED <<key, content, blobs, temps, runFiles>>

\* A blob that exists is the content already; otherwise a temporary file is
\* written beside it.
WriteBlob(p) ==
    /\ At(p, "blob")
    /\ IF content[p] \in blobs
         THEN Goto(p, "exists") /\ UNCHANGED temps
         ELSE Goto(p, "replace") /\ temps' = temps \cup {p}
    /\ UNCHANGED <<key, content, earlier, blobs, runFiles>>

\* os.replace and chmod
Replace(p) ==
    /\ At(p, "replace")
    /\ blobs' = blobs \cup {content[p]}
    /\ temps' = temps \ {p}
    /\ Goto(p, "exists")
    /\ UNCHANGED <<key, content, earlier, runFiles>>

\* if not run_path.exists(): a file that has come up in the meantime is taken
\* for the put's own, unread.
CheckExists(p) ==
    /\ At(p, "exists")
    /\ Goto(p, IF FileOf(p) = Missing THEN "create" ELSE "returned")
    /\ UNCHANGED <<key, content, earlier, blobs, temps, runFiles>>

\* Mutant: the run file is opened for writing whether it exists or not.
CreateOver(p) ==
    /\ At(p, "create")
    /\ runFiles' = [runFiles EXCEPT ![key[p]] = Begun(p)]
    /\ Goto(p, "write")
    /\ UNCHANGED <<key, content, earlier, blobs, temps>>

\* open("xb"); on FileExistsError the file is read after all.
Create(p) ==
    /\ At(p, "create")
    /\ IF FileOf(p) = Missing
         THEN /\ runFiles' = [runFiles EXCEPT ![key[p]] = Begun(p)]
              /\ Goto(p, "write")
         ELSE /\ Goto(p, IF Same(p) THEN "returned" ELSE "error")
              /\ UNCHANGED runFiles
    /\ UNCHANGED <<key, content, earlier, blobs, temps>>

Write(p) ==
    /\ At(p, "write")
    /\ runFiles' = [runFiles EXCEPT ![key[p]] = Whole(content[p])]
    /\ Goto(p, "returned")
    /\ UNCHANGED <<key, content, earlier, blobs, temps>>

\* OSError (no space, no permission): what was done so far stays, a temporary
\* file and a run file cut short included.
Fail(p) ==
    /\ pc[p] \notin Ended
    /\ Goto(p, "error")
    /\ UNCHANGED <<key, content, earlier, blobs, temps, runFiles>>

\* The process dies, or is interrupted.
Crash(p) ==
    /\ pc[p] \notin Ended
    /\ Goto(p, "dead")
    /\ UNCHANGED <<key, content, earlier, blobs, temps, runFiles>>

Step(p) ==
    \/ CheckConflict(p) \/ WriteBlob(p) \/ Replace(p)
    \/ CheckExists(p) \/ Create(p) \/ Write(p) \/ Fail(p)

Finished == (\A p \in Puts : pc[p] \in Ended) /\ UNCHANGED vars

Next == (\E p \in Puts : Step(p) \/ Crash(p)) \/ Finished

Spec == Init /\ [][Next]_vars

-----------------------------------------------------------------------------
(* Properties.                                                             *)

\* A reference that was handed out can be read back, through open(), which goes to
\* the blob, and in the run directory: both are there, whatever other puts fail or
\* die.
RefIsReadable ==
    \A p \in Puts : At(p, "returned") => content[p] \in blobs /\ FileOf(p) # Missing

\* A put that has its run file to itself hands out a reference to a run file
\* that holds the payload, also when an earlier attempt left blobs behind.
RefIsComplete ==
    \A p \in Puts :
        /\ At(p, "returned")
        /\ \A q \in Puts \ {p} : key[q] # key[p]
        => Same(p)

\* Evidence is never rewritten: a run file changes only from missing to begun
\* by one put, and from begun to that put's content; blobs only come.
EvidenceIsImmutable ==
    [][/\ blobs \subseteq blobs'
       /\ \A k \in Keys : runFiles'[k] # runFiles[k] =>
             \/ runFiles[k] = Missing /\ \E p \in Puts : runFiles'[k] = Begun(p)
             \/ \E p \in Puts : runFiles[k] = Begun(p)
                   /\ runFiles'[k] = Whole(content[p])]_vars

\* A put that starts when a put for the same run file has returned, and left its
\* own content there, returns a reference only if its content is the same.
ReuseIsRefused ==
    \A p \in Puts : At(p, "returned") =>
        \A q \in earlier[p] :
            At(q, "returned") /\ key[q] = key[p] /\ Same(q) => Same(p)

\* What the caller of p has, as PutContract tells it.
Answered(p) ==
    CASE pc[p] = "conflict"           -> "none"
      [] pc[p] = "returned"           -> "reference"
      [] pc[p] \in {"error", "dead"}  -> "failed"
      [] OTHER                        -> "working"

\* The run file as it will stay: one that is being written is not there yet, one
\* that was left in the middle is torn.
Settled(k) ==
    IF runFiles[k].state # "partial" THEN runFiles[k]
    ELSE IF \E p \in Puts : At(p, "write") /\ runFiles[k] = Begun(p) THEN Missing
    ELSE [state |-> "torn"]

Contract == INSTANCE PutContract WITH
    answer <- [p \in Puts |-> Answered(p)],
    before <- earlier,
    file   <- [k \in Keys |-> Settled(k)]

\* Whatever fails or dies, puts answer and leave files only as PutContract allows.
KeepsContract == Contract!ContractSpec
=============================================================================
