---------------------------- MODULE PutContract ----------------------------
(***************************************************************************)
(* What FilesystemArtifactStore.put promises, told by its answers and by   *)
(* what open() and a reader of the run directory find.  A run file comes   *)
(* into being at once, whole or torn, and is never touched again; blobs    *)
(* only come.  A reference is answered when the blob is there and the run  *)
(* file holds the payload, with one exception: while another put for the   *)
(* same run file is at work, its file may be taken for one's own.  A put   *)
(* that finds other content in its run file is refused.                    *)
(*                                                                         *)
(* ArtifactStore implements it.                                            *)
(***************************************************************************)
CONSTANTS Puts, Keys, Contents

VARIABLES
    key,        \* key[p], content[p]: the payload
    content,
    answer,     \* what the caller of p has
    before,     \* before[p]: the puts that had their answer when p began
    blobs,
    file        \* file[k]: the run file as it will stay

store == <<key, content, answer, before, blobs, file>>

-----------------------------------------------------------------------------
\* failed: an exception, or nobody is left to have the answer.
Answers == {"none", "working", "reference", "failed"}
Final   == {"reference", "failed"}

Missing  == [state |-> "missing"]
Torn     == [state |-> "torn"]
Holds(c) == [state |-> "whole", content |-> c]

ContractInit ==
    /\ key \in [Puts -> Keys]
    /\ content \in [Puts -> Contents]
    /\ answer = [p \in Puts |-> "none"]
    /\ before = [p \in Puts |-> {}]
    /\ blobs = {}
    /\ file = [k \in Keys |-> Missing]

Mine(p) == file[key[p]] = Holds(content[p])

\* q is at work on p's run file at a time when p is.
Overlaps(q, p) ==
    q # p /\ key[q] = key[p] /\ answer[q] # "none" /\ q \notin before[p]

\* A run file with other content, and a torn one, refuse the put.
Begin(p) ==
    /\ answer[p] = "none"
    /\ \/ /\ file[key[p]] = Missing \/ Mine(p)
          /\ answer' = [answer EXCEPT ![p] = "working"]
       \/ answer' = [answer EXCEPT ![p] = "failed"]
    /\ before' = [before EXCEPT ![p] = {q \in Puts : answer[q] \in Final}]
    /\ UNCHANGED <<blobs, file>>

KeepBlob(p) ==
    /\ answer[p] = "working"
    /\ blobs' = blobs \cup {content[p]}
    /\ UNCHANGED <<answer, before, file>>

Store(p) ==
    /\ answer[p] = "working" /\ content[p] \in blobs
    /\ file[key[p]] = Missing
    /\ file' = [file EXCEPT ![key[p]] = Holds(content[p])]
    /\ answer' = [answer EXCEPT ![p] = "reference"]
    /\ UNCHANGED <<before, blobs>>

\* The run file is there already.
Reuse(p) ==
    /\ answer[p] = "working" /\ content[p] \in blobs
    /\ Mine(p) \/ \E q \in Puts : Overlaps(q, p)
    /\ answer' = [answer EXCEPT ![p] = "reference"]
    /\ UNCHANGED <<before, blobs, file>>

\* Nothing is taken back, and the run file may be left cut short.
Fail(p) ==
    /\ answer[p] \in {"none", "working"}
    /\ answer' = [answer EXCEPT ![p] = "failed"]
    /\ \/ file' = file
       \/ /\ answer[p] = "working" /\ file[key[p]] = Missing
          /\ file' = [file EXCEPT ![key[p]] = Torn]
    /\ UNCHANGED <<before, blobs>>

ContractNext ==
    /\ UNCHANGED <<key, content>>
    /\ \E p \in Puts :
          Begin(p) \/ KeepBlob(p) \/ Store(p) \/ Reuse(p) \/ Fail(p)

ContractSpec == ContractInit /\ [][ContractNext]_store
=============================================================================
