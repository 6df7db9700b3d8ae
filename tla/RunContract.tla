---------------------------- MODULE RunContract ----------------------------
(***************************************************************************)
(* What a run promises whoever reads its row in SQLite and its manifest on *)
(* disk, and nothing of how it gets there.  A run is opened.  At most once *)
(* it publishes a verdict, in the manifest that closes its files.  It is   *)
(* closed at most once: with the verdict it published or, when its files   *)
(* could not be written, with an environment failure that has no evidence. *)
(* Or it is abandoned and its row says "running" for ever.                 *)
(*                                                                         *)
(* RunLifecycle implements it; Comparison builds on it.                    *)
(***************************************************************************)
EXTENDS Outcome

CONSTANT Runs

VARIABLES
    stage,      \* what the row's status says of the run
    manifest,   \* the verdict in the manifest, or NoVerdict
    record      \* the verdict in the closed row, or NoRecord

contract == <<stage, manifest, record>>

-----------------------------------------------------------------------------
Stages == {"none", "open", "closed", "abandoned"}

\* A worktree that was not cleaned up makes an environment failure.
Verdicts ==
    {v \in [classification: Classifications, cleanup: BOOLEAN, reproducible: BOOLEAN] :
        ~v.cleanup => v.classification = "environment"}

NoVerdict == [classification |-> None, cleanup |-> FALSE, reproducible |-> FALSE]

\* The row of a run: its verdict, and whether it references files.
Record(v, evidence) ==
    [classification |-> v.classification, cleanup |-> v.cleanup,
     reproducible |-> v.reproducible, evidence |-> evidence]

Records == {Record(v, e) : v \in Verdicts, e \in BOOLEAN}

NoRecord == Record(NoVerdict, FALSE)

ContractTypeOK ==
    /\ stage \in [Runs -> Stages]
    /\ manifest \in [Runs -> Verdicts \cup {NoVerdict}]
    /\ record \in [Runs -> Records \cup {NoRecord}]

ContractInit ==
    /\ stage = [r \in Runs |-> "none"]
    /\ manifest = [r \in Runs |-> NoVerdict]
    /\ record = [r \in Runs |-> NoRecord]

\* create_run
Open(r) ==
    /\ stage[r] = "none"
    /\ stage' = [stage EXCEPT ![r] = "open"]
    /\ UNCHANGED <<manifest, record>>

\* The last put of _persist_artifacts.
Publish(r) ==
    /\ stage[r] = "open" /\ manifest[r] = NoVerdict
    /\ \E v \in Verdicts : manifest' = [manifest EXCEPT ![r] = v]
    /\ UNCHANGED <<stage, record>>

\* complete_run.
Close(r) ==
    /\ stage[r] = "open"
    /\ stage' = [stage EXCEPT ![r] = "closed"]
    /\ \E v \in Verdicts :
          /\ record' = [record EXCEPT ![r] = Record(v, manifest[r] # NoVerdict)]
          /\ IF manifest[r] = NoVerdict
               THEN v.classification = "environment" ELSE v = manifest[r]
    /\ UNCHANGED manifest

\* The process was interrupted or died, or complete_run raised.
Abandon(r) ==
    /\ stage[r] = "open"
    /\ stage' = [stage EXCEPT ![r] = "abandoned"]
    /\ UNCHANGED <<manifest, record>>

ContractNext == \E r \in Runs : Open(r) \/ Publish(r) \/ Close(r) \/ Abandon(r)

ContractSpec == ContractInit /\ [][ContractNext]_contract
=============================================================================
