------------------------------ MODULE Startup ------------------------------
(***************************************************************************)
(* What a call of LabService has to get past before its run is opened:     *)
(* the generated fixture repository, the benchmark's files, the fixture's  *)
(* revision, the database schema and the benchmark's record.  All of it is *)
(* shared with every other call on the machine, none of it is locked, and  *)
(* a call may fail or die in the middle of any of it.                      *)
(*                                                                         *)
(* A version stands for the content of a benchmark's files: the release's  *)
(* hash covers the task's, the task's that of its protected files, and the *)
(* task pins the fixture's revision.  All versions carry the same key, as  *)
(* when a released file is edited in place.                                *)
(***************************************************************************)
EXTENDS Naturals

CONSTANTS
    Calls,           \* calls of run, each of which opens at most one run
    Versions, First, \* the contents of the benchmark's files, and today's
    Revision,        \* the fixture revision a version pins
    MaxChanges       \* bound: how often someone changes what calls rely on

None == "none"

ASSUME StartupAssumption ==
    /\ First \in Versions /\ None \notin Versions
    /\ MaxChanges \in Nat

VARIABLES
    pc,        \* where the call is
    files,     \* the version of the benchmark's files in the checkout
    fixture,   \* the fixture repository
    schema,    \* the database's tables
    recorded,  \* the version under the benchmark's key, or None
    content,   \* the call's benchmark
    seen,      \* what the call has read of the database, to act on
    changes,
    troubled   \* a call has died, a command failed, or something was changed

startup == <<pc, files, fixture, schema, recorded, content, seen, changes, troubled>>

-----------------------------------------------------------------------------
\* absent; a copy of the template; git init under way; no commit yet; committed.
FixtureStates == {"absent", "copied", "initialising", "unborn", "ready"}

\* No table; migration 0001 done; 0002 begun, its first table made; all done.
Schemas == {"none", "first", "partial", "head"}

Building  == {"init", "initialising", "commit"}
Upgrading == {"upgrade_ends"}

\* Where a call is until its provenance is taken.
StartupPlaces ==
    {"idle", "ensure", "copy", "load", "validate", "migrate", "upgrade_first",
     "upgrade", "record", "insert"} \cup Building \cup Upgrading

StartupTypeOK ==
    /\ files \in Versions
    /\ fixture \in [state: FixtureStates,
                    revision: {Revision[v] : v \in Versions} \cup {None}]
    /\ schema \in Schemas
    /\ recorded \in Versions \cup {None}
    /\ content \in [Calls -> Versions \cup {None}]
    /\ seen \in [Calls -> Schemas]
    /\ changes \in 0..MaxChanges
    /\ troubled \in BOOLEAN

\* A fresh clone: nothing under .lab.
StartupInit ==
    /\ pc = [c \in Calls |-> "idle"]
    /\ files = First
    /\ fixture = [state |-> "absent", revision |-> None]
    /\ schema = "none"
    /\ recorded = None
    /\ content = [c \in Calls |-> None]
    /\ seen = [c \in Calls |-> "none"]
    /\ changes = 0
    /\ troubled = FALSE

\* The call moves on, or raises: its other locals stay.
Goto(c, place) == pc' = [pc EXCEPT ![c] = place]

Leave(c, place) ==
    /\ Goto(c, place)
    /\ UNCHANGED <<files, fixture, schema, recorded, content, seen, changes, troubled>>

-----------------------------------------------------------------------------
(* ensure_fixture_repository.                                              *)

Ensure(c) ==
    /\ pc[c] = "ensure"
    /\ CASE fixture.state = "absent" -> Leave(c, "copy")
         [] fixture.state = "ready"  -> Leave(c, "load")
         \* A repository without a commit is dirty, a directory without .git is none.
         [] fixture.state \in {"copied", "unborn"} -> Leave(c, "raised")
         \* A .git that is not one yet: git answers for the checkout around it, which
         \* is clean or dirty.
         [] fixture.state = "initialising" -> Leave(c, "load") \/ Leave(c, "raised")

\* Mutants: dirs_exist_ok; a commit without fixed dates, which nobody has pinned.
CopyTreeInto(c) ==
    /\ pc[c] = "copy"
    /\ fixture' = [state |-> "copied", revision |-> Revision[files]]
    /\ Goto(c, "init")
    /\ UNCHANGED <<files, schema, recorded, content, seen, changes, troubled>>

CopyTreeUndated(c) ==
    /\ pc[c] = "copy" /\ fixture.state = "absent"
    /\ fixture' = [state |-> "copied", revision |-> None]
    /\ Goto(c, "init")
    /\ UNCHANGED <<files, schema, recorded, content, seen, changes, troubled>>

\* copytree makes the directory, and for one call only.
CopyTree(c) ==
    /\ pc[c] = "copy"
    /\ IF fixture.state = "absent"
         THEN /\ fixture' = [state |-> "copied", revision |-> Revision[files]]
              /\ Goto(c, "init")
              /\ UNCHANGED <<files, schema, recorded, content, seen, changes, troubled>>
         ELSE Leave(c, "raised")

\* git init, in two steps, and git add with git commit.
Build(c, at, state, next) ==
    /\ pc[c] = at
    /\ fixture' = [fixture EXCEPT !.state = state]
    /\ Goto(c, next)
    /\ UNCHANGED <<files, schema, recorded, content, seen, changes, troubled>>

BuildFixture(c) ==
    \/ Build(c, "init", "initialising", "initialising")
    \/ Build(c, "initialising", "unborn", "commit")
    \/ Build(c, "commit", "ready", "load")

-----------------------------------------------------------------------------
(* load_benchmark and validate_fixture_revisions.                          *)

LoadBenchmark(c) ==
    /\ pc[c] = "load"
    /\ content' = [content EXCEPT ![c] = files]
    /\ Goto(c, "validate")
    /\ UNCHANGED <<files, fixture, schema, recorded, seen, changes, troubled>>

\* rev-parse HEAD of a repository that is none, or has no commit, is not what the
\* task pins: it fails or is the HEAD of the checkout around it.
ValidateFixtures(c) ==
    /\ pc[c] = "validate"
    /\ IF fixture.state = "ready" /\ fixture.revision = Revision[content[c]]
         THEN Leave(c, "migrate") ELSE Leave(c, "raised")

-----------------------------------------------------------------------------
(* migrate: the revision is read, then the scripts after it run.  SQLite   *)
(* commits each statement of a script on its own.                          *)

\* A database in the middle of migration 0002 still says 0001.
ReadRevision(c) ==
    /\ pc[c] = "migrate"
    /\ seen' = [seen EXCEPT ![c] = IF schema = "partial" THEN "first" ELSE schema]
    /\ Goto(c, CASE seen'[c] = "none"  -> "upgrade_first"
                 [] seen'[c] = "first" -> "upgrade"
                 [] seen'[c] = "head"  -> "record")
    /\ UNCHANGED <<files, fixture, schema, recorded, content, changes, troubled>>

Upgrade(c, at, from, to, next) ==
    /\ pc[c] = at
    /\ IF schema = from
         THEN /\ schema' = to
              /\ Goto(c, next)
              /\ UNCHANGED <<files, fixture, recorded, content, seen, changes, troubled>>
         ELSE Leave(c, "raised")

\* 0001 creates what is not there; two calls that do it at once differ when they
\* insert the version.  0002 starts with a table that must not be there.
Migrate(c) ==
    \/ Upgrade(c, "upgrade_first", "none", "first", "upgrade")
    \/ Upgrade(c, "upgrade", "first", "partial", "upgrade_ends")
    \/ Upgrade(c, "upgrade_ends", "partial", "head", "record")

-----------------------------------------------------------------------------
(* record_benchmark.                                                       *)

RecordLook(c) ==
    /\ pc[c] = "record"
    /\ Leave(c, CASE recorded = None       -> "insert"
                  [] recorded = content[c] -> "provenance"
                  [] OTHER                 -> "raised")

\* Mutants: INSERT OR REPLACE; a refused insert is tried again, or looked at again.
RecordReplace(c) ==
    /\ pc[c] = "insert"
    /\ recorded' = content[c]
    /\ Goto(c, "provenance")
    /\ UNCHANGED <<files, fixture, schema, content, seen, changes, troubled>>

RecordRetry(c) ==
    /\ pc[c] = "insert"
    /\ IF recorded = None THEN RecordReplace(c) ELSE Leave(c, "insert")

RecordLookAgain(c) ==
    /\ pc[c] = "insert"
    /\ IF recorded = None THEN RecordReplace(c) ELSE Leave(c, "record")

\* The primary key lets one call insert.
RecordInsert(c) ==
    /\ pc[c] = "insert"
    /\ IF recorded = None
         THEN /\ recorded' = content[c]
              /\ Goto(c, "provenance")
              /\ UNCHANGED <<files, fixture, schema, content, seen, changes, troubled>>
         ELSE Leave(c, "raised")

-----------------------------------------------------------------------------
\* validate_benchmark, migrate and record_benchmark, in the order of _run_resolved.
StartupStep(c) ==
    \/ Ensure(c) \/ CopyTree(c) \/ BuildFixture(c)
    \/ LoadBenchmark(c) \/ ValidateFixtures(c)
    \/ ReadRevision(c) \/ Migrate(c)
    \/ RecordLook(c) \/ RecordInsert(c)

\* A command or a statement fails, or the process dies: what is done stays done.
Break(c) ==
    /\ pc[c] \in StartupPlaces \ {"idle"}
    /\ \E place \in {"raised", "dead"} : Goto(c, place)
    /\ troubled' = TRUE
    /\ UNCHANGED <<files, fixture, schema, recorded, content, seen, changes>>

\* Someone edits the benchmark's files, or checks out others.
EditFiles ==
    /\ changes < MaxChanges
    /\ \E v \in Versions \ {files} : files' = v
    /\ changes' = changes + 1
    /\ troubled' = TRUE
    /\ UNCHANGED <<pc, fixture, schema, recorded, content, seen>>

-----------------------------------------------------------------------------
(* Properties.                                                             *)

\* A fixture or a schema that is half made is some call's doing, one call's only,
\* and no other call works with it: it is the one that is at it, or one that died
\* or failed there; then `troubled` tells.
HalfMadeHasAnOwner ==
    LET builders  == {c \in Calls : pc[c] \in Building}
        upgraders == {c \in Calls : pc[c] \in Upgrading} IN
    /\ \A b, c \in builders : b = c
    /\ \A b, c \in upgraders : b = c
    /\ builders # {} => fixture.state \in {"copied", "initialising", "unborn"}
    /\ upgraders # {} => schema = "partial"
    /\ fixture.state \notin {"absent", "ready"} /\ builders = {} => troubled
    /\ schema = "partial" /\ upgraders = {} => troubled
=============================================================================
