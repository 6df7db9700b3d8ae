-------------------------- MODULE ComparisonProofs --------------------------
(***************************************************************************)
(* Startup and comparison for any number of calls at once, any number of   *)
(* versions, models and images, and any number of changes to them.         *)
(***************************************************************************)
EXTENDS Comparison, TLAPS

USE StartupAssumption, ComparisonAssumption DEF StartupAssumption, ComparisonAssumption

Started   == {"provenance", "open", "execute", "evaluate", "returned"}
Migrated  == {"record", "insert"} \cup Started
Validated == {"migrate", "upgrade_first", "upgrade", "upgrade_ends"} \cup Migrated
Loaded    == {"validate"} \cup Validated

\* The call is at one of the places, or has been there and has opened its run.
Reached(c, places) == pc[c] \in places \/ stage[c] # "none"

Leads(places) == \E c \in Calls : pc[c] \in places

\* One call builds the fixture, in step with it; nobody has left it unless troubled.
BuildInv ==
    /\ \A b, c \in Calls : pc[b] \in Building /\ pc[c] \in Building => b = c
    /\ \A c \in Calls :
          /\ pc[c] = "init"         => fixture.state = "copied"
          /\ pc[c] = "initialising" => fixture.state = "initialising"
          /\ pc[c] = "commit"       => fixture.state = "unborn"
    /\ fixture.state \notin {"absent", "ready"} /\ ~troubled => Leads(Building)

\* The same of the second migration, which comes after the fixture.
UpgradeInv ==
    /\ \A b, c \in Calls : pc[b] = "upgrade_ends" /\ pc[c] = "upgrade_ends" => b = c
    /\ \A c \in Calls : pc[c] = "upgrade_ends" => schema = "partial"
    /\ schema = "partial" /\ ~troubled => Leads({"upgrade_ends"})
    /\ schema # "none" => fixture.state = "ready"
    /\ recorded # None => schema = "head"

\* What a call has got past, it can rely on.
PinInv ==
    \A c \in Calls :
        /\ Reached(c, Loaded)    => content[c] \in Versions
        /\ Reached(c, Validated) => /\ fixture.state = "ready"
                                    /\ fixture.revision = Revision[content[c]]
        /\ Reached(c, Migrated)  => schema = "head"
        /\ Reached(c, Started)   => recorded = content[c]

\* While nothing is changed there is one version, and wherever the shared state
\* has got to, some call is at the place that takes it on.
LeadInv ==
    ~troubled =>
        /\ files = First /\ recorded \in {None, First}
        /\ \A c \in Calls : content[c] \in {None, First}
        /\ fixture.state # "absent" => fixture.revision = Revision[First]
        /\ fixture.state = "absent" => \A c \in Calls : pc[c] \in {"idle", "ensure", "copy"}
        /\ fixture.state = "ready" /\ schema = "none" =>
              Leads({"load", "validate", "migrate", "upgrade_first"})
        /\ schema = "first" => Leads({"upgrade"})
        /\ schema = "head" /\ recorded = None => Leads({"record", "insert"})
        /\ recorded # None => Leads(Started)

\* Where a call is with the run it has opened.
StageInv ==
    \A c \in Calls :
        /\ pc[c] \in StartupPlaces \cup {"provenance", "open"} => stage[c] = "none"
        /\ pc[c] \in {"execute", "evaluate"} => stage[c] = "open"
        /\ pc[c] = "returned" => stage[c] = "closed"

\* What a run has on record when it returns.
ResultInv ==
    \A c \in Calls :
        /\ pc[c] \in {"open", "execute", "evaluate", "returned"} => digest[c] \in Models
        /\ pc[c] = "returned" => /\ record[c] \in Run!Records
                                 /\ record[c].reproducible <=> sandbox[c] # None

\* The report was made of runs that had returned.
ReportInv ==
    report # NoReport =>
        /\ \A c \in Compared :
              pc[c] = "returned" /\ report.classification[c] = record[c].classification
        /\ report.comparable <=> Comparable

StartupInv == StartupTypeOK /\ BuildInv /\ UpgradeInv /\ PinInv /\ LeadInv
RunInv == StageInv /\ ResultInv /\ ReportInv

Inv == TypeOK /\ StartupInv /\ RunInv

-----------------------------------------------------------------------------
LEMMA InitInv == Init => Inv
<1> SUFFICES ASSUME Init PROVE Inv  OBVIOUS
<1> USE DEF Init, StartupInit
<1>1. StartupTypeOK
  <2>1. files \in Versions /\ recorded \in Versions \cup {None}  OBVIOUS
  <2>2. fixture \in [state: FixtureStates, revision: {Revision[v] : v \in Versions} \cup {None}]
    BY DEF FixtureStates
  <2>3. schema \in Schemas /\ content \in [Calls -> Versions \cup {None}]
    BY DEF Schemas
  <2>4. seen \in [Calls -> Schemas]  BY DEF Schemas
  <2>5. changes \in 0..MaxChanges  OBVIOUS
  <2>6. troubled \in BOOLEAN  OBVIOUS
  <2> QED  BY <2>1, <2>2, <2>3, <2>4, <2>5, <2>6 DEF StartupTypeOK
<1>2. Run!ContractTypeOK /\ \A c \in Calls : stage[c] = "none"
  BY DEF Run!ContractInit, Run!ContractTypeOK, Run!Stages
<1>3. TypeOK  BY <1>1, <1>2 DEF TypeOK, Places, StartupPlaces
<1>4. \A c \in Calls : pc[c] = "idle" /\ content[c] = None
  OBVIOUS
<1>5. BuildInv /\ UpgradeInv  BY <1>4 DEF BuildInv, UpgradeInv, Building
<1>6. PinInv
  BY <1>2, <1>4 DEF PinInv, Reached, Loaded, Validated, Migrated, Started
<1>7. LeadInv  BY <1>4 DEF LeadInv
<1>8. RunInv  BY <1>2, <1>4 DEF RunInv, StageInv, ResultInv, ReportInv, StartupPlaces
<1> QED  BY <1>1, <1>3, <1>5, <1>6, <1>7, <1>8 DEF Inv, StartupInv

-----------------------------------------------------------------------------
(* Steps of a call in the shared state.                                    *)

\* The call may go there without breaking anything the others, or its own later
\* places, rely on: it gives up no lead and claims no more than is true.
Allowed(c, to) ==
    /\ pc[c] \notin Building \cup Upgrading /\ to \notin Building \cup Upgrading
    /\ to \in Loaded    => content[c] \in Versions
    /\ to \in Validated => fixture.state = "ready" /\ fixture.revision = Revision[content[c]]
    /\ to \in Migrated  => schema = "head"
    /\ to \in Started   => recorded = content[c]
    /\ ~troubled =>
          /\ fixture.state = "absent" => to \in {"idle", "ensure", "copy"}
          /\ fixture.state = "ready" /\ schema = "none" =>
                (pc[c] \in {"load", "validate", "migrate", "upgrade_first"}
                   => to \in {"load", "validate", "migrate", "upgrade_first"})
          /\ schema = "first" => pc[c] # "upgrade"
          /\ schema = "head" /\ recorded = None =>
                (pc[c] \in {"record", "insert"} => to \in {"record", "insert"})
          /\ recorded # None => (pc[c] \in Started => to \in Started)

\* Only a call that has started opens a run.
RunsKept == \A d \in Calls : stage'[d] # "none" => pc[d] \in Started \/ stage[d] # "none"

\* A step that changes nothing shared.
LEMMA Goes ==
    ASSUME Inv, NEW c \in Calls, NEW to, Allowed(c, to), RunsKept,
           pc' = [pc EXCEPT ![c] = to], seen' \in [Calls -> Schemas],
           UNCHANGED <<files, fixture, schema, recorded, content, changes, troubled>>
    PROVE  StartupInv'
<1> USE DEF Inv, StartupInv
<1>1. \A d \in Calls : pc'[d] = IF d = c THEN to ELSE pc[d]  BY DEF TypeOK
<1>2. StartupTypeOK'  BY DEF StartupTypeOK
<1>3. BuildInv'
  <2>1. \A d \in Calls : pc'[d] \in Building <=> pc[d] \in Building
    BY <1>1 DEF Allowed
  <2>2. \A d \in Calls : pc'[d] \in Building => pc'[d] = pc[d]
    BY <1>1 DEF Allowed
  <2> QED  BY <2>1, <2>2 DEF BuildInv, Leads, Building
<1>4. UpgradeInv'
  <2>1. \A d \in Calls : pc'[d] = "upgrade_ends" <=> pc[d] = "upgrade_ends"
    BY <1>1 DEF Allowed, Upgrading
  <2> QED  BY <2>1 DEF UpgradeInv, Leads
<1>5. PinInv'
  BY <1>1 DEF PinInv, Reached, Allowed, RunsKept, Loaded, Validated, Migrated, Started
<1>6. LeadInv'
  <2> SUFFICES ASSUME ~troubled PROVE LeadInv'  BY DEF LeadInv
  <2>1. fixture.state = "absent" => \A d \in Calls : pc'[d] \in {"idle", "ensure", "copy"}
    BY <1>1 DEF LeadInv, Allowed
  <2>2. fixture.state = "ready" /\ schema = "none" =>
          Leads({"load", "validate", "migrate", "upgrade_first"})'
    BY <1>1 DEF LeadInv, Allowed, Leads
  <2>3. schema = "first" => Leads({"upgrade"})'
    BY <1>1 DEF LeadInv, Allowed, Leads
  <2>4. schema = "head" /\ recorded = None => Leads({"record", "insert"})'
    BY <1>1 DEF LeadInv, Allowed, Leads
  <2>5. recorded # None => Leads(Started)'
    BY <1>1 DEF LeadInv, Allowed, Leads, Started
  <2> QED  BY <2>1, <2>2, <2>3, <2>4, <2>5 DEF LeadInv
<1> QED  BY <1>2, <1>3, <1>4, <1>5, <1>6

\* A call makes the directory of the fixture.
LEMMA CopyTreeInv ==
    ASSUME Inv, NEW c \in Calls, CopyTree(c), fixture.state = "absent", UNCHANGED stage
    PROVE  StartupInv'
<1> USE DEF Inv, StartupInv
<1>1. /\ pc[c] = "copy" /\ pc' = [pc EXCEPT ![c] = "init"]
      /\ fixture' = [state |-> "copied", revision |-> Revision[files]]
      /\ UNCHANGED <<files, schema, recorded, content, seen, changes, troubled>>
  BY DEF CopyTree, Goto
<1>2. \A d \in Calls : pc'[d] = IF d = c THEN "init" ELSE pc[d]  BY <1>1 DEF TypeOK
<1>3. StartupTypeOK'
  <2>1. fixture' \in [state: FixtureStates, revision: {Revision[v] : v \in Versions} \cup {None}]
    BY <1>1 DEF StartupTypeOK, FixtureStates
  <2> QED  BY <1>1, <2>1 DEF StartupTypeOK
<1>4. \A d \in Calls : pc[d] \notin Building
  BY DEF BuildInv, Building
<1>5. BuildInv'
  BY <1>1, <1>2, <1>4 DEF BuildInv, Leads, Building
<1>6. schema = "none" /\ recorded = None
  BY DEF UpgradeInv
<1>7. UpgradeInv'
  BY <1>1, <1>2, <1>6 DEF UpgradeInv
<1>8. PinInv'
  BY <1>1, <1>2 DEF PinInv, Reached, Loaded, Validated, Migrated, Started
<1>9. LeadInv'  BY <1>1, <1>2, <1>6 DEF LeadInv
<1> QED  BY <1>3, <1>5, <1>7, <1>8, <1>9

\* The builder goes on building.
LEMMA BuildFixtureInv ==
    ASSUME Inv, NEW c \in Calls, BuildFixture(c), UNCHANGED stage PROVE StartupInv'
<1> USE DEF Inv, StartupInv
<1>1. PICK state \in {"initialising", "unborn", "ready"},
           to \in {"initialising", "commit", "load"} :
        /\ pc[c] \in Building /\ pc' = [pc EXCEPT ![c] = to]
        /\ fixture' = [fixture EXCEPT !.state = state]
        /\ <<state, to>> \in {<<"initialising", "initialising">>, <<"unborn", "commit">>,
                              <<"ready", "load">>}
        /\ UNCHANGED <<files, schema, recorded, content, seen, changes, troubled>>
  BY DEF BuildFixture, Build, Goto, Building
<1>2. \A d \in Calls : pc'[d] = IF d = c THEN to ELSE pc[d]  BY <1>1 DEF TypeOK
<1>3. /\ fixture'.state = state /\ fixture'.revision = fixture.revision
      /\ fixture' \in [state: FixtureStates, revision: {Revision[v] : v \in Versions} \cup {None}]
  BY <1>1 DEF StartupTypeOK, FixtureStates
<1>4. StartupTypeOK'  BY <1>1, <1>3 DEF StartupTypeOK
<1>5. fixture.state \notin {"absent", "ready"}
  BY <1>1 DEF BuildInv, Building
<1>6. \A d \in Calls \ {c} : pc[d] \notin Building
  BY <1>1 DEF BuildInv
<1>7. BuildInv'
  <2>1. \A d \in Calls \ {c} : pc'[d] \notin Building  BY <1>2, <1>6
  <2>2. /\ pc'[c] = "initialising" => fixture'.state = "initialising"
        /\ pc'[c] = "commit" => fixture'.state = "unborn"
        /\ pc'[c] # "init"
        /\ fixture'.state # "ready" => pc'[c] \in Building
    BY <1>1, <1>2, <1>3 DEF Building
  <2> QED  BY <2>1, <2>2 DEF BuildInv, Leads, Building
<1>8. schema = "none" /\ recorded = None  BY <1>5 DEF UpgradeInv
<1>9. UpgradeInv'  BY <1>1, <1>2, <1>8 DEF UpgradeInv
<1>10. PinInv'
  BY <1>1, <1>2, <1>5 DEF PinInv, Reached, Loaded, Validated, Migrated, Started, Building
<1>11. LeadInv'
  <2>1. fixture'.state = "ready" => Leads({"load", "validate", "migrate", "upgrade_first"})'
    BY <1>1, <1>2, <1>3 DEF Leads
  <2> QED  BY <1>1, <1>3, <1>5, <1>8, <2>1 DEF LeadInv
<1> QED  BY <1>4, <1>7, <1>9, <1>10, <1>11

\* The benchmark is read; while nothing is changed it is the first version.
LEMMA LoadBenchmarkInv ==
    ASSUME Inv, NEW c \in Calls, LoadBenchmark(c), UNCHANGED stage PROVE StartupInv'
<1> USE DEF Inv, StartupInv
<1>1. /\ pc[c] = "load" /\ pc' = [pc EXCEPT ![c] = "validate"]
      /\ content' = [content EXCEPT ![c] = files]
      /\ UNCHANGED <<files, fixture, schema, recorded, seen, changes, troubled>>
  BY DEF LoadBenchmark, Goto
<1>2. \A d \in Calls : /\ pc'[d] = IF d = c THEN "validate" ELSE pc[d]
                       /\ content'[d] = IF d = c THEN files ELSE content[d]
  BY <1>1 DEF TypeOK, StartupTypeOK
<1>3. StartupTypeOK'  BY <1>1 DEF StartupTypeOK
<1>4. BuildInv'
  <2>1. \A d \in Calls : /\ pc'[d] \in Building <=> pc[d] \in Building
                         /\ pc'[d] \in Building => pc'[d] = pc[d]
    BY <1>1, <1>2 DEF Building
  <2> QED  BY <1>1, <2>1 DEF BuildInv, Leads, Building
<1>5. UpgradeInv'
  <2>1. \A d \in Calls : pc'[d] = "upgrade_ends" <=> pc[d] = "upgrade_ends"
    BY <1>1, <1>2
  <2> QED  BY <1>1, <2>1 DEF UpgradeInv, Leads
<1>6. stage[c] = "none"  BY <1>1 DEF RunInv, StageInv, StartupPlaces
<1>7. PinInv'
  BY <1>1, <1>2, <1>6 DEF PinInv, Reached, Loaded, Validated, Migrated, Started, StartupTypeOK
<1>8. LeadInv'
  <2> SUFFICES ASSUME ~troubled PROVE LeadInv'  BY <1>1 DEF LeadInv
  <2>1. fixture.state # "absent"  BY <1>1 DEF LeadInv
  <2>2. \A d \in Calls : content'[d] \in {None, First}  BY <1>2 DEF LeadInv
  <2>3. fixture.state = "ready" /\ schema = "none" =>
          Leads({"load", "validate", "migrate", "upgrade_first"})'
    BY <1>2 DEF LeadInv, Leads
  <2>4. schema = "first" => Leads({"upgrade"})'
    BY <1>1, <1>2 DEF LeadInv, Leads
  <2>5. schema = "head" /\ recorded = None => Leads({"record", "insert"})'
    BY <1>1, <1>2 DEF LeadInv, Leads
  <2>6. recorded # None => Leads(Started)'
    BY <1>1, <1>2 DEF LeadInv, Leads, Started
  <2> QED  BY <1>1, <2>1, <2>2, <2>3, <2>4, <2>5, <2>6 DEF LeadInv
<1> QED  BY <1>3, <1>4, <1>5, <1>7, <1>8

\* A migration goes on where it is.
LEMMA MigrateInv ==
    ASSUME Inv, NEW c \in Calls, UNCHANGED stage,
           NEW at, NEW from, NEW to, NEW next,
           <<at, from, to, next>> \in
               {<<"upgrade_first", "none", "first", "upgrade">>,
                <<"upgrade", "first", "partial", "upgrade_ends">>,
                <<"upgrade_ends", "partial", "head", "record">>},
           Upgrade(c, at, from, to, next), schema = from
    PROVE  StartupInv'
<1> USE DEF Inv, StartupInv
<1>1. /\ pc[c] = at /\ pc' = [pc EXCEPT ![c] = next]
      /\ schema' = to
      /\ UNCHANGED <<files, fixture, recorded, content, seen, changes, troubled>>
  BY DEF Upgrade, Goto
<1>2. \A d \in Calls : pc'[d] = IF d = c THEN next ELSE pc[d]  BY <1>1 DEF TypeOK
<1>3. StartupTypeOK'
  <2>1. to \in Schemas  BY DEF Schemas
  <2> QED  BY <1>1, <2>1 DEF StartupTypeOK
<1>4. BuildInv'
  <2>1. \A d \in Calls : /\ pc'[d] \in Building <=> pc[d] \in Building
                         /\ pc'[d] \in Building => pc'[d] = pc[d]
    BY <1>1, <1>2 DEF Building
  <2> QED  BY <1>1, <2>1 DEF BuildInv, Leads, Building
<1>5. /\ fixture.state = "ready" /\ fixture.revision = Revision[content[c]]
      /\ content[c] \in Versions
  BY <1>1 DEF PinInv, Reached, Validated, Loaded
<1>6. recorded = None  BY <1>1 DEF UpgradeInv
<1>7. UpgradeInv'
  <2>1. CASE to = "partial"
    <3>1. \A d \in Calls : pc[d] # "upgrade_ends"  BY <1>1, <2>1 DEF UpgradeInv
    <3> QED  BY <1>1, <1>2, <1>5, <1>6, <2>1, <3>1 DEF UpgradeInv, Leads
  <2>2. CASE to # "partial"
    <3>1. \A d \in Calls : pc'[d] # "upgrade_ends"
      BY <1>1, <1>2, <2>2 DEF UpgradeInv
    <3> QED  BY <1>1, <1>5, <1>6, <2>2, <3>1 DEF UpgradeInv, Leads
  <2> QED  BY <2>1, <2>2
<1>8. \A d \in Calls : ~Reached(d, Migrated)
  BY <1>1 DEF PinInv
<1>9. PinInv'
  BY <1>1, <1>2, <1>5, <1>8 DEF PinInv, Reached, Loaded, Validated, Migrated, Started
<1>10. LeadInv'
  <2> SUFFICES ASSUME ~troubled PROVE LeadInv'  BY <1>1 DEF LeadInv
  <2>1. schema' = "first" => Leads({"upgrade"})'  BY <1>1, <1>2 DEF Leads
  <2>2. schema' = "head" => Leads({"record", "insert"})'  BY <1>1, <1>2 DEF Leads
  <2>3. schema' # "none"  BY <1>1
  <2> QED  BY <1>1, <1>5, <1>6, <2>1, <2>2, <2>3 DEF LeadInv
<1> QED  BY <1>3, <1>4, <1>7, <1>9, <1>10

\* The benchmark is recorded, for good.
LEMMA RecordInsertInv ==
    ASSUME Inv, NEW c \in Calls, RecordInsert(c), recorded = None, UNCHANGED stage
    PROVE  StartupInv'
<1> USE DEF Inv, StartupInv
<1>1. /\ pc[c] = "insert" /\ pc' = [pc EXCEPT ![c] = "provenance"]
      /\ recorded' = content[c]
      /\ UNCHANGED <<files, fixture, schema, content, seen, changes, troubled>>
  BY DEF RecordInsert, Goto
<1>2. \A d \in Calls : pc'[d] = IF d = c THEN "provenance" ELSE pc[d]  BY <1>1 DEF TypeOK
<1>3. /\ content[c] \in Versions /\ schema = "head"
      /\ fixture.state = "ready" /\ fixture.revision = Revision[content[c]]
  BY <1>1 DEF PinInv, Reached, Loaded, Validated, Migrated
<1>4. StartupTypeOK'  BY <1>1, <1>3 DEF StartupTypeOK
<1>5. BuildInv'
  <2>1. \A d \in Calls : /\ pc'[d] \in Building <=> pc[d] \in Building
                         /\ pc'[d] \in Building => pc'[d] = pc[d]
    BY <1>1, <1>2 DEF Building
  <2> QED  BY <1>1, <2>1 DEF BuildInv, Leads, Building
<1>6. UpgradeInv'
  <2>1. \A d \in Calls : pc'[d] = "upgrade_ends" <=> pc[d] = "upgrade_ends"
    BY <1>1, <1>2
  <2> QED  BY <1>1, <1>3, <2>1 DEF UpgradeInv, Leads
<1>7. \A d \in Calls : ~Reached(d, Started)
  <2>1. \A d \in Calls : Reached(d, Started) => content[d] \in Versions /\ content[d] = None
    BY DEF PinInv, Reached, Loaded, Validated, Migrated, Started
  <2> QED  BY <2>1
<1>8. PinInv'
  BY <1>1, <1>2, <1>3, <1>7 DEF PinInv, Reached, Loaded, Validated, Migrated, Started
<1>9. LeadInv'
  <2>1. Leads(Started)'  BY <1>2 DEF Leads, Started
  <2>2. recorded' # None  BY <1>1, <1>3
  <2> QED  BY <1>1, <1>3, <2>1, <2>2 DEF LeadInv
<1> QED  BY <1>4, <1>5, <1>6, <1>8, <1>9

\* Something breaks or is changed: no lead is claimed any more.
LEMMA TroubleInv ==
    ASSUME Inv, troubled' = TRUE, files' \in Versions, changes' \in 0..MaxChanges, RunsKept,
           UNCHANGED <<fixture, schema, recorded, content, seen>>,
           \/ pc' = pc
           \/ \E c \in Calls, to \in {"raised", "dead"} : pc' = [pc EXCEPT ![c] = to]
    PROVE  StartupInv'
<1> USE DEF Inv, StartupInv
<1>1. \A d \in Calls : pc'[d] = pc[d] \/ pc'[d] \in {"raised", "dead"}  BY DEF TypeOK
<1>2. StartupTypeOK'  BY DEF StartupTypeOK
<1>3. BuildInv'  BY <1>1 DEF BuildInv, Building
<1>4. UpgradeInv'  BY <1>1 DEF UpgradeInv
<1>5. PinInv'
  BY <1>1 DEF PinInv, Reached, RunsKept, Loaded, Validated, Migrated, Started
<1>6. LeadInv'  BY DEF LeadInv
<1> QED  BY <1>2, <1>3, <1>4, <1>5, <1>6

\* A call of startup: those that find what they look for go on, the others raise,
\* and while nothing is troubled they raise behind one that goes on.
LEMMA StartupStepInv ==
    ASSUME Inv, NEW c \in Calls, StartupStep(c), UNCHANGED stage PROVE StartupInv'
<1> USE DEF Inv, StartupInv
<1>0. RunsKept  BY DEF RunsKept
<1>1. ASSUME NEW to, Leave(c, to), Allowed(c, to) PROVE StartupInv'
  <2>1. /\ pc' = [pc EXCEPT ![c] = to] /\ seen' \in [Calls -> Schemas]
        /\ UNCHANGED <<files, fixture, schema, recorded, content, changes, troubled>>
    BY <1>1 DEF Leave, Goto, StartupTypeOK
  <2> QED  BY <1>0, <1>1, <2>1, Goes
<1>2. CASE Ensure(c)
  <2>1. PICK to \in {"copy", "load", "raised"} :
          /\ pc[c] = "ensure" /\ Leave(c, to)
          /\ to = "copy" <=> fixture.state = "absent"
    <3>1. fixture.state \in FixtureStates  BY DEF StartupTypeOK
    <3>2. CASE fixture.state = "absent"  BY <1>2, <3>2 DEF Ensure
    <3>3. CASE fixture.state = "ready"  BY <1>2, <3>3 DEF Ensure
    <3>4. CASE fixture.state \in {"copied", "unborn"}  BY <1>2, <3>4 DEF Ensure
    <3>5. CASE fixture.state = "initialising"  BY <1>2, <3>5 DEF Ensure
    <3> QED  BY <3>1, <3>2, <3>3, <3>4, <3>5 DEF FixtureStates
  <2>2. Allowed(c, to)
    BY <2>1 DEF Allowed, Building, Upgrading, Loaded, Validated, Migrated, Started
  <2> QED  BY <1>1, <2>1, <2>2
<1>3. CASE CopyTree(c)
  <2>1. CASE fixture.state = "absent"  BY <1>3, <2>1, CopyTreeInv
  <2>2. CASE fixture.state # "absent"
    <3>1. pc[c] = "copy" /\ Leave(c, "raised")  BY <1>3, <2>2 DEF CopyTree
    <3>2. Allowed(c, "raised")
      BY <2>2, <3>1 DEF Allowed, Building, Upgrading, Loaded, Validated, Migrated, Started
    <3> QED  BY <1>1, <3>1, <3>2
  <2> QED  BY <2>1, <2>2
<1>4. CASE BuildFixture(c)  BY <1>4, BuildFixtureInv
<1>5. CASE LoadBenchmark(c)  BY <1>5, LoadBenchmarkInv
<1>6. CASE ValidateFixtures(c)
  <2>1. PICK to \in {"migrate", "raised"} :
          /\ pc[c] = "validate" /\ Leave(c, to)
          /\ to = "migrate" <=>
                fixture.state = "ready" /\ fixture.revision = Revision[content[c]]
    BY <1>6 DEF ValidateFixtures
  <2>2. content[c] \in Versions  BY <2>1 DEF PinInv, Reached, Loaded
  <2>3. ~troubled /\ fixture.state = "ready" => to = "migrate"
    BY <2>1, <2>2 DEF LeadInv
  <2>4. ~troubled => fixture.state # "absent"
    BY <2>1 DEF LeadInv
  <2>5. Allowed(c, to)
    BY <2>1, <2>2, <2>3, <2>4
       DEF Allowed, Building, Upgrading, Loaded, Validated, Migrated, Started
  <2> QED  BY <1>1, <2>1, <2>5
<1>7. CASE ReadRevision(c)
  <2>1. PICK to \in {"upgrade_first", "upgrade", "record"} :
          /\ pc[c] = "migrate" /\ pc' = [pc EXCEPT ![c] = to]
          /\ to = "record" => schema = "head"
          /\ schema = "none" => to = "upgrade_first"
          /\ seen' \in [Calls -> Schemas]
          /\ UNCHANGED <<files, fixture, schema, recorded, content, changes, troubled>>
    <3>1. /\ pc[c] = "migrate"
          /\ seen' = [seen EXCEPT ![c] = IF schema = "partial" THEN "first" ELSE schema]
          /\ pc' = [pc EXCEPT ![c] = CASE seen'[c] = "none"  -> "upgrade_first"
                                       [] seen'[c] = "first" -> "upgrade"
                                       [] seen'[c] = "head"  -> "record"]
          /\ UNCHANGED <<files, fixture, schema, recorded, content, changes, troubled>>
      BY <1>7 DEF ReadRevision, Goto
    <3>2. seen' \in [Calls -> Schemas]
          /\ seen'[c] = IF schema = "partial" THEN "first" ELSE schema
      BY <3>1 DEF StartupTypeOK, Schemas
    <3>3. CASE seen'[c] = "none"  BY <3>1, <3>2, <3>3
    <3>4. CASE seen'[c] = "first"  BY <3>1, <3>2, <3>4
    <3>5. CASE seen'[c] = "head"  BY <3>1, <3>2, <3>5
    <3> QED  BY <3>2, <3>3, <3>4, <3>5 DEF StartupTypeOK, Schemas
  <2>2. /\ content[c] \in Versions /\ fixture.state = "ready"
        /\ fixture.revision = Revision[content[c]]
    BY <2>1 DEF PinInv, Reached, Validated, Loaded
  <2>3. Allowed(c, to)
    BY <2>1, <2>2 DEF Allowed, Building, Upgrading, Loaded, Validated, Migrated, Started
  <2> QED  BY <1>0, <2>1, <2>3, Goes
<1>8. CASE Migrate(c)
  <2>1. PICK at, from, to, next :
          /\ <<at, from, to, next>> \in
                {<<"upgrade_first", "none", "first", "upgrade">>,
                 <<"upgrade", "first", "partial", "upgrade_ends">>,
                 <<"upgrade_ends", "partial", "head", "record">>}
          /\ Upgrade(c, at, from, to, next)
    BY <1>8 DEF Migrate
  <2>2. CASE schema = from  BY <2>1, <2>2, MigrateInv
  <2>3. CASE schema # from
    <3>1. pc[c] = at /\ Leave(c, "raised")  BY <2>1, <2>3 DEF Upgrade
    <3>2. at # "upgrade_ends"  BY <2>1, <2>3, <3>1 DEF UpgradeInv
    <3>3. fixture.state = "ready"
      BY <2>1, <3>1 DEF PinInv, Reached, Validated
    <3>4. Allowed(c, "raised")
      BY <2>1, <2>3, <3>1, <3>2, <3>3
         DEF Allowed, Building, Upgrading, Loaded, Validated, Migrated, Started
    <3> QED  BY <1>1, <3>1, <3>4
  <2> QED  BY <2>2, <2>3
<1>9. CASE RecordLook(c)
  <2>1. PICK to \in {"insert", "provenance", "raised"} :
          /\ pc[c] = "record" /\ Leave(c, to)
          /\ to = "insert" <=> recorded = None
          /\ to = "provenance" => recorded = content[c]
    <3>1. pc[c] = "record"  BY <1>9 DEF RecordLook
    <3>2. content[c] # None
      BY <3>1 DEF PinInv, Reached, Migrated, Validated, Loaded
    <3>3. CASE recorded = None  BY <1>9, <3>2, <3>3 DEF RecordLook
    <3>4. CASE recorded = content[c]  BY <1>9, <3>2, <3>4 DEF RecordLook
    <3>5. CASE recorded \notin {None, content[c]}  BY <1>9, <3>5 DEF RecordLook
    <3> QED  BY <3>3, <3>4, <3>5
  <2>2. /\ content[c] \in Versions /\ fixture.state = "ready" /\ schema = "head"
        /\ fixture.revision = Revision[content[c]]
    BY <2>1 DEF PinInv, Reached, Migrated, Validated, Loaded
  <2>3. Allowed(c, to)
    BY <2>1, <2>2 DEF Allowed, Building, Upgrading, Loaded, Validated, Migrated, Started
  <2> QED  BY <1>1, <2>1, <2>3
<1>10. CASE RecordInsert(c)
  <2>1. CASE recorded = None  BY <1>10, <2>1, RecordInsertInv
  <2>2. CASE recorded # None
    <3>1. pc[c] = "insert" /\ Leave(c, "raised")  BY <1>10, <2>2 DEF RecordInsert
    <3>2. fixture.state = "ready"
      BY <3>1 DEF PinInv, Reached, Validated, Migrated
    <3>3. Allowed(c, "raised")
      BY <2>2, <3>1, <3>2
         DEF Allowed, Building, Upgrading, Loaded, Validated, Migrated, Started
    <3> QED  BY <1>1, <3>1, <3>3
  <2> QED  BY <2>1, <2>2
<1> QED
  BY <1>2, <1>3, <1>4, <1>5, <1>6, <1>7, <1>8, <1>9, <1>10 DEF StartupStep

-----------------------------------------------------------------------------
(* Runs and the report.                                                    *)

Rest == <<runs, model, image, digest, sandbox, report>>

\* Where startup goes on, if it does not raise.
Ways == {<<"ensure", "copy">>, <<"ensure", "load">>, <<"copy", "init">>,
         <<"init", "initialising">>, <<"initialising", "commit">>, <<"commit", "load">>,
         <<"load", "validate">>, <<"validate", "migrate">>, <<"migrate", "upgrade_first">>,
         <<"migrate", "upgrade">>, <<"migrate", "record">>, <<"upgrade_first", "upgrade">>,
         <<"upgrade", "upgrade_ends">>, <<"upgrade_ends", "record">>,
         <<"record", "insert">>, <<"record", "provenance">>, <<"insert", "provenance">>}

\* A step of startup moves one call, from a place where it has no run to a later one.
LEMMA StartupShape ==
    ASSUME Inv, NEW c \in Calls, StartupStep(c)
    PROVE  \E to \in StartupPlaces \cup {"provenance", "raised"} :
              /\ pc[c] \in StartupPlaces \ {"idle"} /\ pc' = [pc EXCEPT ![c] = to]
              /\ to = "raised" \/ <<pc[c], to>> \in Ways
              /\ \A d \in Calls \ {c} : content'[d] = content[d]
<1> USE DEF Ways
<1>1. \A to : Leave(c, to) => /\ pc' = [pc EXCEPT ![c] = to]
                              /\ \A d \in Calls \ {c} : content'[d] = content[d]
  BY DEF Leave, Goto
<1>2. CASE Ensure(c)
  <2>1. fixture.state \in FixtureStates  BY DEF Inv, TypeOK, StartupTypeOK
  <2>2. /\ pc[c] = "ensure"
        /\ Leave(c, "copy") \/ Leave(c, "load") \/ Leave(c, "raised")
    <3>1. CASE fixture.state = "absent"  BY <1>2, <3>1 DEF Ensure
    <3>2. CASE fixture.state = "ready"  BY <1>2, <3>2 DEF Ensure
    <3>3. CASE fixture.state \in {"copied", "unborn"}  BY <1>2, <3>3 DEF Ensure
    <3>4. CASE fixture.state = "initialising"  BY <1>2, <3>4 DEF Ensure
    <3> QED  BY <2>1, <3>1, <3>2, <3>3, <3>4 DEF FixtureStates
  <2> QED  BY <1>1, <2>2 DEF StartupPlaces
<1>3. CASE CopyTree(c)
  BY <1>1, <1>3 DEF CopyTree, Goto, StartupPlaces, Building
<1>4. CASE BuildFixture(c)
  BY <1>4 DEF BuildFixture, Build, Goto, StartupPlaces, Building
<1>5. CASE LoadBenchmark(c)
  BY <1>5 DEF LoadBenchmark, Goto, StartupPlaces, Inv, TypeOK, StartupTypeOK
<1>6. CASE ValidateFixtures(c)
  BY <1>1, <1>6 DEF ValidateFixtures, StartupPlaces
<1>7. CASE ReadRevision(c)
  <2>1. /\ pc[c] = "migrate" /\ content' = content
        /\ seen' = [seen EXCEPT ![c] = IF schema = "partial" THEN "first" ELSE schema]
        /\ pc' = [pc EXCEPT ![c] = CASE seen'[c] = "none"  -> "upgrade_first"
                                     [] seen'[c] = "first" -> "upgrade"
                                     [] seen'[c] = "head"  -> "record"]
    BY <1>7 DEF ReadRevision, Goto
  <2>2. seen'[c] \in {"none", "first", "head"}
    BY <2>1 DEF Inv, TypeOK, StartupTypeOK, Schemas
  <2>3. PICK to \in {"upgrade_first", "upgrade", "record"} : pc' = [pc EXCEPT ![c] = to]
    <3>1. CASE seen'[c] = "none"  BY <2>1, <3>1
    <3>2. CASE seen'[c] = "first"  BY <2>1, <3>2
    <3>3. CASE seen'[c] = "head"  BY <2>1, <3>3
    <3> QED  BY <2>2, <3>1, <3>2, <3>3
  <2> QED  BY <2>1, <2>3 DEF StartupPlaces
<1>8. CASE Migrate(c)
  BY <1>1, <1>8 DEF Migrate, Upgrade, Goto, StartupPlaces, Upgrading
<1>9. CASE RecordLook(c)
  <2>1. pc[c] = "record"
        /\ (Leave(c, "insert") \/ Leave(c, "provenance") \/ Leave(c, "raised"))
    <3>1. CASE recorded = None /\ content[c] = None
      BY <1>9, <3>1 DEF RecordLook, Inv, StartupInv, PinInv, Reached, Loaded, Validated, Migrated
    <3>2. CASE recorded = None /\ content[c] # None  BY <1>9, <3>2 DEF RecordLook
    <3>3. CASE recorded # None /\ recorded = content[c]  BY <1>9, <3>3 DEF RecordLook
    <3>4. CASE recorded # None /\ recorded # content[c]  BY <1>9, <3>4 DEF RecordLook
    <3> QED  BY <3>1, <3>2, <3>3, <3>4
  <2> QED  BY <1>1, <2>1 DEF StartupPlaces
<1>10. CASE RecordInsert(c)
  BY <1>1, <1>10 DEF RecordInsert, Goto, StartupPlaces
<1> QED
  BY <1>2, <1>3, <1>4, <1>5, <1>6, <1>7, <1>8, <1>9, <1>10 DEF StartupStep

\* A call that has not returned moves, and neither runs nor report do.
LEMMA RunStays ==
    ASSUME Inv, NEW c \in Calls, NEW to,
           pc' = [pc EXCEPT ![c] = to], pc[c] # "returned",
           to \in StartupPlaces \cup {"provenance"} => stage[c] = "none",
           to \in StartupPlaces \cup {"provenance", "raised", "dead"},
           UNCHANGED <<runs, digest, sandbox, report>>,
           \A d \in Calls \ {c} : content'[d] = content[d]
    PROVE  RunInv'
<1> USE DEF Inv, RunInv
<1>1. \A d \in Calls : pc'[d] = IF d = c THEN to ELSE pc[d]  BY DEF TypeOK
<1>2. to \notin {"open", "execute", "evaluate", "returned"}
  BY DEF StartupPlaces, Building, Upgrading
<1>3. stage' = stage /\ record' = record  BY DEF runs
<1>4. StageInv'  BY <1>1, <1>2, <1>3 DEF StageInv
<1>5. ResultInv'  BY <1>1, <1>2, <1>3 DEF ResultInv
<1>6. ReportInv'
  <2>1. report # NoReport => \A d \in Compared : d # c  BY DEF ReportInv
  <2>2. report # NoReport => (Comparable' <=> Comparable)
    BY <2>1 DEF Comparable, EqualValues, Compared
  <2> QED  BY <1>1, <1>3, <2>1, <2>2 DEF ReportInv
<1> QED  BY <1>4, <1>5, <1>6

LEMMA CallInv ==
    ASSUME Inv, NEW c \in Calls, Call(c) PROVE Inv'
<1> USE DEF Inv
<1>1. /\ pc[c] = "idle" /\ pc' = [pc EXCEPT ![c] = "ensure"]
      /\ UNCHANGED <<files, fixture, schema, recorded, content, seen, changes, troubled>>
      /\ UNCHANGED Rest
  BY DEF Call, Move, Goto, Rest
<1>2. stage[c] = "none"  BY <1>1 DEF RunInv, StageInv, StartupPlaces
<1>3. Allowed(c, "ensure")
  BY <1>1 DEF Allowed, Building, Upgrading, Loaded, Validated, Migrated, Started
<1>4. StartupInv'  BY <1>1, <1>3, Goes DEF RunsKept, Rest, runs, TypeOK, StartupTypeOK
<1>5. RunInv'  BY <1>1, <1>2, RunStays DEF StartupPlaces, Rest
<1>6. TypeOK'
  BY <1>1, <1>4 DEF TypeOK, StartupInv, Places, StartupPlaces, Rest, runs, Run!ContractTypeOK
<1> QED  BY <1>4, <1>5, <1>6

LEMMA BeforeRunInv ==
    ASSUME Inv, NEW c \in Calls, StartupStep(c), UNCHANGED Rest PROVE Inv'
<1> USE DEF Inv
<1>1. PICK to \in StartupPlaces \cup {"provenance", "raised"} :
        /\ pc[c] \in StartupPlaces \ {"idle"} /\ pc' = [pc EXCEPT ![c] = to]
        /\ \A d \in Calls \ {c} : content'[d] = content[d]
  BY StartupShape
<1>2. stage[c] = "none"  BY <1>1 DEF RunInv, StageInv
<1>3. StartupInv'  BY StartupStepInv DEF Rest, runs
<1>4. pc[c] # "returned"
  BY <1>1 DEF StartupPlaces, Building, Upgrading
<1>5. RunInv'  BY <1>1, <1>2, <1>4, RunStays DEF Rest
<1>6. TypeOK'
  BY <1>1, <1>3 DEF TypeOK, StartupInv, Places, Rest, runs, Run!ContractTypeOK
<1> QED  BY <1>3, <1>5, <1>6

\* A call that has got through startup keeps to it.
LEMMA StartedGoes ==
    ASSUME Inv, NEW c \in Calls, NEW to \in Places, Move(c, pc[c], to),
           pc[c] \in Started, to \in Started, RunsKept
    PROVE  StartupInv' /\ pc' \in [Calls -> Places]
<1>1. /\ content[c] \in Versions /\ fixture.state = "ready"
      /\ fixture.revision = Revision[content[c]]
      /\ schema = "head" /\ recorded = content[c]
  BY DEF Inv, StartupInv, PinInv, Reached, Loaded, Validated, Migrated
<1>2. Allowed(c, to)
  BY <1>1 DEF Allowed, Building, Upgrading, Started
<1> QED  BY <1>2, Goes DEF Move, Goto, Inv, TypeOK, StartupTypeOK

LEMMA TakeProvenanceInv ==
    ASSUME Inv, NEW c \in Calls, TakeProvenance(c) PROVE Inv'
<1> USE DEF Inv
<1>1. /\ pc[c] = "provenance" /\ Move(c, pc[c], "open")
      /\ digest' = [digest EXCEPT ![c] = model]
      /\ UNCHANGED <<runs, model, image, sandbox, report, content>>
  BY DEF TakeProvenance, Move
<1>2. StartupInv' /\ pc' \in [Calls -> Places]
  BY <1>1, StartedGoes DEF Started, Places, RunsKept, runs
<1>3. \A d \in Calls : /\ pc'[d] = IF d = c THEN "open" ELSE pc[d]
                       /\ digest'[d] = IF d = c THEN model ELSE digest[d]
  BY <1>1 DEF TypeOK, Move, Goto
<1>4. stage' = stage /\ record' = record  BY <1>1 DEF runs
<1>5. TypeOK'
  BY <1>1, <1>2 DEF TypeOK, StartupInv, runs, Run!ContractTypeOK
<1>6. StageInv'  BY <1>1, <1>3, <1>4 DEF RunInv, StageInv, StartupPlaces
<1>7. ResultInv'  BY <1>1, <1>3, <1>4 DEF RunInv, ResultInv, TypeOK
<1>8. ReportInv'
  <2>1. report # NoReport => \A d \in Compared : d # c  BY <1>1 DEF RunInv, ReportInv
  <2>2. report # NoReport => (Comparable' <=> Comparable)
    BY <1>1, <1>3, <2>1 DEF Comparable, EqualValues, Compared
  <2> QED  BY <1>1, <1>3, <1>4, <2>1, <2>2 DEF RunInv, ReportInv
<1> QED  BY <1>2, <1>5, <1>6, <1>7, <1>8 DEF RunInv

LEMMA OpenRunInv ==
    ASSUME Inv, NEW c \in Calls, OpenRun(c) PROVE Inv'
<1> USE DEF Inv
<1>1. /\ pc[c] = "open" /\ Move(c, pc[c], "execute")
      /\ stage' = [stage EXCEPT ![c] = "open"]
      /\ UNCHANGED <<manifest, record, model, image, digest, sandbox, report, content>>
  BY DEF OpenRun, Move, Run!Open
<1>2. \A d \in Calls : stage'[d] = IF d = c THEN "open" ELSE stage[d]
  BY <1>1 DEF TypeOK, Run!ContractTypeOK
<1>3. StartupInv' /\ pc' \in [Calls -> Places]
  BY <1>1, <1>2, StartedGoes DEF Started, Places, RunsKept
<1>4. \A d \in Calls : pc'[d] = IF d = c THEN "execute" ELSE pc[d]
  BY <1>1 DEF TypeOK, Move, Goto
<1>5. TypeOK'
  BY <1>1, <1>3 DEF TypeOK, StartupInv, Run!ContractTypeOK, Run!Stages
<1>6. StageInv'  BY <1>1, <1>2, <1>4 DEF RunInv, StageInv, StartupPlaces, Building, Upgrading
<1>7. ResultInv'  BY <1>1, <1>4 DEF RunInv, ResultInv
<1>8. ReportInv'
  BY <1>1, <1>4 DEF RunInv, ReportInv, Comparable, EqualValues
<1> QED  BY <1>3, <1>5, <1>6, <1>7, <1>8 DEF RunInv

LEMMA ExecuteInv ==
    ASSUME Inv, NEW c \in Calls, Execute(c) PROVE Inv'
<1> USE DEF Inv
<1>1. PICK i \in {image, None} :
        /\ pc[c] = "execute" /\ Move(c, pc[c], "evaluate")
        /\ sandbox' = [sandbox EXCEPT ![c] = i]
        /\ UNCHANGED <<runs, model, image, digest, report, content>>
  BY DEF Execute, Move
<1>2. StartupInv' /\ pc' \in [Calls -> Places]
  BY <1>1, StartedGoes DEF Started, Places, RunsKept, runs
<1>3. \A d \in Calls : /\ pc'[d] = IF d = c THEN "evaluate" ELSE pc[d]
                       /\ sandbox'[d] = IF d = c THEN i ELSE sandbox[d]
  BY <1>1 DEF TypeOK, Move, Goto
<1>4. stage' = stage /\ record' = record  BY <1>1 DEF runs
<1>5. TypeOK'
  BY <1>1, <1>2 DEF TypeOK, StartupInv, runs, Run!ContractTypeOK
<1>6. StageInv'
  BY <1>1, <1>3, <1>4 DEF RunInv, StageInv, StartupPlaces, Building, Upgrading
<1>7. ResultInv'  BY <1>1, <1>3, <1>4 DEF RunInv, ResultInv
<1>8. ReportInv'
  <2>1. report # NoReport => \A d \in Compared : d # c  BY <1>1 DEF RunInv, ReportInv
  <2>2. report # NoReport => (Comparable' <=> Comparable)
    BY <1>1, <1>3, <2>1 DEF Comparable, EqualValues, Compared
  <2> QED  BY <1>1, <1>3, <1>4, <2>1, <2>2 DEF RunInv, ReportInv
<1> QED  BY <1>2, <1>5, <1>6, <1>7, <1>8 DEF RunInv

LEMMA PublishRunInv ==
    ASSUME Inv, NEW c \in Calls, PublishRun(c) PROVE Inv'
<1> USE DEF Inv
<1>1. PICK v \in Run!Verdicts :
        /\ pc[c] = "evaluate" /\ Move(c, pc[c], "evaluate")
        /\ manifest' = [manifest EXCEPT ![c] = v]
        /\ UNCHANGED <<stage, record, model, image, digest, sandbox, report, content>>
  BY DEF PublishRun, Move, Run!Publish
<1>2. StartupInv' /\ pc' \in [Calls -> Places]
  BY <1>1, StartedGoes DEF Started, Places, RunsKept
<1>3. pc' = pc  BY <1>1 DEF TypeOK, Move, Goto
<1>4. TypeOK'
  BY <1>1, <1>2 DEF TypeOK, StartupInv, Run!ContractTypeOK
<1>5. RunInv'
  BY <1>1, <1>3 DEF RunInv, StageInv, ResultInv, ReportInv, Comparable, EqualValues
<1> QED  BY <1>2, <1>4, <1>5

LEMMA CloseRunInv ==
    ASSUME Inv, NEW c \in Calls, CloseRun(c) PROVE Inv'
<1> USE DEF Inv
<1>1. PICK v \in Outcomes, w \in Run!Verdicts :
        /\ pc[c] = "evaluate" /\ Move(c, pc[c], "returned")
        /\ stage' = [stage EXCEPT ![c] = "closed"]
        /\ record' = [record EXCEPT ![c] = Run!Record(w, manifest[c] # Run!NoVerdict)]
        /\ record'[c] = Run!Record(v, manifest[c] # Run!NoVerdict)
        /\ VerdictOf(c, v)
        /\ UNCHANGED <<manifest, model, image, digest, sandbox, report, content>>
  BY DEF CloseRun, Move, Run!Close
<1>2. \A d \in Calls : /\ stage'[d] = IF d = c THEN "closed" ELSE stage[d]
                       /\ d # c => record'[d] = record[d]
  BY <1>1 DEF TypeOK, Run!ContractTypeOK
<1>3. StartupInv' /\ pc' \in [Calls -> Places]
  BY <1>1, <1>2, StartedGoes DEF Started, Places, RunsKept
<1>4. \A d \in Calls : pc'[d] = IF d = c THEN "returned" ELSE pc[d]
  BY <1>1 DEF TypeOK, Move, Goto
<1>9. Run!Record(w, manifest[c] # Run!NoVerdict) \in Run!Records
  <2>1. \A e \in BOOLEAN : Run!Record(w, e) \in Run!Records  BY DEF Run!Records
  <2>2. (manifest[c] # Run!NoVerdict) \in BOOLEAN  OBVIOUS
  <2> HIDE DEF Inv
  <2> QED  BY <2>1, <2>2, Zenon
<1>5. TypeOK'
  BY <1>1, <1>3, <1>9 DEF TypeOK, StartupInv, Run!ContractTypeOK, Run!Stages
<1>6. StageInv'
  BY <1>1, <1>2, <1>4 DEF RunInv, StageInv, StartupPlaces, Building, Upgrading
<1>7. ResultInv'
  <2>1. record'[c].reproducible <=> sandbox[c] # None
    <3>1. record'[c].reproducible = v.reproducible  BY <1>1 DEF Run!Record
    <3>2. v.reproducible = (sandbox[c] # None)  BY <1>1 DEF VerdictOf
    <3> QED  BY <3>1, <3>2
  <2>2. record'[c] \in Run!Records
    BY <1>1, <1>9 DEF TypeOK, Run!ContractTypeOK
  <2> QED  BY <1>1, <1>2, <1>4, <2>1, <2>2 DEF RunInv, ResultInv
<1>8. ReportInv'
  <2>1. report # NoReport => \A d \in Compared : d # c  BY <1>1 DEF RunInv, ReportInv
  <2> QED
    BY <1>1, <1>2, <1>4, <2>1 DEF RunInv, ReportInv, Comparable, EqualValues, Compared
<1> QED  BY <1>3, <1>5, <1>6, <1>7, <1>8 DEF RunInv

LEMMA AbandonInv ==
    ASSUME Inv, NEW c \in Calls, Abandon(c) PROVE Inv'
<1> USE DEF Inv
<1>1. PICK to \in {"raised", "dead"} :
        /\ pc[c] \in {"provenance", "open", "execute", "evaluate"}
        /\ pc' = [pc EXCEPT ![c] = to] /\ troubled' = TRUE
        /\ UNCHANGED <<files, fixture, schema, recorded, content, seen, changes,
                       manifest, record, model, image, digest, sandbox, report>>
        /\ stage' = IF stage[c] = "open" THEN [stage EXCEPT ![c] = "abandoned"] ELSE stage
  BY DEF Abandon, Goto, Run!Abandon, runs
<1>2. \A d \in Calls : /\ pc'[d] = IF d = c THEN to ELSE pc[d]
                       /\ d # c => stage'[d] = stage[d]
                       /\ stage'[d] # "none" => stage[d] # "none"
  BY <1>1 DEF TypeOK, Run!ContractTypeOK
<1>3. StartupInv'
  BY <1>1, <1>2, TroubleInv DEF RunsKept, TypeOK, StartupTypeOK
<1>4. TypeOK'
  BY <1>1, <1>3 DEF TypeOK, StartupInv, Places, Run!ContractTypeOK, Run!Stages
<1>5. StageInv'
  BY <1>1, <1>2 DEF RunInv, StageInv, StartupPlaces, Building, Upgrading
<1>6. ResultInv'  BY <1>1, <1>2 DEF RunInv, ResultInv
<1>7. ReportInv'
  <2>1. report # NoReport => \A d \in Compared : d # c  BY <1>1 DEF RunInv, ReportInv
  <2> QED
    BY <1>1, <1>2, <2>1 DEF RunInv, ReportInv, Comparable, EqualValues, Compared
<1> QED  BY <1>3, <1>4, <1>5, <1>6, <1>7 DEF RunInv

LEMMA BreakInv ==
    ASSUME Inv, NEW c \in Calls, Break(c), UNCHANGED Rest PROVE Inv'
<1> USE DEF Inv
<1>1. PICK to \in {"raised", "dead"} :
        /\ pc[c] \in StartupPlaces /\ pc' = [pc EXCEPT ![c] = to] /\ troubled' = TRUE
        /\ UNCHANGED <<files, fixture, schema, recorded, content, seen, changes>>
  BY DEF Break, Goto
<1>2. StartupInv'
  BY <1>1, TroubleInv DEF RunsKept, TypeOK, StartupTypeOK, Rest, runs
<1>3. TypeOK'
  BY <1>1, <1>2 DEF TypeOK, StartupInv, Places, Rest, runs, Run!ContractTypeOK
<1>4. to \notin StartupPlaces \cup {"provenance"} /\ pc[c] # "returned"
  BY <1>1 DEF StartupPlaces, Building, Upgrading
<1>5. RunInv'  BY <1>1, <1>4, RunStays DEF Rest
<1> QED  BY <1>2, <1>3, <1>5

\* What calls rely on is replaced.
LEMMA ChangeInv ==
    ASSUME Inv, Replace \/ (EditFiles /\ UNCHANGED Rest) PROVE Inv'
<1> USE DEF Inv
<1>1. /\ troubled' = TRUE /\ files' \in Versions /\ changes' \in 0..MaxChanges
      /\ model' \in Models /\ image' \in Images
      /\ UNCHANGED <<pc, fixture, schema, recorded, content, seen, runs, digest, sandbox,
                     report>>
  BY DEF Replace, EditFiles, Rest, TypeOK, StartupTypeOK
<1>2. StartupInv'  BY <1>1, TroubleInv DEF RunsKept, runs
<1>3. TypeOK'
  BY <1>1, <1>2 DEF TypeOK, StartupInv, runs, Run!ContractTypeOK
<1>4. RunInv'
  BY <1>1 DEF RunInv, StageInv, ResultInv, ReportInv, Comparable, EqualValues, runs
<1> QED  BY <1>2, <1>3, <1>4

\* Everything the startup's part of the invariant reads stays as it is.
LEMMA StartupStays ==
    ASSUME StartupInv, UNCHANGED <<startup, stage>> PROVE StartupInv'
<1> USE DEF startup
<1>1. StartupTypeOK'  BY DEF StartupInv, StartupTypeOK
<1>2. BuildInv' /\ UpgradeInv'  BY DEF StartupInv, BuildInv, UpgradeInv, Leads
<1>3. PinInv'  BY DEF StartupInv, PinInv, Reached
<1>4. LeadInv'  BY DEF StartupInv, LeadInv, Leads
<1> QED  BY <1>1, <1>2, <1>3, <1>4 DEF StartupInv

LEMMA ReportStepInv ==
    ASSUME Inv, Report PROVE Inv'
<1> USE DEF Inv
<1>1. /\ \A c \in Compared : pc[c] = "returned"
      /\ report' = [of |-> "comparison", comparable |-> Comparable,
                    classification |-> [c \in Compared |-> record[c].classification]]
      /\ UNCHANGED <<startup, runs, model, image, digest, sandbox>>
  BY DEF Report
<1>2. StartupInv'  BY <1>1, StartupStays DEF runs
<1>3. /\ report'.comparable <=> Comparable
      /\ \A c \in Compared : report'.classification[c] = record[c].classification
  <2>1. report'.comparable = Comparable
        /\ report'.classification = [c \in Compared |-> record[c].classification]
    BY <1>1
  <2> QED  BY <2>1
<1>4. Comparable' <=> Comparable
  BY <1>1 DEF Comparable, EqualValues, startup
<1>5. RunInv'
  <2>1. StageInv' /\ ResultInv'
    BY <1>1 DEF RunInv, StageInv, ResultInv, startup, runs
  <2>2. ReportInv'  BY <1>1, <1>3, <1>4 DEF ReportInv, startup, runs
  <2> QED  BY <2>1, <2>2 DEF RunInv
<1>6. report' \in Reports
  <2>1. \A c \in Compared : record[c].classification \in Run!Classifications
    <3>1. \A r \in Run!Records : r.classification \in Run!Classifications
      BY DEF Run!Records, Run!Record, Run!Verdicts
    <3> QED  BY <1>1, <3>1 DEF RunInv, ResultInv
  <2>2. Comparable \in BOOLEAN  BY DEF Comparable, EqualValues
  <2> QED  BY <1>1, <2>1, <2>2 DEF Reports
<1>7. TypeOK'
  BY <1>1, <1>2, <1>6 DEF TypeOK, StartupInv, startup, runs, Run!ContractTypeOK
<1> QED  BY <1>2, <1>5, <1>7

LEMMA NextInv == Inv /\ [Next]_vars => Inv'
<1> SUFFICES ASSUME Inv, [Next]_vars PROVE Inv'  OBVIOUS
<1>1. CASE UNCHANGED vars
  <2>1. StartupInv'  BY <1>1, StartupStays DEF Inv, vars, runs
  <2>2. RunInv'
    BY <1>1 DEF Inv, RunInv, StageInv, ResultInv, ReportInv, Comparable, EqualValues,
                vars, startup, runs
  <2>3. TypeOK'
    BY <1>1, <2>1 DEF Inv, TypeOK, StartupInv, vars, startup, runs, Run!ContractTypeOK
  <2> QED  BY <2>1, <2>2, <2>3 DEF Inv
<1>2. ASSUME NEW c \in Calls, Call(c) \/ Step(c) \/ Abandon(c) PROVE Inv'
  <2>1. CASE StartupStep(c) /\ UNCHANGED Rest  BY <2>1, BeforeRunInv
  <2>2. CASE Call(c)  BY <2>2, CallInv
  <2>3. CASE TakeProvenance(c)  BY <2>3, TakeProvenanceInv
  <2>4. CASE OpenRun(c)  BY <2>4, OpenRunInv
  <2>5. CASE Execute(c)  BY <2>5, ExecuteInv
  <2>6. CASE PublishRun(c)  BY <2>6, PublishRunInv
  <2>7. CASE CloseRun(c)  BY <2>7, CloseRunInv
  <2>8. CASE Abandon(c)  BY <2>8, AbandonInv
  <2> QED
    BY <1>2, <2>1, <2>2, <2>3, <2>4, <2>5, <2>6, <2>7, <2>8 DEF Step, Rest
<1>3. ASSUME NEW c \in Calls, Break(c), UNCHANGED Rest PROVE Inv'  BY <1>3, BreakInv
<1>4. CASE Report  BY <1>4, ReportStepInv
<1>5. CASE Replace \/ (EditFiles /\ UNCHANGED Rest)  BY <1>5, ChangeInv
<1> QED  BY <1>1, <1>2, <1>3, <1>4, <1>5 DEF Next, Finished, Rest

LEMMA Invariant == Spec => []Inv
BY InitInv, NextInv, PTL DEF Spec

-----------------------------------------------------------------------------
\* Every variable keeps its type: a run's record and its manifest are the contract's,
\* a report is one of two closed runs.
THEOREM TypeCorrect == Spec => []TypeOK
<1>1. Inv => TypeOK  BY DEF Inv
<1> QED  BY <1>1, Invariant, PTL

\* A fixture or a schema that is half made (fixtures.py 31-50, migration 0002) is the
\* work of one call, or something is troubled.
THEOREM HalfMade == Spec => []HalfMadeHasAnOwner
<1>1. Inv => HalfMadeHasAnOwner
  BY DEF Inv, StartupInv, BuildInv, UpgradeInv, Leads, HalfMadeHasAnOwner, Building, Upgrading
<1> QED  BY <1>1, Invariant, PTL

\* Any number of calls at once, on a fresh clone or where others have died: an opened
\* run has its pinned fixture, a complete schema and the recorded benchmark
\* (service.py 128-157).
THEOREM Pinned == Spec => []RunsArePinned
<1>1. Inv => RunsArePinned
  BY DEF Inv, StartupInv, PinInv, Reached, RunsArePinned
<1> QED  BY <1>1, Invariant, PTL

\* Any number of calls that start at once on a fresh clone: while nothing breaks and
\* nothing is changed, not all of them raise.
THEOREM OneWins == Spec => []SomeoneWins
<1>1. Inv => SomeoneWins
  <2> SUFFICES ASSUME Inv, ~troubled, \A c \in Calls : pc[c] \in Terminal \cup {"idle"},
                      NEW d \in Calls, pc[d] # "idle"
               PROVE  \E c \in Calls : pc[c] = "returned"
    BY DEF SomeoneWins
  <2> USE DEF Inv, StartupInv, LeadInv, Leads, Terminal
  <2>1. fixture.state # "absent"  OBVIOUS
  <2>2. fixture.state = "ready"  BY <2>1 DEF BuildInv, Building
  <2>3. schema = "head"
    <3>1. schema # "none"  BY <2>2
    <3>2. schema # "first"  OBVIOUS
    <3>3. schema # "partial"  BY DEF UpgradeInv
    <3> QED  BY <3>1, <3>2, <3>3 DEF StartupTypeOK, Schemas
  <2>4. recorded # None  BY <2>3
  <2> QED  BY <2>4 DEF Started
<1> QED  BY <1>1, Invariant, PTL

\* The report says what the two closed rows say, and that they are comparable exactly
\* when both ran in one known sandbox, for one benchmark and one digest, whatever
\* was replaced while they ran (comparison_equality).
THEOREM ReportTrue == Spec => []ReportIsTrue
<1>1. Inv => ReportIsTrue
  <2> SUFFICES ASSUME Inv, report # NoReport PROVE ReportIsTrue  BY DEF ReportIsTrue
  <2>1. \A c \in Compared :
          /\ c \in Calls /\ pc[c] = "returned" /\ stage[c] = "closed"
          /\ report.classification[c] = record[c].classification
          /\ record[c].reproducible <=> sandbox[c] # None
          /\ digest[c] # None /\ content[c] # None
    BY DEF Inv, StartupInv, RunInv, StageInv, ResultInv, ReportInv, PinInv, Reached, Loaded,
           Validated, Migrated, Started
  <2>2. report.comparable <=> Comparable  BY DEF Inv, RunInv, ReportInv
  <2>3. Comparable <=> /\ \A c \in Compared : record[c].reproducible
                       /\ sandbox[Baseline] = sandbox[Candidate]
                       /\ content[Baseline] = content[Candidate]
                       /\ digest[Baseline] = digest[Candidate]
    BY <2>1 DEF Comparable, EqualValues, Compared
  <2> QED  BY <2>1, <2>2, <2>3 DEF ReportIsTrue
<1> QED  BY <1>1, Invariant, PTL

\* Between them, calls keep the contract of each run: rows and manifests move as
\* RunContract says, through startup, changes and deaths.
THEOREM RunsKeepContract == Spec => Run!ContractSpec
<1>1. Init => Run!ContractInit  BY DEF Init
<1>2. Next => Run!ContractNext \/ UNCHANGED Run!contract
  <2> SUFFICES ASSUME Next PROVE Run!ContractNext \/ UNCHANGED Run!contract  OBVIOUS
  <2> USE DEF Run!contract, runs
  <2>1. ASSUME NEW c \in Calls, Call(c) \/ Step(c) \/ Abandon(c)
        PROVE  Run!ContractNext \/ UNCHANGED Run!contract
    BY <2>1 DEF Step, Call, TakeProvenance, OpenRun, Execute, PublishRun, CloseRun,
                Abandon, Run!ContractNext
  <2> QED  BY <2>1 DEF Next, Report, Replace, Finished, vars
<1>3. UNCHANGED vars => UNCHANGED Run!contract  BY DEF vars, runs, Run!contract
<1> QED  BY <1>1, <1>2, <1>3, PTL DEF Spec, Run!ContractSpec

-----------------------------------------------------------------------------
(* The count of the steps a call has still to take.                        *)

\* The count, place by place.
Counted(c) ==
    /\ pc[c] = "idle" => StepsLeft(c) = 19
    /\ pc[c] = "ensure" => StepsLeft(c) = 18
    /\ pc[c] = "copy" => StepsLeft(c) = 17
    /\ pc[c] = "init" => StepsLeft(c) = 16
    /\ pc[c] = "initialising" => StepsLeft(c) = 15
    /\ pc[c] = "commit" => StepsLeft(c) = 14
    /\ pc[c] = "load" => StepsLeft(c) = 13
    /\ pc[c] = "validate" => StepsLeft(c) = 12
    /\ pc[c] = "migrate" => StepsLeft(c) = 11
    /\ pc[c] = "upgrade_first" => StepsLeft(c) = 10
    /\ pc[c] = "upgrade" => StepsLeft(c) = 9
    /\ pc[c] = "upgrade_ends" => StepsLeft(c) = 8
    /\ pc[c] = "record" => StepsLeft(c) = 7
    /\ pc[c] = "insert" => StepsLeft(c) = 6
    /\ pc[c] = "provenance" => StepsLeft(c) = 5
    /\ pc[c] = "open" => StepsLeft(c) = 4
    /\ pc[c] = "execute" => StepsLeft(c) = 3
    /\ pc[c] = "evaluate" /\ manifest[c] = Run!NoVerdict => StepsLeft(c) = 2
    /\ pc[c] = "evaluate" /\ manifest[c] # Run!NoVerdict => StepsLeft(c) = 1
    /\ pc[c] \in Terminal => StepsLeft(c) = 0

LEMMA Counts == ASSUME NEW c \in Calls PROVE Counted(c) /\ Counted(c)'
BY DEF Counted, StepsLeft, Terminal

LEMMA StepsLeftBounds ==
    ASSUME TypeOK, NEW c \in Calls
    PROVE  /\ StepsLeft(c) \in 0..19
           /\ pc[c] \notin Terminal => StepsLeft(c) > 0
<1>1. pc[c] \in Places /\ Counted(c)
  BY Counts DEF TypeOK
<1> QED
  BY <1>1 DEF Counted, Places, StartupPlaces, Building, Upgrading, Terminal

\* A step, a failure and the death of a call each lower its count, and no other's.
LEMMA StepLowers ==
    ASSUME Inv, NEW c \in Calls,
           \/ Call(c) \/ Step(c) \/ Abandon(c)
           \/ Break(c) /\ UNCHANGED Rest
    PROVE  /\ StepsLeft(c)' < StepsLeft(c)
           /\ \A d \in Calls \ {c} : StepsLeft(d)' = StepsLeft(d)
<1> USE DEF runs
<1>1. Counted(c) /\ Counted(c)'
  BY Counts
<1>2. /\ pc \in [Calls -> Places] /\ TypeOK
      /\ manifest \in [Calls -> Run!Verdicts \cup {Run!NoVerdict}]
  BY DEF Inv, TypeOK, Run!ContractTypeOK
<1>3. \A d \in Calls :
        UNCHANGED <<pc[d], manifest[d]>> => StepsLeft(d)' = StepsLeft(d)
  BY DEF StepsLeft
<1>4. CASE StartupStep(c) /\ UNCHANGED Rest
  <2>1. PICK to : /\ pc' = [pc EXCEPT ![c] = to] /\ manifest' = manifest
                  /\ pc[c] \in StartupPlaces
                  /\ to = "raised" \/ <<pc[c], to>> \in Ways
    BY <1>4, StartupShape DEF Rest
  <2>2. pc'[c] = to /\ \A d \in Calls \ {c} : pc'[d] = pc[d]
    BY <1>2, <2>1
  <2>3. CASE to = "raised"
    <3>1. StepsLeft(c)' = 0  BY <1>1, <2>2, <2>3 DEF Counted, Terminal
    <3>2. StepsLeft(c) \in 0..19 /\ StepsLeft(c) > 0
      BY <1>2, <2>1, StepsLeftBounds DEF StartupPlaces, Building, Upgrading, Terminal
    <3> QED  BY <1>3, <2>1, <2>2, <3>1, <3>2
  <2>4. CASE <<pc[c], to>> \in Ways
    <3>1. StepsLeft(c)' < StepsLeft(c)  BY <1>1, <2>2, <2>4 DEF Counted, Ways
    <3> QED  BY <1>3, <2>1, <2>2, <3>1
  <2> QED  BY <2>1, <2>3, <2>4
<1>5. CASE Call(c)
  BY <1>1, <1>2, <1>3, <1>5 DEF Call, Move, Goto, Counted
<1>6. CASE TakeProvenance(c) \/ Execute(c)
  BY <1>1, <1>2, <1>3, <1>6 DEF TakeProvenance, Execute, Move, Goto, Counted
<1>7. CASE OpenRun(c)
  BY <1>1, <1>2, <1>3, <1>7 DEF OpenRun, Run!Open, Move, Goto, Counted
<1>8. CASE PublishRun(c)
  <2>1. PICK v \in Run!Verdicts : manifest' = [manifest EXCEPT ![c] = v]
    BY <1>8 DEF PublishRun, Run!Publish
  <2>2. manifest[c] = Run!NoVerdict /\ pc[c] = "evaluate" /\ pc' = pc
    BY <1>2, <1>8 DEF PublishRun, Run!Publish, Move, Goto
  <2>3. v # Run!NoVerdict
    BY DEF Run!Verdicts, Run!NoVerdict, Run!Classifications, Run!None
  <2> QED  BY <1>1, <1>2, <1>3, <2>1, <2>2, <2>3 DEF Counted
<1>9. CASE CloseRun(c)
  <2>1. pc[c] = "evaluate" /\ pc' = [pc EXCEPT ![c] = "returned"] /\ manifest' = manifest
    BY <1>9 DEF CloseRun, Run!Close, Move, Goto
  <2> QED  BY <1>1, <1>2, <1>3, <2>1 DEF Counted, Terminal
<1>10. CASE Abandon(c) \/ (Break(c) /\ UNCHANGED Rest)
  <2>1. PICK place \in {"raised", "dead"} : pc' = [pc EXCEPT ![c] = place]
    BY <1>10 DEF Abandon, Break, Goto
  <2>2. manifest' = manifest /\ pc[c] \notin Terminal
    BY <1>10 DEF Abandon, Run!Abandon, Break, Rest, StartupPlaces, Building, Upgrading,
                 Terminal
  <2>3. StepsLeft(c)' = 0  BY <1>1, <1>2, <2>1 DEF Counted, Terminal
  <2>4. StepsLeft(c) \in 0..19 /\ StepsLeft(c) > 0  BY <1>2, <2>2, StepsLeftBounds
  <2> QED  BY <1>2, <1>3, <2>1, <2>2, <2>3, <2>4
<1> QED
  BY <1>4, <1>5, <1>6, <1>7, <1>8, <1>9, <1>10 DEF Step, Rest

\* CallsGetOn: any number of calls that use one fixture and one database at once never
\* wait for each other and never try again.
THEOREM GetOn == Spec => CallsGetOn
<1> DEFINE Nearer(c) == /\ StepsLeft(c)' < StepsLeft(c)
                        /\ \A d \in Calls \ {c} : StepsLeft(d)' = StepsLeft(d)
           Apart == /\ Report \/ Replace \/ EditFiles
                    /\ \A c \in Calls : StepsLeft(c)' = StepsLeft(c)
<1>1. ASSUME Inv, NEW c \in Calls,
             \/ Call(c) \/ Step(c) \/ Abandon(c)
             \/ Break(c) /\ UNCHANGED Rest
      PROVE  Nearer(c)
  BY <1>1, StepLowers
<1>2. ASSUME Report \/ Replace \/ (EditFiles /\ UNCHANGED Rest) PROVE Apart
  <2>1. pc' = pc /\ manifest' = manifest
    BY <1>2 DEF Report, Replace, EditFiles, startup, runs, Rest
  <2> QED  BY <1>2, <2>1 DEF StepsLeft
<1>3. Inv /\ [Next]_vars => [Apart \/ \E c \in Calls : Nearer(c)]_vars
  BY <1>1, <1>2 DEF Next, Finished, Rest
<1> QED  BY <1>3, Invariant, PTL DEF Spec, CallsGetOn

\* The count stays between 0 and 19, so no call takes more steps than that.
THEOREM StepsBounded == Spec => [](\A c \in Calls : StepsLeft(c) \in 0..19)
<1>1. Inv => \A c \in Calls : StepsLeft(c) \in 0..19
  BY StepsLeftBounds DEF Inv
<1> QED  BY <1>1, Invariant, PTL
=============================================================================
