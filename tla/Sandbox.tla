------------------------------ MODULE Sandbox ------------------------------
(***************************************************************************)
(* DockerSandbox.execute and the Docker daemon it shares with everyone     *)
(* else.  A call creates a volume, a relay container and a sandbox         *)
(* container under names derived from the workspace's name, labels each    *)
(* with an owner id of its own, runs the command attached to the sandbox   *)
(* container and removes what it owns in reverse order.                    *)
(*                                                                         *)
(* Names are not reserved: two calls on workspaces of the same name, or a  *)
(* stranger, compete for them.  Every docker command is a request that can *)
(* fail or time out at the client and still be carried out by the daemon.  *)
(***************************************************************************)
EXTENDS Naturals, FiniteSets

CONSTANTS
    Calls,          \* calls of execute whose workspaces have the same name
    Stranger,       \* everybody else who uses the daemon, with any label or none
    NoOne,          \* holder of a free name
    OperatorActs    \* someone removes resources behind their owners' backs

ASSUME HoldersAssumption ==
    /\ Stranger \notin Calls /\ NoOne \notin Calls /\ NoOne # Stranger
    /\ OperatorActs \in BOOLEAN

VARIABLES
    \* the daemon
    holder,     \* holder[n]: whose label the resource named n carries
    creating,   \* <<c, n>>: requests to create n the client gave up on
    removing,   \* <<c, n>>: requests to remove c's n the client gave up on
    \* locals of execute
    pc,
    cur,        \* the name the call is at
    owned,      \* owned_resources
    todo,       \* owned resources the cleanup loop has still to look at
    errors,     \* names with an entry in cleanup_errors
    primary,    \* primary_error
    outcome     \* what the caller gets

daemon == <<holder, creating, removing>>
locals == <<pc, cur, owned, todo, errors, primary, outcome>>
vars   == <<daemon, locals>>

-----------------------------------------------------------------------------
Names      == {"volume", "relay", "sandbox"}
Containers == {"relay", "sandbox"}

\* The order of creation; cleanup goes through reversed(owned_resources).
Rank(n) == CASE n = "volume" -> 1 [] n = "relay" -> 2 [] OTHER -> 3

\* An exception is a SandboxError, or one the handlers let through.
Errors   == {"none", "sandbox_error", "other"}
Outcomes == Errors \cup {"result"}
Places   == {"idle", "create", "salvage", "verify", "start", "attach",
             "cleanup", "remove", "done", "dead"}
Ended    == {"done", "dead"}
Holders  == Calls \cup {Stranger, NoOne}

TypeOK ==
    /\ holder \in [Names -> Holders]
    /\ creating \subseteq Calls \X Names
    /\ removing \subseteq Calls \X Names
    /\ pc \in [Calls -> Places]
    /\ cur \in [Calls -> Names]
    /\ owned \in [Calls -> SUBSET Names]
    /\ todo \in [Calls -> SUBSET Names]
    /\ errors \in [Calls -> SUBSET Names]
    /\ primary \in [Calls -> Errors]
    /\ outcome \in [Calls -> Outcomes]
    /\ \A c \in Calls : todo[c] \cup errors[c] \subseteq owned[c]

Init ==
    /\ holder \in [Names -> {Stranger, NoOne}]
    /\ creating = {}
    /\ removing = {}
    /\ pc = [c \in Calls |-> "idle"]
    /\ cur = [c \in Calls |-> "volume"]
    /\ owned = [c \in Calls |-> {}]
    /\ todo = [c \in Calls |-> {}]
    /\ errors = [c \in Calls |-> {}]
    /\ primary = [c \in Calls |-> "none"]
    /\ outcome = [c \in Calls |-> "none"]

Goto(c, place) == pc' = [pc EXCEPT ![c] = place]

-----------------------------------------------------------------------------
(* The daemon.                                                             *)

\* The name table after a request of c to create n is carried out: a name in
\* use is left alone; a container whose volume is missing brings one into
\* being, without a label.
Created(c, n) ==
    [m \in Names |->
        IF holder[n] # NoOne THEN holder[m]
        ELSE IF m = n THEN c
        ELSE IF m = "volume" /\ n \in Containers /\ holder[m] = NoOne THEN Stranger
        ELSE holder[m]]

\* A volume some call's container is mounted on cannot be removed.
InUse(n) == n = "volume" /\ \E m \in Containers : holder[m] \in Calls

\* A request the client gave up on is carried out after all, or lost.
CreateLands(c, n) ==
    /\ <<c, n>> \in creating
    /\ creating' = creating \ {<<c, n>>}
    /\ holder' \in {holder, Created(c, n)}
    /\ UNCHANGED <<removing, locals>>

\* A removal is bound to the resource it was asked for, not to its name.
RemoveLands(c, n) ==
    /\ <<c, n>> \in removing
    /\ removing' = removing \ {<<c, n>>}
    /\ holder' = IF holder[n] = c /\ ~InUse(n)
                   THEN [holder EXCEPT ![n] = NoOne] ELSE holder
    /\ UNCHANGED <<creating, locals>>

\* Strangers come and go under the same names.
StrangerCreates(n) ==
    /\ holder[n] = NoOne
    /\ holder' = [holder EXCEPT ![n] = Stranger]
    /\ UNCHANGED <<creating, removing, locals>>

StrangerRemoves(n) ==
    /\ holder[n] = Stranger
    /\ holder' = [holder EXCEPT ![n] = NoOne]
    /\ UNCHANGED <<creating, removing, locals>>

\* `docker system prune`, or an operator who tidies up.
OperatorRemoves(n) ==
    /\ OperatorActs
    /\ holder[n] \in Calls
    /\ holder' = [holder EXCEPT ![n] = NoOne]
    /\ UNCHANGED <<creating, removing, locals>>

-----------------------------------------------------------------------------
(* execute: setting up.                                                    *)

\* Arguments, workspace, upstream, image and version are in order.
Begin(c) ==
    /\ pc[c] = "idle"
    /\ Goto(c, "create")
    /\ UNCHANGED <<daemon, cur, owned, todo, errors, primary, outcome>>

\* They are not: ValueError, or a SandboxError without provenance.
BeginFails(c) ==
    /\ pc[c] = "idle"
    /\ outcome' \in {[outcome EXCEPT ![c] = e] : e \in Errors \ {"none"}}
    /\ Goto(c, "done")
    /\ UNCHANGED <<daemon, cur, owned, todo, errors, primary>>

\* The end of the try block: an exception, if any, and then the finally block.
ToCleanup(c, error, mine) ==
    /\ primary' = [primary EXCEPT ![c] = error]
    /\ owned' = [owned EXCEPT ![c] = mine]
    /\ todo' = [todo EXCEPT ![c] = mine]
    /\ Goto(c, "cleanup")

\* The create command succeeds: a container's name was free, a volume of that
\* name is there now, whoever made it.
Create(c) ==
    /\ pc[c] = "create"
    /\ cur[c] = "volume" \/ holder[cur[c]] = NoOne
    /\ holder' = Created(c, cur[c])
    /\ Goto(c, "verify")
    /\ UNCHANGED <<creating, removing, cur, owned, todo, errors, primary, outcome>>

\* The daemon refuses, or the client stops waiting (30 s, or Ctrl-C) and the
\* daemon may yet create the resource.  The error is raised again once the
\* handler has looked at who owns the name.
CreateFails(c, error) ==
    /\ pc[c] = "create"
    /\ primary' = [primary EXCEPT ![c] = error]
    /\ creating' \in {creating, creating \cup {<<c, cur[c]>>}}
    /\ Goto(c, "salvage")
    /\ UNCHANGED <<holder, removing, cur, owned, todo, errors, outcome>>

\* The handler's inspect: what carries the call's label is owned after all.
Salvage(c) ==
    /\ pc[c] = "salvage"
    /\ ToCleanup(c, primary[c],
                 IF holder[cur[c]] = c THEN owned[c] \cup {cur[c]} ELSE owned[c])
    /\ UNCHANGED <<daemon, cur, errors, outcome>>

\* The inspect fails: a SandboxError is passed over, Ctrl-C takes its place.
SalvageFails(c, error) ==
    /\ pc[c] = "salvage"
    /\ ToCleanup(c, IF error = "other" THEN error ELSE primary[c], owned[c])
    /\ UNCHANGED <<daemon, cur, errors, outcome>>

\* After the relay comes its start, after the sandbox container the command.
AfterVerify(n) ==
    CASE n = "volume" -> "create" [] n = "relay" -> "start" [] OTHER -> "attach"

\* Mutant: the label is not compared after a successful create.
VerifyNothing(c) ==
    /\ pc[c] = "verify"
    /\ owned' = [owned EXCEPT ![c] = @ \cup {cur[c]}]
    /\ cur' = [cur EXCEPT ![c] = IF @ = "volume" THEN "relay" ELSE @]
    /\ Goto(c, AfterVerify(cur[c]))
    /\ UNCHANGED <<daemon, todo, errors, primary, outcome>>

\* create_owned's inspect after a successful create: the label is the call's.
Verify(c) ==
    /\ pc[c] = "verify"
    /\ holder[cur[c]] = c
    /\ owned' = [owned EXCEPT ![c] = @ \cup {cur[c]}]
    /\ cur' = [cur EXCEPT ![c] = IF @ = "volume" THEN "relay" ELSE @]
    /\ Goto(c, AfterVerify(cur[c]))
    /\ UNCHANGED <<daemon, todo, errors, primary, outcome>>

\* Someone else's label, or an inspect that fails: the resource is not owned.
VerifyFails(c, error) ==
    /\ pc[c] = "verify"
    /\ ToCleanup(c, error, owned[c])
    /\ UNCHANGED <<daemon, cur, errors, outcome>>

StartRelay(c) ==
    /\ pc[c] = "start"
    /\ cur' = [cur EXCEPT ![c] = "sandbox"]
    /\ Goto(c, "create")
    /\ UNCHANGED <<daemon, owned, todo, errors, primary, outcome>>

\* docker start of the relay fails or is cut off.
StartFails(c, error) ==
    /\ pc[c] = "start"
    /\ ToCleanup(c, error, owned[c])
    /\ UNCHANGED <<daemon, cur, errors, outcome>>

\* _run_attached comes back: with the command's result, or with an exception.
Attached(c, error) ==
    /\ pc[c] = "attach"
    /\ ToCleanup(c, error, owned[c])
    /\ UNCHANGED <<daemon, cur, errors, outcome>>

-----------------------------------------------------------------------------
(* execute: the finally block.                                             *)

\* reversed(owned_resources)
IsNext(c, n) == n \in todo[c] /\ \A m \in todo[c] : Rank(m) <= Rank(n)

\* The loop goes on with the next resource; what: this one's cleanup error.
NextResource(c, n, what) ==
    /\ errors' = [errors EXCEPT ![c] = @ \cup what]
    /\ todo' = [todo EXCEPT ![c] = @ \ {n}]
    /\ Goto(c, "cleanup")

\* The label is still the call's: remove it.
CheckOwner(c) ==
    /\ pc[c] = "cleanup"
    /\ \E n \in Names :
          /\ IsNext(c, n)
          /\ holder[n] = c
          /\ cur' = [cur EXCEPT ![c] = n]
    /\ Goto(c, "remove")
    /\ UNCHANGED <<daemon, owned, todo, errors, primary, outcome>>

\* "No such ..." is no error; another owner, or an inspect that fails, is one.
CheckFails(c) ==
    /\ pc[c] = "cleanup"
    /\ \E n \in Names :
          /\ IsNext(c, n)
          /\ \E what \in {{}, {n}} :
                /\ what = {} => holder[n] = NoOne
                /\ NextResource(c, n, what)
    /\ UNCHANGED <<daemon, cur, owned, primary, outcome>>

\* Mutant: everything under the prefix goes at once.
RemoveByPrefix(c) ==
    /\ pc[c] = "remove"
    /\ holder' = [n \in Names |-> NoOne]
    /\ NextResource(c, cur[c], {})
    /\ UNCHANGED <<creating, removing, cur, owned, primary, outcome>>

\* docker rm --force NAME: by name, and whatever is gone already is no error.
Remove(c) ==
    /\ pc[c] = "remove"
    /\ ~InUse(cur[c])
    /\ holder' = [holder EXCEPT ![cur[c]] = NoOne]
    /\ NextResource(c, cur[c], {})
    /\ UNCHANGED <<creating, removing, cur, owned, primary, outcome>>

\* Mutants: one failed removal ends the loop; it is tried again without end.
RemoveFailsForAll(c) ==
    /\ pc[c] = "remove"
    /\ errors' = [errors EXCEPT ![c] = @ \cup {cur[c]}]
    /\ todo' = [todo EXCEPT ![c] = {}]
    /\ Goto(c, "cleanup")
    /\ UNCHANGED <<daemon, cur, owned, primary, outcome>>
RemoveRetries(c) ==
    /\ pc[c] = "remove"
    /\ removing' = removing \cup {<<c, cur[c]>>}
    /\ UNCHANGED <<holder, creating, locals>>

\* Mutant: what could not be removed stays in the list.
RemoveFailsForNow(c) ==
    /\ pc[c] = "remove"
    /\ errors' = [errors EXCEPT ![c] = @ \cup {cur[c]}]
    /\ Goto(c, "cleanup")
    /\ UNCHANGED <<daemon, cur, owned, todo, primary, outcome>>

\* The command fails, or times out while the daemon goes on removing.
RemoveFails(c) ==
    /\ pc[c] = "remove"
    /\ removing' \in {removing, removing \cup {<<c, cur[c]>>}}
    /\ NextResource(c, cur[c], {cur[c]})
    /\ UNCHANGED <<holder, creating, cur, owned, primary, outcome>>

\* Mutant: a result is returned whatever the cleanup met.
ResultFirst(c) == IF primary[c] # "none" THEN primary[c] ELSE "result"

\* The first exception wins; without one, cleanup errors become one.
Verdict(c) ==
    IF primary[c] # "none" THEN primary[c]
    ELSE IF errors[c] # {} THEN "sandbox_error" ELSE "result"

Finish(c) ==
    /\ pc[c] = "cleanup"
    /\ todo[c] = {}
    /\ outcome' = [outcome EXCEPT ![c] = Verdict(c)]
    /\ Goto(c, "done")
    /\ UNCHANGED <<daemon, cur, owned, todo, errors, primary>>

-----------------------------------------------------------------------------
(* What stops a call from outside.                                         *)

\* Ctrl-C in the finally block: the loop ends where it is.
CutShort(c) ==
    /\ pc[c] \in {"cleanup", "remove"}
    /\ \/ UNCHANGED daemon
       \/ pc[c] = "remove" /\ removing' = removing \cup {<<c, cur[c]>>}
            /\ UNCHANGED <<holder, creating>>
    /\ outcome' = [outcome EXCEPT ![c] = "other"]
    /\ Goto(c, "dead")
    /\ UNCHANGED <<cur, owned, todo, errors, primary>>

\* The process dies.  A request on its way may still be carried out.
Crash(c) ==
    /\ pc[c] \notin Ended
    /\ creating' \in {creating} \cup
          {creating \cup {<<c, n>>} : n \in IF pc[c] = "create" THEN {cur[c]} ELSE {}}
    /\ removing' \in {removing} \cup
          {removing \cup {<<c, n>>} : n \in IF pc[c] = "remove" THEN {cur[c]} ELSE {}}
    /\ Goto(c, "dead")
    /\ UNCHANGED <<holder, cur, owned, todo, errors, primary, outcome>>

-----------------------------------------------------------------------------
Step(c) ==
    \/ Begin(c) \/ BeginFails(c) \/ Create(c) \/ Salvage(c) \/ Verify(c)
    \/ \E e \in Errors \ {"none"} :
          \/ CreateFails(c, e) \/ SalvageFails(c, e) \/ VerifyFails(c, e)
          \/ StartFails(c, e)
    \/ StartRelay(c)
    \/ \E e \in Errors : Attached(c, e)
    \/ CheckOwner(c) \/ CheckFails(c) \/ Remove(c) \/ RemoveFails(c) \/ Finish(c)

Environment ==
    \/ \E c \in Calls, n \in Names : CreateLands(c, n) \/ RemoveLands(c, n)
    \/ \E n \in Names :
          StrangerCreates(n) \/ StrangerRemoves(n) \/ OperatorRemoves(n)

Finished == (\A c \in Calls : pc[c] \in Ended) /\ UNCHANGED vars

Next ==
    \/ \E c \in Calls : Step(c) \/ CutShort(c) \/ Crash(c)
    \/ Environment
    \/ Finished

\* Every docker command ends within its timeout, and the attached run within
\* its own (module AttachedRun).
Fairness == \A c \in Calls : WF_vars(Step(c))

Spec == Init /\ [][Next]_vars /\ Fairness

-----------------------------------------------------------------------------
(* Properties.                                                             *)

SparesOthers(c, n) ==
    pc[c] = "remove" /\ pc'[c] # "remove" /\ holder'[n] # holder[n] => holder[n] = c

\* A call's removal never takes what carries another label: between the look
\* at the label and the removal by name, the name stays the call's.
OthersSurvive == [][\A c \in Calls, n \in Names : SparesOthers(c, n)]_vars

\* The command runs among resources that are all the call's own; so two calls
\* that share names never run at the same time.
RunsOnItsOwn ==
    \A c \in Calls : pc[c] = "attach" => \A n \in Names : holder[n] = c

\* A caller that gets a result can be sure nothing of the call is left in
\* Docker, and nothing of it will appear.
ResultLeavesNothing ==
    \A c \in Calls : outcome[c] = "result" =>
        \A n \in Names : holder[n] # c /\ <<c, n>> \notin creating

\* One failed removal does not prevent the others and none goes unreported:
\* an owned resource that outlives its call has an entry in cleanup_errors.
LeftoversAreReported ==
    \A c \in Calls : pc[c] = "done" =>
        \A n \in owned[c] : holder[n] = c => n \in errors[c]

\* A call that began to create ends, whatever the daemon answers.
EveryCallEnds == \A c \in Calls : pc[c] = "create" ~> pc[c] \in Ended

\* The most steps a call has still to take, each with one docker command at most.
StepsLeft(c) ==
    LET behind == CASE cur[c] = "volume" -> 5 [] cur[c] = "relay" -> 3 [] OTHER -> 0 IN
    CASE pc[c] = "idle"    -> 16
      [] pc[c] = "create"  -> 10 + behind
      [] pc[c] = "verify"  -> 9 + behind
      [] pc[c] = "start"   -> 11
      [] pc[c] \in {"salvage", "attach"} -> 8
      [] pc[c] = "cleanup" -> 2 * Cardinality(todo[c]) + 1
      [] pc[c] = "remove"  -> 2 * Cardinality(todo[c])
      [] pc[c] \in Ended   -> 0

\* Whatever fails and whoever interferes, no docker command of a call is repeated:
\* each step of a call brings it nearer to its end, and nobody else's delays it.
CallsGetOn ==
    [][\/ Environment /\ \A c \in Calls : StepsLeft(c)' = StepsLeft(c)
       \/ \E c \in Calls : /\ StepsLeft(c)' < StepsLeft(c)
                           /\ \A q \in Calls \ {c} : StepsLeft(q)' = StepsLeft(q)]_vars

\* How far a call is, as SandboxContract sees it.
Seen(c) ==
    CASE outcome[c] = "result"                   -> "clean"
      [] outcome[c] # "result" /\ pc[c] \in Ended -> "over"
      [] pc[c] = "attach"                        -> "running"
      [] pc[c] \in {"cleanup", "remove"}         ->
            IF primary[c] = "none" THEN "finishing" ELSE "failing"
      [] OTHER                                   -> "gathering"

Contract == INSTANCE SandboxContract WITH
    Volume <- "volume", stage <- [c \in Calls |-> Seen(c)]

\* While nobody removes resources behind their owners' backs, a call is alone with
\* its names from the moment it has all of them until its command has come back,
\* gives back only what it holds, and once it has ended clean never holds a name
\* again, whatever requests are carried out late.
KeepsContract == Contract!ContractSpec

\* The plan's acceptance line, docs/plans/: "Containers, relay, network, and
\* worktree are removed on success, command failure, timeout, output overflow,
\* and setup failure".  A call that ended and met no error in its cleanup has
\* left nothing behind.
SetupFailureLeavesNothing ==
    \A c \in Calls : pc[c] = "done" /\ errors[c] = {} =>
        \A n \in Names : holder[n] # c
=============================================================================
