---------------------------- MODULE AttachedRun ----------------------------
(***************************************************************************)
(* DockerSandbox._run_attached: the loop that reads the output of `docker  *)
(* start --attach` from two pipes, kills the container at the deadline or  *)
(* when the output cap is reached, and tells its caller which of the two   *)
(* happened.  It races three processes it does not control: the container, *)
(* the attached client that forwards the output, and `docker kill`.        *)
(*                                                                         *)
(* Time is counted in turns of the loop's selector (0.1 s), output in      *)
(* chunks.                                                                 *)
(***************************************************************************)
EXTENDS Naturals, FiniteSets

CONSTANTS
    Timeout,      \* timeout_seconds
    PostKill,     \* POST_KILL_SECONDS
    Reap,         \* PROCESS_REAP_SECONDS
    MaxOutput,    \* max_output_bytes
    MaxWritten,   \* bound: what the container writes in all
    DaemonFails   \* docker kill may be refused, or hang, for reasons of its own

ASSUME BoundsAssumption ==
    /\ Timeout \in Nat \ {0} /\ PostKill \in Nat \ {0} /\ Reap \in Nat \ {0}
    /\ MaxOutput \in Nat \ {0} /\ MaxWritten \in Nat
    /\ DaemonFails \in BOOLEAN

VARIABLES
    now,          \* time.monotonic(), in turns since the start
    waited,       \* this turn's wait may still let a unit of time pass
    \* the environment
    container,    \* running, exited by itself, or killed
    written,      \* chunks the container has written
    pipe,         \* pipe[s]: chunks between the container and the reader
    client,       \* the attached client: forwarding, its pipes closed, or exited
    kill,         \* the docker kill process: none, running, ok, failed
    \* locals of _run_attached
    pc,
    registered,   \* streams in the selector
    events,       \* streams the selector found readable, still to be read
    captured,
    timedOut,
    outputLimited,
    killDeadline, \* kill_deadline, and later that of the process.wait under way
    signal,       \* what _reap has sent the process it waits for
    result        \* what the caller gets

environment == <<container, written, pipe, client, kill>>
flags  == <<timedOut, outputLimited>>
locals == <<pc, registered, events, captured, flags, killDeadline, signal, result>>
vars   == <<now, waited, environment, locals>>

-----------------------------------------------------------------------------
Streams == {"stdout", "stderr"}
NoDeadline == 0

\* The longest the call may take: the timeout and a grace period, with a turn lost
\* at each, and two waits in reaping for each of two processes.
Horizon == Timeout + (IF PostKill > Reap THEN PostKill ELSE Reap) + 2 + 4 * Reap

TypeOK ==
    /\ now \in Nat /\ waited \in BOOLEAN
    /\ container \in {"running", "exited", "killed"}
    /\ written \in 0..MaxWritten
    /\ pipe \in [Streams -> 0..MaxWritten]
    /\ client \in {"attached", "closed", "exited"}
    /\ kill \in {"none", "running", "ok", "failed"}
    /\ pc \in {"launch", "check", "select", "read", "after", "wait", "finally",
              "reap_kill", "reap_client", "done"}
    /\ registered \subseteq Streams /\ events \subseteq registered
    /\ captured \in 0..MaxOutput
    /\ timedOut \in BOOLEAN /\ outputLimited \in BOOLEAN
    /\ killDeadline \in Nat
    /\ signal \in {"none", "term", "kill"}
    /\ result \in {"none", "returned", "error", "interrupted", "unreaped"}

Init ==
    /\ now = 0 /\ waited = FALSE
    /\ container = "running"
    /\ written = 0
    /\ pipe = [s \in Streams |-> 0]
    /\ client = "attached"
    /\ kill = "none"
    /\ pc = "launch"
    /\ registered = Streams /\ events = {}
    /\ captured = 0
    /\ timedOut = FALSE /\ outputLimited = FALSE
    /\ killDeadline = NoDeadline
    /\ signal = "none"
    /\ result = "none"

-----------------------------------------------------------------------------
(* The container, its client, docker kill and the clock.                   *)

Write(s) ==
    /\ pc # "launch"
    /\ container = "running" /\ written < MaxWritten
    /\ written' = written + 1
    /\ pipe' = [pipe EXCEPT ![s] = @ + 1]
    /\ UNCHANGED <<now, waited, container, client, kill, locals>>

Exit ==
    /\ pc # "launch"
    /\ container = "running"
    /\ container' = "exited"
    /\ UNCHANGED <<now, waited, written, pipe, client, kill, locals>>

\* Once it has forwarded everything the client closes its pipes, and some time
\* later it has exited.
ClientCloses ==
    /\ container # "running" /\ client = "attached"
    /\ client' = "closed"
    /\ UNCHANGED <<now, waited, container, written, pipe, kill, locals>>

ClientExits ==
    /\ client = "closed"
    /\ client' = "exited"
    /\ UNCHANGED <<now, waited, container, written, pipe, kill, locals>>

\* The daemon refuses to kill what does not run.
Kill ==
    /\ kill = "running"
    /\ IF container = "running"
         THEN container' = "killed" /\ kill' = "ok"
         ELSE kill' = "failed" /\ UNCHANGED container
    /\ UNCHANGED <<now, waited, written, pipe, client, locals>>

KillRefused ==
    /\ DaemonFails
    /\ kill = "running"
    /\ kill' = "failed"
    /\ UNCHANGED <<now, waited, container, written, pipe, client, locals>>

Reaping == pc \in {"reap_kill", "reap_client"}

\* docker kill ends by a signal, with what it asked for done or not.
KillDies ==
    /\ pc = "reap_kill" /\ signal # "none"
    /\ kill = "running"
    /\ kill' = "failed"
    /\ \/ container' = container
       \/ container = "running" /\ container' = "killed"
    /\ UNCHANGED <<now, waited, written, pipe, client, locals>>

\* The client ends when its pipes are closed, or by a signal; but it may also hand
\* SIGTERM on to its container and stay.
ClientDies ==
    /\ Reaping
    /\ client # "exited"
    /\ client' = "exited"
    /\ UNCHANGED <<now, waited, container, written, pipe, kill, locals>>

\* A turn of the loop takes one unit of time at most.
Tick ==
    /\ waited
    /\ now' = now + 1
    /\ waited' = FALSE
    /\ UNCHANGED <<environment, locals>>

-----------------------------------------------------------------------------
(* The loop: check the deadlines, wait for output, read it.                *)

Goto(place) == pc' = place

Fail(what) == result' = what /\ Goto("finally")

\* Popen fails: there is no client, and nothing to reap.
Launch ==
    /\ pc = "launch"
    /\ \/ Goto("check") /\ UNCHANGED <<client, result>>
       \/ Goto("done") /\ client' = "exited" /\ result' = "error"
    /\ UNCHANGED <<now, waited, container, written, pipe, kill, registered, events,
                   captured, flags, killDeadline, signal>>

\* Mutant: the deadline is looked at whether or not a kill is under way.
PastDeadlineAgain == now >= Timeout /\ ~timedOut

PastDeadline     == kill = "none" /\ now >= Timeout
PastKillDeadline == killDeadline # NoDeadline /\ now >= killDeadline

\* Mutant: nothing limits the time a kill may take.
StartKillPatiently ==
    /\ kill' = "running"
    /\ UNCHANGED killDeadline

\* start_kill
StartKill ==
    /\ kill' = "running"
    /\ killDeadline' = now + PostKill

\* The deadline has come: kill the container, and go on with this turn's checks.
CheckDeadline ==
    /\ pc = "check"
    /\ PastDeadline
    /\ timedOut' = TRUE
    /\ StartKill
    /\ UNCHANGED <<now, waited, container, written, pipe, client, pc, registered,
                   events, captured, outputLimited, signal, result>>

\* kill_error, or the post-kill deadline: leave with a SandboxError.
CheckFails ==
    /\ pc = "check"
    /\ ~PastDeadline
    /\ kill = "failed" \/ PastKillDeadline
    /\ Fail("error")
    /\ UNCHANGED <<now, waited, environment, registered, events, captured, flags,
                   killDeadline, signal>>

Check ==
    /\ pc = "check"
    /\ ~PastDeadline /\ kill # "failed" /\ ~PastKillDeadline
    /\ Goto("select")
    /\ UNCHANGED <<now, waited, environment, registered, events, captured, flags,
                   killDeadline, signal, result>>

\* selector.select: the streams with something to read, or at their end.
Ended(s) == client # "attached" /\ pipe[s] = 0

Select ==
    /\ pc = "select"
    /\ events' = {s \in registered : pipe[s] > 0 \/ Ended(s)}
    /\ waited' = TRUE
    /\ Goto("read")
    /\ UNCHANGED <<now, environment, registered, captured, flags, killDeadline,
                   signal, result>>

\* Mutants: the cap does not limit what is kept; a full buffer is not noticed.
KeptAll(s)        == pipe[s]
CapExceeded(kept) == kept > MaxOutput

\* As much of the chunk as the cap leaves room for.
Kept(s) == IF pipe[s] <= MaxOutput - captured THEN pipe[s] ELSE MaxOutput - captured
CapReached(kept) == kept >= MaxOutput

\* At the cap the container is killed, unless a kill is under way.
Read(s) ==
    /\ pc = "read" /\ s \in events
    /\ pipe[s] > 0
    /\ captured' = captured + Kept(s)
    /\ IF CapReached(captured') /\ kill = "none"
         THEN outputLimited' = TRUE /\ StartKill
         ELSE UNCHANGED <<outputLimited, kill, killDeadline>>
    /\ pipe' = [pipe EXCEPT ![s] = 0]
    /\ events' = events \ {s}
    /\ UNCHANGED <<now, waited, container, written, client, pc, registered,
                   timedOut, signal, result>>

\* An empty read: the stream is unregistered.
EndOfStream(s) ==
    /\ pc = "read" /\ s \in events
    /\ pipe[s] = 0
    /\ registered' = registered \ {s}
    /\ events' = events \ {s}
    /\ UNCHANGED <<now, waited, environment, pc, captured, flags, killDeadline,
                   signal, result>>

EndTurn ==
    /\ pc = "read" /\ events = {}
    /\ Goto(IF registered = {} THEN "after" ELSE "check")
    /\ UNCHANGED <<now, waited, environment, registered, events, captured, flags,
                   killDeadline, signal, result>>

\* docker kill cannot be started at the deadline or at the cap.
KillCannotStart ==
    /\ DaemonFails /\ kill = "none"
    /\ \/ pc = "check" /\ PastDeadline
       \/ pc = "read" /\ \E s \in events :
             pipe[s] > 0 /\ CapReached(captured + Kept(s))
    /\ Fail("error")
    /\ UNCHANGED <<now, waited, environment, registered, events, captured, flags,
                   killDeadline, signal>>

-----------------------------------------------------------------------------
(* After the loop.                                                         *)

\* A kill under way is waited for until its deadline; a failed one is an error.
\* Without a kill the client gets the reap time to exit.
AfterLoop ==
    /\ pc = "after"
    /\ kill # "running" \/ PastKillDeadline
    /\ IF kill \in {"failed", "running"}
         THEN Fail("error") ELSE UNCHANGED result /\ Goto("wait")
    /\ killDeadline' = IF kill = "none" THEN now + Reap ELSE killDeadline
    /\ UNCHANGED <<now, waited, environment, registered, events, captured, flags,
                   signal>>

\* Mutant: process.wait() without a timeout.
WaitForeverForClient ==
    /\ pc = "wait"
    /\ client = "exited"
    /\ Fail("returned")
    /\ UNCHANGED <<now, waited, environment, registered, events, captured, flags,
                   killDeadline, signal>>

\* process.wait, for what is left of the post-kill time or for the reap time.
WaitForClient ==
    /\ pc = "wait"
    /\ client = "exited" \/ PastKillDeadline
    /\ Fail(IF client = "exited" THEN "returned" ELSE "error")
    /\ UNCHANGED <<now, waited, environment, registered, events, captured, flags,
                   killDeadline, signal>>

\* The process _reap is called with has ended, or there is none.
Gone == IF pc = "reap_kill" THEN kill # "running" ELSE client = "exited"

\* Time passes in these two waits as well, and in those of _reap.
Block ==
    /\ \/ pc = "after" /\ kill = "running"
       \/ pc = "wait" /\ client # "exited"
       \/ Reaping /\ ~Gone /\ signal # "none"
    /\ ~PastKillDeadline /\ ~waited
    /\ waited' = TRUE
    /\ UNCHANGED <<now, environment, locals>>

\* The finally block: close the pipes, then reap docker kill and the client.
Finally ==
    /\ pc = "finally"
    /\ Goto("reap_kill")
    /\ UNCHANGED <<now, waited, environment, registered, events, captured, flags,
                   killDeadline, signal, result>>

\* _reap returns.
Reaped ==
    /\ Reaping /\ Gone
    /\ Goto(IF pc = "reap_kill" THEN "reap_client" ELSE "done")
    /\ signal' = "none"
    /\ UNCHANGED <<now, waited, environment, registered, events, captured, flags,
                   killDeadline, result>>

\* Send a signal and wait for the process, for the reap time at most.
Send(what) ==
    /\ signal' = what
    /\ killDeadline' = now + Reap
    /\ UNCHANGED <<now, waited, environment, pc, registered, events, captured, flags,
                   result>>

Terminate == Reaping /\ ~Gone /\ signal = "none" /\ Send("term")

\* Mutant: nobody waits for a process that was killed.
KillAndGoOn ==
    /\ Reaping /\ ~Gone /\ signal = "term" /\ PastKillDeadline
    /\ Goto(IF pc = "reap_kill" THEN "reap_client" ELSE "done")
    /\ signal' = "none"
    /\ UNCHANGED <<now, waited, environment, registered, events, captured, flags,
                   killDeadline, result>>

SendKill == Reaping /\ ~Gone /\ signal = "term" /\ PastKillDeadline /\ Send("kill")

\* Not even SIGKILL has ended it in time: TimeoutExpired leaves _run_attached, whatever
\* was on its way to the caller, and the other process is not reaped any more.
ReapFails ==
    /\ Reaping /\ ~Gone /\ signal = "kill" /\ PastKillDeadline
    /\ result' = "unreaped"
    /\ Goto("done")
    /\ UNCHANGED <<now, waited, environment, registered, events, captured, flags,
                   killDeadline, signal>>

\* Ctrl-C runs the finally block, or cuts it off.
Interrupt ==
    /\ \/ pc \in {"check", "select", "read", "after", "wait"} /\ Fail("interrupted")
       \/ /\ pc = "finally" \/ Reaping
          /\ result' = "interrupted" /\ Goto("done")
    /\ UNCHANGED <<now, waited, environment, registered, events, captured, flags,
                   killDeadline, signal>>

-----------------------------------------------------------------------------
Loop ==
    \/ Launch \/ CheckDeadline \/ CheckFails \/ Check \/ Select
    \/ \E s \in Streams : Read(s) \/ EndOfStream(s)
    \/ EndTurn \/ KillCannotStart \/ AfterLoop \/ WaitForClient \/ Block
    \/ Finally \/ Reaped \/ Terminate \/ SendKill \/ ReapFails

Environment ==
    \/ \E s \in Streams : Write(s)
    \/ Exit \/ ClientCloses \/ ClientExits \/ Kill \/ KillRefused
    \/ KillDies \/ ClientDies

Finished == pc = "done" /\ UNCHANGED vars

Next == Loop \/ Tick \/ Environment \/ Interrupt \/ Finished

\* The loop runs and time passes.  Nothing is assumed of the container, of its
\* client or of docker kill: any of them may hang.
Fairness == WF_vars(Loop) /\ WF_vars(Tick)

Spec == Init /\ [][Next]_vars /\ Fairness

-----------------------------------------------------------------------------
(* Properties.                                                             *)

\* A result that carries neither flag is the command's own: it ended by itself
\* and everything it wrote was captured.
NoSilentLoss ==
    result = "returned" /\ ~timedOut /\ ~outputLimited =>
        container = "exited" /\ captured = written

\* A result names one limit at most, one that was reached, and the container
\* was killed for it while it was still running.
FlagsAreTruthful ==
    result = "returned" =>
        /\ ~(timedOut /\ outputLimited)
        /\ timedOut => now >= Timeout
        /\ outputLimited => written >= MaxOutput
        /\ timedOut \/ outputLimited => container = "killed"

\* Whatever hangs, the caller waits no longer than the timeout, the longer of the
\* two grace periods, a turn for each, and the reap time twice for each process.
BoundedWait == now <= Horizon

\* A result is only returned when both processes have been seen to end, so that
\* nothing in the finally block can take it away; and whoever gets a SandboxError
\* gets it when no process of the call is left.
NoProcessSurvives ==
    \/ result = "returned"
    \/ result = "error" /\ pc = "done"
    => kill # "running" /\ client = "exited"

\* Whatever hangs, the call comes to its end.
EveryRunEnds == pc = "check" ~> pc = "done"

\* The plan, docs/plans/: "kill the named container when the deadline or
\* combined 1 MiB cap is reached, and return a structured termination result".
\* With a daemon that only refuses to kill what does not run, a limit that was
\* reached is reported in a result.
LimitsAreReported ==
    pc = "done" /\ (timedOut \/ outputLimited) => result \notin {"error", "unreaped"}
=============================================================================
