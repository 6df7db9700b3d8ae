------------------------- MODULE AttachedRunProofs -------------------------
(***************************************************************************)
(* What a caller of _run_attached may rely on, for every timeout, grace    *)
(* period and output cap, whatever the container, its client and docker    *)
(* kill do.                                                                *)
(***************************************************************************)
EXTENDS AttachedRun, TLAPS

\* The finally block is past closing the pipes, or the call is over.
Closing == Reaping \/ pc = "done"

\* A client only closes once its container has ended, until the call itself makes
\* an end of it.
ClientInv ==
    /\ client # "attached" /\ ~Closing => container # "running"
    /\ result = "returned" => container # "running"

\* A stream that is no longer read is at its end, and one that is about to be read
\* has something in it or is at its end.
StreamInv ==
    /\ \A s \in Streams \ registered : pipe[s] = 0 /\ container # "running"
    /\ pc = "read" => \A s \in events : pipe[s] > 0 \/ container # "running"
    /\ pc \in {"after", "wait"} \/ result = "returned" => registered = {}

\* A flag is a kill that was started, for one reason; a container is killed by
\* nothing else.
KillInv ==
    /\ kill # "none" <=> timedOut \/ outputLimited
    /\ ~(timedOut /\ outputLimited)
    /\ kill = "ok" => container = "killed"
    /\ container = "killed" => kill # "none"
    /\ pc = "wait" \/ result = "returned" => kill \in {"none", "ok"}

\* Nothing is invented, and without a kill nothing is dropped.
InFlight == pipe["stdout"] + pipe["stderr"]

OutputInv ==
    /\ captured + InFlight <= written
    /\ kill = "none" => captured + InFlight = written
    /\ outputLimited => written >= MaxOutput

\* The time, with the unit a wait under way may still let pass.
Due == now + IF waited THEN 1 ELSE 0

Grace == IF PostKill > Reap THEN PostKill ELSE Reap

\* When the finally block is reached, and when a process has to be reaped, at the latest.
ReapFrom == Timeout + Grace + 2 + IF pc = "reap_kill" THEN 0 ELSE Reap + Reap

\* Before a deadline for the kill or for the client is set, time is held by the
\* timeout; afterwards by that deadline.  In the finally block every signal sets a
\* deadline of its own, one reap time on.
TimeInv ==
    /\ timedOut => now >= Timeout
    /\ pc \in {"launch", "check", "select", "read", "after"} =>
          (kill = "none" <=> killDeadline = NoDeadline)
    /\ kill # "none" \/ pc = "wait" => killDeadline # NoDeadline
    /\ killDeadline = NoDeadline =>
          Due <= Timeout + IF pc = "select" THEN 0 ELSE 1
    /\ killDeadline # NoDeadline /\ ~Closing =>
          /\ killDeadline <= Timeout + Grace + 1
          /\ Due <= killDeadline + IF pc = "select" THEN 0 ELSE 1
    /\ Reaping /\ signal = "none" => Due <= ReapFrom
    /\ Reaping /\ signal # "none" =>
          /\ killDeadline # NoDeadline /\ Due <= killDeadline
          /\ killDeadline <= ReapFrom + Reap + IF signal = "term" THEN 0 ELSE Reap
    /\ pc = "done" => Due <= ReapFrom + Reap + Reap

\* What is returned was returned after the loop, and signals are sent after it.
PlaceInv ==
    /\ result # "none" => pc = "finally" \/ Closing
    /\ signal # "none" => Closing

\* A process that was seen to end, by a result or by _reap, has ended for good.
ProcessInv ==
    /\ pc = "launch" => kill = "none"
    /\ result = "returned" => kill # "running" /\ client = "exited"
    /\ pc = "reap_client" => kill # "running"
    /\ pc = "done" /\ result = "error" => kill # "running" /\ client = "exited"

Inv ==
    /\ TypeOK /\ PlaceInv /\ ClientInv /\ StreamInv /\ KillInv /\ ProcessInv
    /\ OutputInv /\ TimeInv

-----------------------------------------------------------------------------
USE BoundsAssumption DEF NoDeadline, Reaping, Closing, ReapFrom

\* The types arithmetic needs.
LEMMA Numbers ==
    ASSUME TypeOK
    PROVE /\ now \in Nat /\ killDeadline \in Nat /\ captured \in Nat /\ written \in Nat
          /\ \A s \in Streams : pipe[s] \in Nat
          /\ pipe["stdout"] \in Nat /\ pipe["stderr"] \in Nat
          /\ captured <= MaxOutput /\ written <= MaxWritten
          /\ Due \in Nat /\ Grace \in Nat /\ Grace >= PostKill /\ Grace >= Reap
          /\ Due >= now /\ Due <= now + 1
BY DEF TypeOK, Streams, Due, Grace

LEMMA InitInv == Init => Inv
<1> SUFFICES ASSUME Init PROVE Inv  OBVIOUS
<1>1. TypeOK
  <2>1. 0 \in 0..MaxWritten /\ 0 \in 0..MaxOutput  OBVIOUS
  <2>2. pipe \in [Streams -> 0..MaxWritten]  BY <2>1 DEF Init
  <2> QED  BY <2>1, <2>2 DEF Init, TypeOK
<1>2. PlaceInv /\ ClientInv /\ StreamInv /\ KillInv /\ ProcessInv
  BY DEF Init, PlaceInv, ClientInv, StreamInv, KillInv, ProcessInv
<1>3. OutputInv  BY DEF Init, OutputInv, InFlight, Streams
<1>4. TimeInv  BY DEF Init, TimeInv, Due
<1> QED  BY <1>1, <1>2, <1>3, <1>4 DEF Inv

-----------------------------------------------------------------------------
(* The processes the loop does not control, and the clock.                 *)

LEMMA WriteInv == ASSUME Inv, NEW s \in Streams, Write(s) PROVE Inv'
<1> USE DEF Inv, Write, locals, flags
<1>1. pipe[s] + 1 \in 0..MaxWritten
  BY Numbers DEF OutputInv, InFlight, Streams, TypeOK
<1>2. TypeOK'  BY <1>1 DEF TypeOK
<1>3. InFlight' = InFlight + 1  BY Numbers DEF InFlight, Streams, TypeOK
<1>4. OutputInv'  BY <1>2, <1>3, Numbers DEF OutputInv, InFlight
<1>5. StreamInv'  BY Numbers DEF StreamInv, TypeOK
<1>6. PlaceInv' /\ ClientInv' /\ KillInv' /\ ProcessInv'
  BY DEF PlaceInv, ClientInv, KillInv, ProcessInv
<1>7. TimeInv'  BY DEF TimeInv, Due
<1> QED  BY <1>2, <1>4, <1>5, <1>6, <1>7

LEMMA ContainerInv ==
    ASSUME Inv, Exit \/ ClientCloses \/ ClientExits \/ Kill \/ KillRefused \/ KillDies
                   \/ ClientDies
    PROVE Inv'
<1> USE DEF Inv
<1>1. UNCHANGED <<now, waited, written, pipe, locals>>
  BY DEF Exit, ClientCloses, ClientExits, Kill, KillRefused, KillDies, ClientDies
<1>2. /\ container' \in {"running", "exited", "killed"} /\ client' \in {"attached", "closed", "exited"}
      /\ kill' \in {"none", "running", "ok", "failed"}
      /\ kill' = "none" <=> kill = "none"
      /\ container # "running" => container' = container
      /\ client' # client => container # "running" \/ client = "closed" \/ Reaping
      /\ client = "exited" => client' = "exited"
      /\ client # "attached" => client' # "attached"
      /\ client' # "attached" => client # "attached" \/ container # "running" \/ Reaping
      /\ kill \in {"none", "ok", "failed"} => kill' = kill
      /\ kill' = "ok" => container' = "killed"
      /\ container' = "killed" => kill' # "none"
  BY DEF Exit, ClientCloses, ClientExits, Kill, KillRefused, KillDies, ClientDies, TypeOK,
         KillInv
<1> HIDE DEF Inv
<1>3. TypeOK'  BY <1>1, <1>2 DEF Inv, TypeOK, locals, flags
<1>4. ClientInv' /\ PlaceInv'  BY <1>1, <1>2 DEF Inv, TypeOK, ClientInv, PlaceInv, locals, flags
<1>5. StreamInv'  BY <1>1, <1>2 DEF Inv, TypeOK, StreamInv, locals, flags
<1>6. KillInv' /\ ProcessInv'
  BY <1>1, <1>2 DEF Inv, KillInv, ProcessInv, TypeOK, locals, flags
<1>7. OutputInv' /\ TimeInv'
  BY <1>1, <1>2 DEF Inv, OutputInv, InFlight, TimeInv, Due, locals, flags
<1> QED  BY <1>3, <1>4, <1>5, <1>6, <1>7 DEF Inv

LEMMA TickInv == ASSUME Inv, Tick PROVE Inv'
<1> USE DEF Inv, Tick, environment, locals, flags
<1>1. Due' = Due  BY Numbers DEF Due
<1>2. TypeOK'
  <2>1. now' \in Nat  BY Numbers
  <2>2. waited' \in BOOLEAN  BY Zenon
  <2>3. UNCHANGED <<container, written, pipe, client, kill, pc, registered, events,
                    captured, timedOut, outputLimited, killDeadline, signal, result>>
    OBVIOUS
  <2> HIDE DEF Inv, Tick
  <2> QED  BY <2>1, <2>2, <2>3 DEF Inv, TypeOK
<1>3. PlaceInv' /\ ClientInv' /\ StreamInv' /\ KillInv' /\ ProcessInv' /\ OutputInv'
  BY DEF PlaceInv, ClientInv, StreamInv, KillInv, ProcessInv, OutputInv, InFlight
<1>4. TimeInv'  BY <1>1, Numbers DEF TimeInv
<1> QED  BY <1>2, <1>3, <1>4

-----------------------------------------------------------------------------
(* The loop.                                                               *)

\* The steps of the loop that neither read nor set a deadline.
LEMMA LeaveInv ==
    ASSUME Inv, CheckFails \/ KillCannotStart \/ Interrupt
    PROVE Inv'
<1> USE DEF Inv
<1>1. /\ UNCHANGED <<now, waited, environment, registered, events, captured, flags,
                     killDeadline, signal>>
      /\ pc \notin {"launch", "done"}
      /\ \/ /\ result = "none" /\ ~Closing
            /\ pc' = "finally" /\ result' \in {"error", "interrupted"}
         \/ /\ pc = "finally" \/ Reaping
            /\ pc' = "done" /\ result' = "interrupted"
  BY DEF CheckFails, KillCannotStart, Interrupt, Goto, Fail, PlaceInv, TypeOK
<1>2. TypeOK'  BY <1>1 DEF TypeOK, environment, flags
<1>3. PlaceInv' /\ ClientInv' /\ StreamInv' /\ KillInv' /\ ProcessInv' /\ OutputInv'
  BY <1>1 DEF PlaceInv, ClientInv, StreamInv, KillInv, ProcessInv, OutputInv, InFlight, environment, flags
<1>4. TimeInv'  BY <1>1, Numbers DEF TimeInv, Due, environment, flags
<1> QED  BY <1>2, <1>3, <1>4

LEMMA LaunchInv == ASSUME Inv, Launch PROVE Inv'
<1> USE DEF Inv, Launch, Goto, flags
<1>1. TypeOK'  BY DEF TypeOK
<1>2. PlaceInv' /\ ClientInv' /\ StreamInv' /\ KillInv' /\ ProcessInv' /\ OutputInv'
  BY DEF PlaceInv, ClientInv, StreamInv, KillInv, ProcessInv, OutputInv, InFlight
<1>3. TimeInv'  BY Numbers DEF TimeInv, Due
<1> QED  BY <1>1, <1>2, <1>3

LEMMA CheckDeadlineInv == ASSUME Inv, CheckDeadline PROVE Inv'
<1> USE DEF Inv, CheckDeadline, StartKill, PastDeadline, flags
<1>1. TypeOK'  BY Numbers DEF TypeOK
<1>2. PlaceInv' /\ ClientInv' /\ StreamInv' /\ OutputInv'
  BY DEF PlaceInv, ClientInv, StreamInv, OutputInv, InFlight
<1>3. KillInv' /\ ProcessInv'  BY DEF KillInv, ProcessInv, PlaceInv
<1>4. TimeInv'  BY Numbers DEF TimeInv, Due
<1> QED  BY <1>1, <1>2, <1>3, <1>4

LEMMA CheckInv == ASSUME Inv, Check PROVE Inv'
<1> USE DEF Inv, Check, Goto, environment, flags
<1>1. TypeOK'  BY DEF TypeOK
<1>2. PlaceInv' /\ ClientInv' /\ StreamInv' /\ KillInv' /\ ProcessInv' /\ OutputInv'
  BY DEF PlaceInv, ClientInv, StreamInv, KillInv, ProcessInv, OutputInv, InFlight
<1>3. TimeInv'  BY Numbers DEF TimeInv, Due, PastDeadline, PastKillDeadline
<1> QED  BY <1>1, <1>2, <1>3

LEMMA SelectInv == ASSUME Inv, Select PROVE Inv'
<1> USE DEF Inv, Select, Goto, environment, flags
<1>1. TypeOK'  BY DEF TypeOK
<1>2. PlaceInv' /\ ClientInv' /\ KillInv' /\ ProcessInv' /\ OutputInv'
  BY DEF PlaceInv, ClientInv, KillInv, ProcessInv, OutputInv, InFlight
<1>3. StreamInv'  BY DEF StreamInv, Ended, ClientInv, PlaceInv
<1>4. TimeInv'  BY Numbers DEF TimeInv, Due
<1> QED  BY <1>1, <1>2, <1>3, <1>4

\* The stream is emptied; what is kept is what it held, unless the cap is reached.
LEMMA ReadInv == ASSUME Inv, NEW s \in Streams, Read(s) PROVE Inv'
<1> USE DEF Inv, flags
<1>1. /\ Kept(s) \in Nat /\ Kept(s) <= pipe[s] /\ captured + Kept(s) <= MaxOutput
      /\ captured + Kept(s) < MaxOutput => Kept(s) = pipe[s]
  BY Numbers DEF Kept
<1>2. /\ pc = "read" /\ s \in events /\ events' = events \ {s}
      /\ captured' = captured + Kept(s) /\ pipe' = [pipe EXCEPT ![s] = 0]
      /\ UNCHANGED <<now, waited, container, written, client, pc, registered,
                     timedOut, signal, result>>
      /\ \/ /\ captured' >= MaxOutput /\ kill = "none" /\ outputLimited' = TRUE
            /\ kill' = "running" /\ killDeadline' = now + PostKill
         \/ /\ captured' < MaxOutput \/ kill # "none"
            /\ UNCHANGED <<outputLimited, kill, killDeadline>>
  <2>1. captured' \in Nat  BY <1>1, Numbers DEF Read
  <2> QED  BY <2>1 DEF Read, CapReached, StartKill
<1>3. InFlight' = InFlight - pipe[s] /\ InFlight \in Nat /\ pipe[s] <= InFlight
  BY <1>2, Numbers DEF InFlight, Streams, TypeOK
<1>4. TypeOK'
  <2>1. captured' \in 0..MaxOutput /\ killDeadline' \in Nat  BY <1>1, <1>2, Numbers
  <2>2. pipe' \in [Streams -> 0..MaxWritten]  BY <1>2, Numbers DEF TypeOK
  <2>3. outputLimited' \in BOOLEAN /\ kill' \in {"none", "running", "ok", "failed"}
    BY <1>2 DEF TypeOK
  <2> HIDE DEF Inv, flags
  <2> QED  BY <1>2, <2>1, <2>2, <2>3 DEF Inv, TypeOK
<1>5. PlaceInv' /\ ClientInv' /\ KillInv' /\ ProcessInv'
  BY <1>2 DEF PlaceInv, ClientInv, KillInv, ProcessInv
<1>6. StreamInv'  BY <1>2 DEF StreamInv, TypeOK
<1>7. OutputInv'  BY <1>1, <1>2, <1>3, Numbers DEF OutputInv, KillInv
<1>8. TimeInv'  BY <1>2, Numbers DEF TimeInv, Due
<1> QED  BY <1>4, <1>5, <1>6, <1>7, <1>8

LEMMA EndOfStreamInv == ASSUME Inv, NEW s \in Streams, EndOfStream(s) PROVE Inv'
<1> USE DEF Inv, EndOfStream, environment, flags
<1>1. TypeOK'  BY DEF TypeOK
<1>2. PlaceInv' /\ ClientInv' /\ KillInv' /\ ProcessInv' /\ OutputInv' /\ TimeInv'
  BY DEF PlaceInv, ClientInv, KillInv, ProcessInv, OutputInv, InFlight, TimeInv, Due
<1>3. container # "running"  BY DEF StreamInv
<1>4. StreamInv'  BY <1>3 DEF StreamInv
<1> QED  BY <1>1, <1>2, <1>4

LEMMA EndTurnInv == ASSUME Inv, EndTurn PROVE Inv'
<1> USE DEF Inv, EndTurn, Goto, environment, flags
<1>1. TypeOK'  BY DEF TypeOK
<1>2. PlaceInv' /\ ClientInv' /\ StreamInv' /\ KillInv' /\ ProcessInv' /\ OutputInv'
  BY DEF PlaceInv, ClientInv, StreamInv, KillInv, ProcessInv, OutputInv, InFlight
<1>3. TimeInv'  BY DEF TimeInv, Due
<1> QED  BY <1>1, <1>2, <1>3

-----------------------------------------------------------------------------
(* After the loop.                                                         *)

LEMMA AfterLoopInv == ASSUME Inv, AfterLoop PROVE Inv'
<1> USE DEF Inv, AfterLoop, Fail, Goto, environment, flags
<1>1. /\ result' \in {result, "error"} /\ pc' \in {"finally", "wait"}
      /\ pc' = "wait" => kill \in {"none", "ok"} /\ result' = result
      /\ pc = "after" /\ result = "none"
  BY DEF TypeOK, PlaceInv
<1>2. TypeOK'  BY <1>1, Numbers DEF TypeOK
<1>3. PlaceInv' /\ ClientInv' /\ StreamInv' /\ KillInv' /\ ProcessInv' /\ OutputInv'
  BY <1>1 DEF PlaceInv, ClientInv, StreamInv, KillInv, ProcessInv, OutputInv, InFlight
<1>4. TimeInv'  BY <1>1, Numbers DEF TimeInv, Due
<1> QED  BY <1>2, <1>3, <1>4

LEMMA WaitForClientInv == ASSUME Inv, WaitForClient PROVE Inv'
<1> USE DEF Inv, WaitForClient, Fail, Goto, environment, flags
<1>1. TypeOK'  BY DEF TypeOK
<1>2. PlaceInv' /\ ClientInv' /\ StreamInv' /\ KillInv' /\ ProcessInv' /\ OutputInv'
  BY DEF PlaceInv, ClientInv, StreamInv, KillInv, ProcessInv, OutputInv, InFlight
<1>3. TimeInv'  BY DEF TimeInv, Due
<1> QED  BY <1>1, <1>2, <1>3

LEMMA BlockInv == ASSUME Inv, Block PROVE Inv'
<1> USE DEF Inv, Block, environment, locals, flags
<1>1. TypeOK'  BY DEF TypeOK
<1>2. PlaceInv' /\ ClientInv' /\ StreamInv' /\ KillInv' /\ ProcessInv' /\ OutputInv'
  BY DEF PlaceInv, ClientInv, StreamInv, KillInv, ProcessInv, OutputInv, InFlight
<1>3. TimeInv'  BY Numbers DEF TimeInv, Due, PastKillDeadline
<1> QED  BY <1>1, <1>2, <1>3

-----------------------------------------------------------------------------
(* The finally block.                                                      *)

LEMMA FinallyInv == ASSUME Inv, Finally PROVE Inv'
<1> USE DEF Inv, Finally, Goto, environment, flags
<1>1. TypeOK'  BY DEF TypeOK
<1>2. PlaceInv' /\ ClientInv' /\ StreamInv' /\ KillInv' /\ ProcessInv' /\ OutputInv'
  BY DEF PlaceInv, ClientInv, StreamInv, KillInv, ProcessInv, OutputInv, InFlight
<1>3. signal = "none"  BY DEF PlaceInv
<1>4. TimeInv'  BY <1>3, Numbers DEF TimeInv, Due
<1> QED  BY <1>1, <1>2, <1>4

\* A reaped process is not waited for any longer.
LEMMA ReapedInv == ASSUME Inv, Reaped PROVE Inv'
<1> USE DEF Inv, Reaped, Gone, Goto, environment, flags
<1>1. TypeOK'  BY DEF TypeOK
<1>2. PlaceInv' /\ ClientInv' /\ StreamInv' /\ KillInv' /\ ProcessInv' /\ OutputInv'
  BY DEF PlaceInv, ClientInv, StreamInv, KillInv, ProcessInv, OutputInv, InFlight
<1>3. TimeInv'  BY Numbers DEF TimeInv, Due, TypeOK
<1> QED  BY <1>1, <1>2, <1>3

\* Each signal is sent when the wait before it is over, and starts a new one.
LEMMA SignalInv == ASSUME Inv, Terminate \/ SendKill PROVE Inv'
<1> USE DEF Inv, environment, flags
<1>1. /\ Reaping /\ signal' \in {"term", "kill"}
      /\ signal' = "term" => signal = "none"
      /\ signal' = "kill" => signal = "term" /\ now >= killDeadline
      /\ killDeadline' = now + Reap
      /\ UNCHANGED <<now, waited, environment, pc, registered, events, captured, flags,
                     result>>
  BY DEF Terminate, SendKill, Send, PastKillDeadline
<1>2. TypeOK'  BY <1>1, Numbers DEF TypeOK
<1>3. PlaceInv' /\ ClientInv' /\ StreamInv' /\ KillInv' /\ ProcessInv' /\ OutputInv'
  BY <1>1 DEF PlaceInv, ClientInv, StreamInv, KillInv, ProcessInv, OutputInv, InFlight
<1>4. TimeInv'  BY <1>1, Numbers DEF TimeInv, Due
<1> QED  BY <1>2, <1>3, <1>4

\* A result is never what reaping fails with: its processes have ended.
LEMMA ReapFailsInv == ASSUME Inv, ReapFails PROVE Inv'
<1> USE DEF Inv, ReapFails, Goto, environment, flags
<1>1. TypeOK'  BY DEF TypeOK
<1>2. PlaceInv' /\ ClientInv' /\ StreamInv' /\ KillInv' /\ ProcessInv' /\ OutputInv'
  BY DEF PlaceInv, ClientInv, StreamInv, KillInv, ProcessInv, OutputInv, InFlight
<1>3. TimeInv'  BY Numbers DEF TimeInv, Due
<1> QED  BY <1>1, <1>2, <1>3

LEMMA StutterInv == ASSUME Inv, UNCHANGED vars PROVE Inv'
<1> USE DEF vars, environment, locals, flags
<1>1. TypeOK'  BY DEF Inv, TypeOK
<1>2. PlaceInv' /\ ClientInv' /\ StreamInv' /\ KillInv' /\ ProcessInv'
  BY DEF Inv, PlaceInv, ClientInv, StreamInv, KillInv, ProcessInv
<1>3. OutputInv' /\ TimeInv'  BY DEF Inv, OutputInv, InFlight, TimeInv, Due
<1> QED  BY <1>1, <1>2, <1>3 DEF Inv

-----------------------------------------------------------------------------
\* Every step keeps the invariant.
LEMMA Inductive == Inv /\ [Next]_vars => Inv'
<1> SUFFICES ASSUME Inv, [Next]_vars PROVE Inv'  OBVIOUS
<1>1. CASE Loop
  BY <1>1, LaunchInv, LeaveInv, CheckDeadlineInv, CheckInv, SelectInv, ReadInv, EndOfStreamInv,
     EndTurnInv, AfterLoopInv, WaitForClientInv, BlockInv, FinallyInv,
     ReapedInv, SignalInv, ReapFailsInv DEF Loop
<1>2. CASE Environment  BY <1>2, WriteInv, ContainerInv DEF Environment
<1>3. CASE Interrupt  BY <1>3, LeaveInv
<1>4. CASE Tick  BY <1>4, TickInv
<1>5. CASE UNCHANGED vars  BY <1>5, StutterInv
<1> QED  BY <1>1, <1>2, <1>3, <1>4, <1>5 DEF Next, Finished

LEMMA Invariance == Spec => []Inv
<1>1. Init => Inv  BY InitInv
<1>2. Inv /\ [Next]_vars => Inv'  BY Inductive
<1> QED  BY <1>1, <1>2, PTL DEF Spec

\* Every variable of the loop keeps its type; among other things it never keeps more
\* than the cap.
THEOREM TypeCorrect == Spec => []TypeOK
<1>1. Inv => TypeOK  BY DEF Inv
<1> QED  BY <1>1, Invariance, PTL

\* A result without flags is the command's own, with all of its output: without a
\* kill nothing is dropped, and at the end of both streams nothing is on its way.
THEOREM NothingLost == Spec => []NoSilentLoss
<1>1. Inv => NoSilentLoss
  <2> SUFFICES ASSUME Inv, result = "returned", ~timedOut, ~outputLimited
               PROVE container = "exited" /\ captured = written
    BY DEF NoSilentLoss
  <2>1. kill = "none" /\ container = "exited"
    BY DEF Inv, KillInv, ClientInv, TypeOK
  <2>2. InFlight = 0  BY DEF Inv, StreamInv, InFlight, Streams
  <2>3. captured = written  BY <2>1, <2>2, Numbers DEF Inv, OutputInv
  <2> QED  BY <2>1, <2>3
<1> QED  BY <1>1, Invariance, PTL

\* A result names at most one limit, one that was reached, and the container was
\* killed for it.
THEOREM FlagsTruthful == Spec => []FlagsAreTruthful
<1>1. Inv => FlagsAreTruthful
  BY DEF Inv, FlagsAreTruthful, KillInv, OutputInv, TimeInv
<1> QED  BY <1>1, Invariance, PTL

\* Whatever hangs, the caller waits no longer than the timeout, the longer grace
\* period, a turn for each, and the reap time twice for each of its two processes.
THEOREM WaitBounded == Spec => []BoundedWait
<1>1. Inv => BoundedWait
  <2> SUFFICES ASSUME Inv PROVE now <= Horizon  BY DEF BoundedWait
  <2>1. Horizon = Timeout + Grace + 2 + 4 * Reap  BY DEF Horizon, Grace
  <2>2. now <= Timeout + Grace + 2 + Reap + Reap + Reap + Reap
    BY Numbers DEF Inv, TimeInv
  <2> QED  BY <2>1, <2>2, Numbers DEF Inv
<1> QED  BY <1>1, Invariance, PTL

\* Whoever gets a result or a SandboxError gets it when docker kill and the client are
\* gone; so a result is not among the things an expired wait in _reap can replace.
THEOREM NothingSurvives == Spec => []NoProcessSurvives
<1>1. Inv => NoProcessSurvives  BY DEF Inv, ProcessInv, NoProcessSurvives
<1> QED  BY <1>1, Invariance, PTL
=============================================================================
