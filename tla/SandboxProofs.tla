--------------------------- MODULE SandboxProofs ---------------------------
(***************************************************************************)
(* What Sandbox promises for any number of calls that compete for the same *)
(* names, whatever commands fail, hang or are carried out late.  That a    *)
(* call is alone while it runs, and that it takes nothing from others,     *)
(* holds when nobody removes the calls' resources but the calls; what a    *)
(* caller is told holds whether an operator does that or not.              *)
(***************************************************************************)
EXTENDS Sandbox, FiniteSetTheorems, TLAPS

-----------------------------------------------------------------------------
(* The inductive invariant.                                                *)

Setup     == {"create", "salvage", "verify", "start", "attach"}
Unwinding == {"cleanup", "remove"}

\* The names the call has gone through when it comes to n.
Before(n) == {m \in Names : Rank(m) < Rank(n)}

\* A creation the daemon has still to carry out is one the call gave up on, and
\* no part of what it owns; a removal is one that was given up on.
LateInv(c) ==
    \A n \in Names :
        /\ <<c, n>> \in creating =>
              /\ holder[n] # c /\ n \notin owned[c]
              /\ pc[c] \in {"salvage"} \cup Unwinding \cup Ended
              /\ pc[c] = "salvage" => n = cur[c]
              /\ primary[c] # "none" \/ pc[c] = "dead"
        /\ <<c, n>> \in removing =>
              /\ pc[c] \in Unwinding \cup Ended
              /\ n \notin todo[c] \/ pc[c] = "dead"

\* Until it unwinds a call owns, of the names in their order, the ones it has
\* gone through.  They carry its label, if no operator has removed them, and the
\* names to come do not.
SetupInv(c) ==
    /\ pc[c] = "idle" => cur[c] = "volume"
    /\ pc[c] \in {"idle", "create", "salvage", "verify"} => owned[c] = Before(cur[c])
    /\ pc[c] = "start" => cur[c] = "relay" /\ owned[c] = {"volume", "relay"}
    /\ pc[c] = "attach" => owned[c] = Names
    /\ pc[c] \in Setup /\ ~OperatorActs => \A n \in owned[c] : holder[n] = c
    /\ pc[c] \in Setup \cup {"idle"} =>
          /\ todo[c] = {} /\ errors[c] = {}
          /\ primary[c] = "none" <=> pc[c] # "salvage"
          /\ \A n \in Names \ owned[c] :
                holder[n] = c => n = cur[c] /\ pc[c] \in {"salvage", "verify"}

\* What the cleanup loop has passed without an error is gone.
UnwindInv(c) ==
    /\ pc[c] = "remove" =>
          /\ cur[c] \in todo[c]
          /\ ~OperatorActs => holder[cur[c]] = c
    /\ pc[c] \in Unwinding \cup {"done"} =>
          \A n \in owned[c] : holder[n] = c => n \in todo[c] \cup errors[c]
    /\ pc[c] \in Unwinding /\ primary[c] = "none" => owned[c] = Names
    /\ pc[c] = "done" => todo[c] = {}
    /\ outcome[c] = "result" =>
          /\ pc[c] = "done" /\ owned[c] = Names
          /\ primary[c] = "none" /\ errors[c] = {}

Inv == TypeOK /\ \A c \in Calls : LateInv(c) /\ SetupInv(c) /\ UnwindInv(c)

OwnStep(c) == Step(c) \/ CutShort(c) \/ Crash(c)

-----------------------------------------------------------------------------
(* Who may change what.                                                    *)

\* Carrying out a creation takes no resource from anyone and gives its name to
\* nobody but the one who asked.
LEMMA CreatedKeeps ==
    ASSUME NEW c \in Calls, NEW n \in Names, holder \in [Names -> Holders]
    PROVE  /\ Created(c, n) \in [Names -> Holders]
           /\ \A q \in Calls, m \in Names : holder[m] = q => Created(c, n)[m] = q
           /\ \A q \in Calls, m \in Names :
                 Created(c, n)[m] = q => holder[m] = q \/ (q = c /\ m = n)
           /\ holder[n] = NoOne => Created(c, n)[n] = c
<1>1. ASSUME NEW m \in Names
      PROVE  \/ Created(c, n)[m] = holder[m]
             \/ holder[m] = NoOne /\ m = n /\ Created(c, n)[m] = c
             \/ holder[m] = NoOne /\ Created(c, n)[m] = Stranger
    BY <1>1 DEF Created
<1>2. Created(c, n) \in [Names -> Holders]
  <2>1. \A m \in Names : Created(c, n)[m] \in Holders
    BY <1>1 DEF Holders
  <2>2. Created(c, n) = [m \in Names |-> Created(c, n)[m]]
    BY DEF Created
  <2> QED  BY <2>1, <2>2
<1>3. holder[n] = NoOne => Created(c, n)[n] = c
    BY DEF Created
<1>4. ASSUME NEW q \in Calls, NEW m \in Names
      PROVE  /\ holder[m] = q => Created(c, n)[m] = q
             /\ Created(c, n)[m] = q => holder[m] = q \/ (q = c /\ m = n)
  <2>1. q # NoOne /\ q # Stranger
    BY HoldersAssumption
  <2>2. \/ Created(c, n)[m] = holder[m]
        \/ holder[m] = NoOne /\ m = n /\ Created(c, n)[m] = c
        \/ holder[m] = NoOne /\ Created(c, n)[m] = Stranger
    BY <1>1
  <2> QED  BY <2>1, <2>2
<1> QED  BY <1>2, <1>3, <1>4

OthersKept(q) ==
    /\ pc'[q] = pc[q] /\ cur'[q] = cur[q] /\ owned'[q] = owned[q]
    /\ todo'[q] = todo[q] /\ errors'[q] = errors[q]
    /\ primary'[q] = primary[q] /\ outcome'[q] = outcome[q]
    /\ \A n \in Names :
          /\ holder'[n] = q => holder[n] = q
          /\ ~OperatorActs => (holder[n] = q => holder'[n] = q)
          /\ <<q, n>> \in creating' <=> <<q, n>> \in creating
          /\ <<q, n>> \in removing' <=> <<q, n>> \in removing

\* A step of one call changes nothing of another, in the daemon neither; only
\* after an operator's removal can it take a resource of another call.
LEMMA OthersKeep ==
    ASSUME Inv, NEW c \in Calls, OwnStep(c), NEW q \in Calls \ {c}
    PROVE  OthersKept(q)
<1> USE DEF TypeOK, Goto, ToCleanup, NextResource, OthersKept, daemon, locals
<1>0. TypeOK /\ (pc[c] = "remove" /\ ~OperatorActs => holder[cur[c]] = c)
    BY DEF Inv, UnwindInv
<1>1. CASE Begin(c) \/ BeginFails(c)
    BY <1>0, <1>1 DEF Begin, BeginFails
<1>2. CASE Create(c)
    BY <1>0, <1>2, CreatedKeeps DEF Create
<1>3. CASE \E e \in Errors : CreateFails(c, e)
    BY <1>0, <1>3 DEF CreateFails
<1>4. CASE Salvage(c) \/ \E e \in Errors : SalvageFails(c, e)
    BY <1>0, <1>4 DEF Salvage, SalvageFails
<1>5. CASE Verify(c) \/ StartRelay(c)
    BY <1>0, <1>5 DEF Verify, StartRelay
<1>6. CASE \E e \in Errors : VerifyFails(c, e) \/ StartFails(c, e) \/ Attached(c, e)
    BY <1>0, <1>6 DEF VerifyFails, StartFails, Attached
<1>7. CASE CheckOwner(c) \/ CheckFails(c)
    BY <1>0, <1>7 DEF CheckOwner, CheckFails
<1>8. CASE Remove(c)
    BY <1>0, <1>8, HoldersAssumption DEF Remove
<1>9. CASE RemoveFails(c) \/ Finish(c)
    BY <1>0, <1>9 DEF RemoveFails, Finish
<1>10. CASE CutShort(c)
    BY <1>0, <1>10 DEF CutShort
<1>11. CASE Crash(c)
    BY <1>0, <1>11 DEF Crash
<1> QED
    BY <1>1, <1>2, <1>3, <1>4, <1>5, <1>6, <1>7, <1>8, <1>9, <1>10, <1>11
       DEF OwnStep, Step

\* The rest of the world touches no call, takes nothing that carries a call's
\* label but by a removal the call asked for or an operator's, and gives a call
\* only what it asked for.
CallsKept ==
    /\ UNCHANGED <<pc, cur, owned, todo, errors, primary, outcome>>
    /\ holder' \in [Names -> Holders]
    /\ creating' \subseteq creating /\ removing' \subseteq removing
    /\ \A q \in Calls, n \in Names :
          /\ holder[n] = q => holder'[n] = q \/ <<q, n>> \in removing \/ OperatorActs
          /\ holder'[n] = q => holder[n] = q \/ <<q, n>> \in creating \ creating'

LEMMA EnvironmentKeeps ==
    ASSUME Inv, Environment PROVE CallsKept
<1> USE DEF locals
<1>0. holder \in [Names -> Holders]
    BY DEF Inv, TypeOK
<1>1. ASSUME NEW c \in Calls, NEW n \in Names, CreateLands(c, n) PROVE CallsKept
  <2>1. CASE holder' = holder
    BY <1>0, <1>1, <2>1 DEF CreateLands, CallsKept
  <2>2. CASE holder' = Created(c, n)
    <3>1. /\ UNCHANGED <<pc, cur, owned, todo, errors, primary, outcome>>
          /\ creating' = creating \ {<<c, n>>} /\ removing' = removing
          /\ <<c, n>> \in creating
      BY <1>1 DEF CreateLands
    <3>2. ASSUME NEW q \in Calls, NEW m \in Names
          PROVE  /\ holder[m] = q => holder'[m] = q
                 /\ holder'[m] = q => holder[m] = q \/ <<q, m>> \in creating \ creating'
      BY <1>0, <2>2, <3>1, CreatedKeeps
    <3>3. holder' \in [Names -> Holders]
      BY <1>0, <2>2, CreatedKeeps
    <3> QED  BY <3>1, <3>2, <3>3 DEF CallsKept
  <2> QED  BY <1>1, <2>1, <2>2 DEF CreateLands
<1>2. ASSUME NEW c \in Calls, NEW n \in Names, RemoveLands(c, n) PROVE CallsKept
    BY <1>0, <1>2, HoldersAssumption DEF RemoveLands, CallsKept, Holders
<1>3. ASSUME NEW n \in Names,
             StrangerCreates(n) \/ StrangerRemoves(n) \/ OperatorRemoves(n)
      PROVE  CallsKept
    BY <1>0, <1>3, HoldersAssumption
       DEF StrangerCreates, StrangerRemoves, OperatorRemoves, CallsKept, Holders
<1> QED  BY <1>1, <1>2, <1>3 DEF Environment

LEMMA EnvironmentInv ==
    ASSUME Inv, Environment PROVE Inv'
<1>0. CallsKept
    BY EnvironmentKeeps
<1>1. TypeOK'
  <2>1. TypeOK
    BY DEF Inv
  <2> QED  BY <1>0, <2>1 DEF TypeOK, CallsKept
<1>2. ASSUME NEW c \in Calls PROVE LateInv(c)'
  <2>1. LateInv(c)
    BY DEF Inv
  <2> QED  BY <1>0, <2>1 DEF LateInv, CallsKept
<1>3. ASSUME NEW c \in Calls PROVE SetupInv(c)'
  <2>1. SetupInv(c) /\ LateInv(c) /\ owned[c] \subseteq Names
    BY DEF Inv, TypeOK
  <2>2. pc[c] \in Setup /\ ~OperatorActs => \A n \in owned[c] : holder'[n] = c
    BY <1>0, <2>1 DEF SetupInv, LateInv, Setup, Unwinding, Ended, CallsKept
  <2>3. pc[c] \in Setup \cup {"idle"} => \A n \in Names \ owned[c] :
            holder'[n] = c => n = cur[c] /\ pc[c] \in {"salvage", "verify"}
    BY <1>0, <2>1 DEF SetupInv, LateInv, Setup, Unwinding, Ended, CallsKept
  <2> QED  BY <1>0, <2>1, <2>2, <2>3 DEF SetupInv, CallsKept
<1>4. ASSUME NEW c \in Calls PROVE UnwindInv(c)'
  <2>1. /\ UnwindInv(c) /\ LateInv(c)
        /\ cur[c] \in Names /\ owned[c] \subseteq Names
    BY DEF Inv, TypeOK
  <2>2. pc[c] = "remove" => <<c, cur[c]>> \notin removing
    BY <2>1 DEF LateInv, UnwindInv
  <2>3. \A n \in owned[c] : holder'[n] = c => holder[n] = c
    BY <1>0, <2>1 DEF LateInv, CallsKept
  <2> QED  BY <1>0, <2>1, <2>2, <2>3 DEF UnwindInv, CallsKept
<1> QED  BY <1>1, <1>2, <1>3, <1>4 DEF Inv

\* One call's step keeps the invariant of the others.
LEMMA OthersInv ==
    ASSUME Inv, NEW c \in Calls, OwnStep(c), NEW q \in Calls \ {c}
    PROVE  LateInv(q)' /\ SetupInv(q)' /\ UnwindInv(q)'
<1>0. OthersKept(q)
    BY OthersKeep
<1>1. /\ LateInv(q) /\ SetupInv(q) /\ UnwindInv(q)
      /\ owned[q] \subseteq Names /\ cur[q] \in Names
    BY DEF Inv, TypeOK
<1>2. SetupInv(q)'
    BY <1>0, <1>1 DEF SetupInv, OthersKept
<1>3. UnwindInv(q)'
    BY <1>0, <1>1 DEF UnwindInv, OthersKept
<1>4. LateInv(q)'
    BY <1>0, <1>1 DEF LateInv, OthersKept
<1> QED  BY <1>2, <1>3, <1>4

-----------------------------------------------------------------------------
(* A call's own step.                                                      *)

LEMMA OwnType ==
    ASSUME Inv, NEW c \in Calls, OwnStep(c) PROVE TypeOK'
<1> USE DEF TypeOK, Goto, ToCleanup, NextResource, Places, Errors, Outcomes, daemon, locals
<1>0. TypeOK /\ (pc[c] \in Setup => errors[c] = {})
    BY DEF Inv, SetupInv
<1> USE DEF Setup
<1>1. CASE Begin(c) \/ BeginFails(c)
    BY <1>0, <1>1 DEF Begin, BeginFails
<1>2. CASE Create(c)
    BY <1>0, <1>2, CreatedKeeps DEF Create
<1>3. CASE \E e \in Errors : CreateFails(c, e)
    BY <1>0, <1>3 DEF CreateFails
<1>4. CASE Salvage(c) \/ \E e \in Errors : SalvageFails(c, e)
    BY <1>0, <1>4 DEF Salvage, SalvageFails
<1>5. CASE Verify(c) \/ StartRelay(c)
    BY <1>0, <1>5 DEF Verify, StartRelay, AfterVerify, Names
<1>6. CASE \E e \in Errors : VerifyFails(c, e) \/ StartFails(c, e) \/ Attached(c, e)
    BY <1>0, <1>6 DEF VerifyFails, StartFails, Attached
<1>7. CASE CheckOwner(c) \/ CheckFails(c)
    BY <1>0, <1>7 DEF CheckOwner, CheckFails, IsNext
<1>8. CASE Remove(c) \/ RemoveFails(c)
  <2>1. cur[c] \in owned[c]
    BY <1>0, <1>8 DEF Inv, UnwindInv, Remove, RemoveFails
  <2> QED  BY <1>0, <1>8, <2>1 DEF Remove, RemoveFails, Holders
<1>9. CASE Finish(c)
    BY <1>0, <1>9 DEF Finish, Verdict
<1>10. CASE CutShort(c)
    BY <1>0, <1>10 DEF CutShort
<1>11. CASE Crash(c)
    BY <1>0, <1>11 DEF Crash
<1> QED
    BY <1>1, <1>2, <1>3, <1>4, <1>5, <1>6, <1>7, <1>8, <1>9, <1>10, <1>11
       DEF OwnStep, Step

LEMMA OwnInv ==
    ASSUME Inv, NEW c \in Calls, OwnStep(c)
    PROVE  LateInv(c)' /\ SetupInv(c)' /\ UnwindInv(c)'
<1> USE DEF TypeOK, LateInv, SetupInv, UnwindInv, Goto, Setup, Unwinding, Ended, Names,
            Before, Rank, daemon, locals
<1>0. TypeOK /\ LateInv(c) /\ SetupInv(c) /\ UnwindInv(c)
    BY DEF Inv
<1>1. CASE Begin(c) \/ BeginFails(c)
    BY <1>0, <1>1 DEF Begin, BeginFails, Errors
<1>2. CASE Create(c)
  <2>1. /\ pc[c] = "create" /\ pc' = [pc EXCEPT ![c] = "verify"]
        /\ holder' = Created(c, cur[c])
        /\ UNCHANGED <<creating, removing, cur, owned, todo, errors, primary, outcome>>
    BY <1>2 DEF Create
  <2>2. ASSUME NEW n \in Names
        PROVE  /\ holder[n] = c => holder'[n] = c
               /\ holder'[n] = c => holder[n] = c \/ n = cur[c]
    BY <1>0, <2>1, CreatedKeeps
  <2> QED  BY <1>0, <2>1, <2>2
<1>3. CASE \E e \in Errors \ {"none"} : CreateFails(c, e)
    BY <1>0, <1>3 DEF CreateFails
<1>4. CASE Salvage(c) \/ \E e \in Errors \ {"none"} : SalvageFails(c, e)
    BY <1>0, <1>4 DEF Salvage, SalvageFails, ToCleanup
<1>5. CASE Verify(c)
    BY <1>0, <1>5 DEF Verify, AfterVerify
<1>6. CASE StartRelay(c)
    BY <1>0, <1>6 DEF StartRelay
<1>7. CASE \E e \in Errors \ {"none"} : VerifyFails(c, e) \/ StartFails(c, e)
    BY <1>0, <1>7 DEF VerifyFails, StartFails, ToCleanup
<1>8. CASE \E e \in Errors : Attached(c, e)
    BY <1>0, <1>8 DEF Attached, ToCleanup
<1>9. CASE CheckOwner(c)
    BY <1>0, <1>9 DEF CheckOwner, IsNext
<1>10. CASE CheckFails(c)
    BY <1>0, <1>10, HoldersAssumption DEF CheckFails, NextResource
<1>11. CASE Remove(c)
    BY <1>0, <1>11, HoldersAssumption DEF Remove, NextResource
<1>12. CASE RemoveFails(c)
    BY <1>0, <1>12 DEF RemoveFails, NextResource
<1>13. CASE Finish(c)
    BY <1>0, <1>13 DEF Finish, Verdict, Errors
<1>14. CASE CutShort(c)
    BY <1>0, <1>14 DEF CutShort
<1>15. CASE Crash(c)
    BY <1>0, <1>15 DEF Crash
<1> QED
    BY <1>1, <1>2, <1>3, <1>4, <1>5, <1>6, <1>7, <1>8, <1>9, <1>10, <1>11, <1>12,
       <1>13, <1>14, <1>15 DEF OwnStep, Step

-----------------------------------------------------------------------------
(* The theorems.                                                           *)

LEMMA InitInv == Init => Inv
<1> SUFFICES ASSUME Init PROVE Inv
    OBVIOUS
<1>1. TypeOK
    BY DEF Init, TypeOK, Holders, Names, Places, Errors, Outcomes
<1>2. ASSUME NEW c \in Calls PROVE LateInv(c) /\ SetupInv(c) /\ UnwindInv(c)
    BY HoldersAssumption DEF Init, LateInv, SetupInv, UnwindInv, Before, Rank, Names,
       Setup, Unwinding
<1> QED  BY <1>1, <1>2 DEF Inv

LEMMA NextInv == Inv /\ [Next]_vars => Inv'
<1>1. ASSUME Inv, NEW c \in Calls, OwnStep(c) PROVE Inv'
  <2>1. ASSUME NEW q \in Calls PROVE LateInv(q)' /\ SetupInv(q)' /\ UnwindInv(q)'
    BY <1>1, OwnInv, OthersInv
  <2> QED  BY <1>1, <2>1, OwnType DEF Inv
<1>2. ASSUME Inv, UNCHANGED vars PROVE Inv'
    BY <1>2 DEF Inv, TypeOK, LateInv, SetupInv, UnwindInv, vars, daemon, locals
<1> QED  BY <1>1, <1>2, EnvironmentInv DEF Next, Finished, OwnStep

LEMMA Invariant == Spec => []Inv
BY InitInv, NextInv, PTL DEF Spec

\* TypeOK is an invariant: what the cleanup loop has to do or reports is owned.
THEOREM TypeCorrect == Spec => []TypeOK
<1>1. Inv => TypeOK
    BY DEF Inv
<1> QED  BY <1>1, Invariant, PTL

\* RunsOnItsOwn: whoever competes for the names, a command runs only when all
\* three resources carry its call's label.
THEOREM RunsAlone == ASSUME ~OperatorActs PROVE Spec => []RunsOnItsOwn
<1>1. Inv => RunsOnItsOwn
    BY DEF Inv, SetupInv, Setup, RunsOnItsOwn
<1> QED  BY <1>1, Invariant, PTL

\* ResultLeavesNothing: a call that returns a result has nothing left in Docker
\* and nothing still to come.
THEOREM ResultIsClean == Spec => []ResultLeavesNothing
<1>1. Inv => ResultLeavesNothing
    BY DEF Inv, LateInv, UnwindInv, ResultLeavesNothing
<1> QED  BY <1>1, Invariant, PTL

\* LeftoversAreReported: an owned resource that outlives its call is reported.
THEOREM LeftoversReported == Spec => []LeftoversAreReported
<1>1. Inv => LeftoversAreReported
    BY DEF Inv, UnwindInv, LeftoversAreReported, TypeOK
<1> QED  BY <1>1, Invariant, PTL

\* OthersSurvive: the removal by name takes only what carries the call's label.
THEOREM OthersAreSpared == ASSUME ~OperatorActs PROVE Spec => OthersSurvive
<1>1. ASSUME Inv, NEW c \in Calls, OwnStep(c), NEW q \in Calls, NEW n \in Names
      PROVE  SparesOthers(q, n)
  <2>1. CASE q = c
    <3>1. CASE Remove(c)
      BY <1>1, <2>1, <3>1 DEF Inv, TypeOK, UnwindInv, Remove, SparesOthers
    <3>2. CASE ~Remove(c)
      <4>1. pc[c] = "remove" => holder' = holder
        BY <1>1, <3>2 DEF OwnStep, Step, Begin, BeginFails, Create, Salvage, Verify,
           CreateFails, SalvageFails, VerifyFails, StartFails, StartRelay, Attached,
           CheckOwner, CheckFails, RemoveFails, Finish, CutShort, Crash, daemon
      <4> QED  BY <2>1, <4>1 DEF SparesOthers
    <3> QED  BY <3>1, <3>2
  <2>2. CASE q # c
    BY <1>1, <2>2, OthersKeep DEF OthersKept, SparesOthers
  <2> QED  BY <2>1, <2>2
<1>2. ASSUME Inv, Environment, NEW q \in Calls, NEW n \in Names
      PROVE  SparesOthers(q, n)
    BY <1>2, EnvironmentKeeps DEF CallsKept, SparesOthers
<1>3. Inv /\ [Next]_vars => [\A c \in Calls, n \in Names : SparesOthers(c, n)]_vars
    BY <1>1, <1>2 DEF Next, Finished, OwnStep
<1> QED  BY <1>3, Invariant, PTL DEF Spec, OthersSurvive

-----------------------------------------------------------------------------
(* Sandbox implements SandboxContract.                                     *)

\* A call gets further, as the contract allows it, and no name changes hands.
StageMove(c) ==
    \/ Seen(c)' = Seen(c)
    \/ Seen(c) = "gathering" /\ Seen(c)' = "running" /\ \A n \in Names : holder[n] = c
    \/ Seen(c) = "running" /\ Seen(c)' = "finishing"
    \/ Seen(c) \in {"gathering", "running"} /\ Seen(c)' = "failing"
    \/ Seen(c) = "finishing" /\ Seen(c)' = "clean" /\ \A n \in Names : holder[n] # c
    \/ Seen(c) \notin {"clean", "over"} /\ Seen(c)' = "over"

\* A call gets a free name, and the volume perhaps with it; or gives one back.
Gets(c, n) ==
    /\ Seen(c) \in {"gathering", "failing", "over"}
    /\ holder[n] = NoOne
    /\ \/ holder' = [holder EXCEPT ![n] = c]
       \/ /\ n # "volume" /\ holder["volume"] = NoOne
          /\ holder' = [holder EXCEPT ![n] = c, !["volume"] = Stranger]

Loses(c, n) ==
    /\ Seen(c) \in {"finishing", "failing", "over"}
    /\ holder[n] = c
    /\ holder' = [holder EXCEPT ![n] = NoOne]

HolderMove(c) == \E n \in Names : Gets(c, n) \/ Loses(c, n)

Move(c) ==
    \/ holder' = holder /\ StageMove(c)
    \/ Seen(c)' = Seen(c) /\ HolderMove(c)

LEMMA SeenIsStage == ASSUME NEW c \in Calls PROVE Seen(c) \in Contract!Stages
BY DEF Seen, Contract!Stages

\* A creation that is carried out gives the name away if it is free, or does nothing.
LEMMA CreatedMoves ==
    ASSUME NEW c \in Calls, NEW n \in Names, holder \in [Names -> Holders]
    PROVE  \/ Created(c, n) = holder
           \/ holder[n] = NoOne /\ Created(c, n) = [holder EXCEPT ![n] = c]
           \/ /\ holder[n] = NoOne /\ n # "volume" /\ holder["volume"] = NoOne
              /\ Created(c, n) = [holder EXCEPT ![n] = c, !["volume"] = Stranger]
<1>1. CASE holder[n] # NoOne
  BY <1>1 DEF Created
<1>2. CASE holder[n] = NoOne /\ n # "volume" /\ holder["volume"] = NoOne
  BY <1>2 DEF Created, Names, Containers
<1>3. CASE holder[n] = NoOne /\ ~(n # "volume" /\ holder["volume"] = NoOne)
  BY <1>3 DEF Created, Names, Containers
<1> QED  BY <1>1, <1>2, <1>3

\* Each step of a call is one step of the contract, or none.
LEMMA OwnMoves ==
    ASSUME ~OperatorActs, Inv, Inv', NEW c \in Calls, OwnStep(c) PROVE Move(c)
<1> USE DEF Seen, Goto, ToCleanup, NextResource, Ended, daemon, locals
<1>0. /\ TypeOK /\ SetupInv(c) /\ UnwindInv(c) /\ SetupInv(c)' /\ UnwindInv(c)'
      /\ pc[c] \in Places /\ primary[c] \in Errors
      /\ outcome[c] = "result" => pc[c] = "done"
  BY DEF Inv, TypeOK, UnwindInv
<1>1. CASE Begin(c) \/ BeginFails(c)
  BY <1>0, <1>1 DEF Begin, BeginFails, TypeOK, Errors, Move, StageMove
<1>2. CASE Create(c)
  <2>1. /\ pc[c] = "create" /\ pc' = [pc EXCEPT ![c] = "verify"]
        /\ holder' = Created(c, cur[c]) /\ cur[c] \in Names
        /\ UNCHANGED <<primary, outcome>>
    BY <1>0, <1>2 DEF Create, TypeOK
  <2>2. Seen(c) = "gathering" /\ Seen(c)' = "gathering"
    BY <1>0, <2>1 DEF TypeOK
  <2>3. holder \in [Names -> Holders]
    BY <1>0 DEF TypeOK
  <2>4. holder' = holder \/ Gets(c, cur[c])
    BY <2>1, <2>2, <2>3, CreatedMoves DEF Gets
  <2> QED  BY <2>1, <2>2, <2>4 DEF Move, StageMove, HolderMove
<1>3. CASE \E e \in Errors \ {"none"} : CreateFails(c, e)
  BY <1>0, <1>3 DEF CreateFails, TypeOK, Move, StageMove
<1>4. CASE Salvage(c) \/ \E e \in Errors \ {"none"} : SalvageFails(c, e)
  <2>1. primary[c] # "none"
    BY <1>0, <1>4 DEF Salvage, SalvageFails, SetupInv, Setup
  <2> QED  BY <1>0, <1>4, <2>1 DEF Salvage, SalvageFails, TypeOK, Move, StageMove
<1>5. CASE Verify(c)
  <2>1. /\ holder' = holder /\ pc[c] = "verify" /\ UNCHANGED <<primary, outcome>>
        /\ pc' = [pc EXCEPT ![c] = AfterVerify(cur[c])]
        /\ cur[c] \in Names
    BY <1>0, <1>5 DEF Verify, TypeOK
  <2>2. pc'[c] \in {"create", "start", "attach"}
    BY <1>0, <2>1 DEF TypeOK, AfterVerify
  <2>3. pc'[c] = "attach" => \A n \in Names : holder[n] = c
    BY <1>0, <2>1 DEF SetupInv, Setup
  <2>4. Seen(c) = "gathering"
    BY <1>0, <2>1
  <2>5. Seen(c)' = IF pc'[c] = "attach" THEN "running" ELSE "gathering"
    BY <1>0, <2>1, <2>2
  <2> QED  BY <2>1, <2>3, <2>4, <2>5 DEF Move, StageMove
<1>6. CASE StartRelay(c)
  BY <1>0, <1>6 DEF StartRelay, TypeOK, Move, StageMove
<1>7. CASE \E e \in Errors \ {"none"} : VerifyFails(c, e) \/ StartFails(c, e)
  BY <1>0, <1>7 DEF VerifyFails, StartFails, TypeOK, Move, StageMove
<1>8. CASE \E e \in Errors : Attached(c, e)
  BY <1>0, <1>8 DEF Attached, TypeOK, Move, StageMove
<1>9. CASE CheckOwner(c) \/ CheckFails(c)
  BY <1>0, <1>9 DEF CheckOwner, CheckFails, TypeOK, Move, StageMove
<1>10. CASE Remove(c)
  <2>1. Seen(c) \in {"finishing", "failing"} /\ Seen(c)' = Seen(c)
    BY <1>0, <1>10 DEF Remove, TypeOK
  <2>2. cur[c] \in Names /\ holder[cur[c]] = c
    BY <1>0, <1>10 DEF Remove, TypeOK, UnwindInv
  <2>3. Loses(c, cur[c])
    BY <1>10, <2>1, <2>2 DEF Remove, Loses
  <2> QED  BY <2>1, <2>2, <2>3 DEF Move, HolderMove
<1>11. CASE RemoveFails(c)
  BY <1>0, <1>11 DEF RemoveFails, TypeOK, Move, StageMove
<1>12. CASE Finish(c)
  <2>1. /\ pc[c] = "cleanup" /\ pc'[c] = "done" /\ holder' = holder
        /\ outcome'[c] = Verdict(c) /\ primary' = primary
    BY <1>0, <1>12 DEF Finish, TypeOK
  <2>2. outcome'[c] = "result" => primary[c] = "none"
    BY <1>0, <2>1 DEF Verdict, Errors
  <2>3. outcome'[c] = "result" => \A n \in Names : holder[n] # c
    BY <1>0, <2>1 DEF UnwindInv
  <2>4. Seen(c) = IF primary[c] = "none" THEN "finishing" ELSE "failing"
    BY <1>0, <2>1
  <2>5. Seen(c)' = IF outcome'[c] = "result" THEN "clean" ELSE "over"
    BY <2>1
  <2> QED  BY <2>1, <2>2, <2>3, <2>4, <2>5 DEF Move, StageMove
<1>13. CASE CutShort(c)
  BY <1>0, <1>13 DEF CutShort, TypeOK, Move, StageMove
<1>14. CASE Crash(c)
  BY <1>0, <1>14 DEF Crash, TypeOK, Move, StageMove
<1> QED
  BY <1>1, <1>2, <1>3, <1>4, <1>5, <1>6, <1>7, <1>8, <1>9, <1>10, <1>11, <1>12,
     <1>13, <1>14 DEF OwnStep, Step

\* What one call does, and the others do not.
LEMMA MoveImplements ==
    ASSUME NEW c \in Calls, Move(c), \A q \in Calls \ {c} : Seen(q)' = Seen(q)
    PROVE  [Contract!ContractNext]_(Contract!tenancy)
<1> DEFINE stage == [q \in Calls |-> Seen(q)]
<1>1. /\ stage' = [stage EXCEPT ![c] = Seen(c)']
      /\ stage[c] = Seen(c)
      /\ Seen(c)' = Seen(c) => stage' = stage
  OBVIOUS
<1>2. CASE holder' = holder /\ Seen(c)' = Seen(c)
  BY <1>1, <1>2 DEF Contract!tenancy
<1>3. CASE holder' = holder /\ Seen(c)' # Seen(c) /\ StageMove(c)
  <2>1. \/ Contract!Run(c) \/ Contract!CommandReturns(c) \/ Contract!Fails(c)
        \/ Contract!EndClean(c) \/ Contract!End(c)
    BY <1>1, <1>3, SeenIsStage
       DEF StageMove, Contract!Enter, Contract!Run, Contract!CommandReturns,
           Contract!Fails, Contract!EndClean, Contract!End
  <2> QED  BY <1>3, <2>1 DEF Contract!ContractNext
<1>4. CASE Seen(c)' = Seen(c) /\ HolderMove(c)
  <2>1. \E n \in Names : Contract!Take(c, n) \/ Contract!GiveBack(c, n)
    BY <1>1, <1>4 DEF HolderMove, Gets, Loses, Contract!Take, Contract!GiveBack
  <2> QED  BY <1>1, <1>4, <2>1 DEF Contract!ContractNext
<1> QED  BY <1>2, <1>3, <1>4 DEF Move

\* What the daemon does late and what strangers do.
LEMMA EnvironmentMoves ==
    ASSUME ~OperatorActs, Inv, Environment
    PROVE  [Contract!ContractNext]_(Contract!tenancy)
<1>0. /\ holder \in [Names -> Holders]
      /\ \A q \in Calls : LateInv(q) /\ UnwindInv(q) /\ pc[q] \in Places
  BY DEF Inv, TypeOK
<1>1. UNCHANGED locals
  BY DEF Environment, CreateLands, RemoveLands, StrangerCreates, StrangerRemoves,
         OperatorRemoves
<1>2. \A q \in Calls : Seen(q)' = Seen(q)
  BY <1>1 DEF locals, Seen
<1>3. ASSUME NEW c \in Calls, NEW n \in Names, CreateLands(c, n) PROVE Move(c)
  <2>1. Seen(c) \in {"gathering", "failing", "over"}
    BY <1>0, <1>3 DEF CreateLands, LateInv, UnwindInv, Seen, Unwinding, Ended
  <2>2. holder' = holder \/ holder' = Created(c, n)
    BY <1>3 DEF CreateLands
  <2>3. holder' = holder \/ Gets(c, n)
    BY <1>0, <2>1, <2>2, CreatedMoves DEF Gets
  <2> QED  BY <1>2, <2>3 DEF Move, StageMove, HolderMove
<1>4. ASSUME NEW c \in Calls, NEW n \in Names, RemoveLands(c, n) PROVE Move(c)
  <2>1. outcome[c] = "result" => holder[n] # c
    BY <1>0 DEF UnwindInv
  <2>2. holder[n] = c => Seen(c) \in {"finishing", "failing", "over"}
    BY <1>0, <1>4, <2>1 DEF RemoveLands, LateInv, Seen, Unwinding, Ended
  <2>3. holder' = holder \/ Loses(c, n)
    BY <1>4, <2>2 DEF RemoveLands, Loses
  <2> QED  BY <1>2, <2>3 DEF Move, StageMove, HolderMove
<1>5. ASSUME NEW n \in Names, StrangerCreates(n) \/ StrangerRemoves(n)
      PROVE  Contract!ContractNext
  BY <1>2, <1>5 DEF StrangerCreates, StrangerRemoves, Contract!StrangerActs,
     Contract!ContractNext
<1> QED
  BY <1>2, <1>3, <1>4, <1>5, MoveImplements DEF Environment, OperatorRemoves

\* KeepsContract: for any number of calls, and whatever commands fail, hang or are
\* carried out late, Sandbox implements SandboxContract if no operator removes the
\* calls' resources.
THEOREM Implements == ASSUME ~OperatorActs PROVE Spec => KeepsContract
<1>1. ASSUME Init PROVE Contract!ContractInit
  BY <1>1 DEF Init, Contract!ContractInit, Seen, Ended
<1>2. ASSUME Inv, Inv', [Next]_vars PROVE [Contract!ContractNext]_(Contract!tenancy)
  <2>1. ASSUME NEW c \in Calls, OwnStep(c)
        PROVE  [Contract!ContractNext]_(Contract!tenancy)
    <3>1. ASSUME NEW q \in Calls \ {c} PROVE Seen(q)' = Seen(q)
      BY <1>2, <2>1, <3>1, OthersKeep DEF OthersKept, Seen
    <3> QED  BY <1>2, <2>1, <3>1, OwnMoves, MoveImplements
  <2>2. ASSUME UNCHANGED vars PROVE UNCHANGED Contract!tenancy
    BY <2>2 DEF vars, daemon, locals, Contract!tenancy, Seen
  <2> QED  BY <1>2, <2>1, <2>2, EnvironmentMoves DEF Next, Finished, OwnStep
<1> QED
  BY <1>1, <1>2, Invariant, PTL DEF Spec, KeepsContract, Contract!ContractSpec

-----------------------------------------------------------------------------
(* The count of the steps a call has still to take.                        *)

LEMMA NamesFinite ==
    ASSUME NEW S \in SUBSET Names PROVE IsFiniteSet(S) /\ Cardinality(S) \in 0..3
<1> DEFINE A == {"volume"}
           B == A \cup {"relay"}
<1>1. IsFiniteSet(A) /\ Cardinality(A) = 1
    BY FS_Singleton
<1>2. Names = B \cup {"sandbox"}
    BY DEF Names
<1> HIDE DEF A
<1>3. IsFiniteSet(B) /\ Cardinality(B) \in 1..2
    BY <1>1, FS_AddElement
<1> HIDE DEF B
<1>4. IsFiniteSet(Names) /\ Cardinality(Names) \in 1..3
    BY <1>2, <1>3, FS_AddElement
<1> QED  BY <1>4, FS_Subset, FS_CardinalityType

\* The count, place by place.
Counted(c) ==
    /\ pc[c] = "idle" => StepsLeft(c) = 16
    /\ pc[c] = "create" /\ cur[c] = "volume" => StepsLeft(c) = 15
    /\ pc[c] = "create" /\ cur[c] = "relay" => StepsLeft(c) = 13
    /\ pc[c] = "create" /\ cur[c] = "sandbox" => StepsLeft(c) = 10
    /\ pc[c] = "verify" /\ cur[c] = "volume" => StepsLeft(c) = 14
    /\ pc[c] = "verify" /\ cur[c] = "relay" => StepsLeft(c) = 12
    /\ pc[c] = "verify" /\ cur[c] = "sandbox" => StepsLeft(c) = 9
    /\ pc[c] = "start" => StepsLeft(c) = 11
    /\ pc[c] \in {"salvage", "attach"} => StepsLeft(c) = 8
    /\ pc[c] = "cleanup" => StepsLeft(c) = 2 * Cardinality(todo[c]) + 1
    /\ pc[c] = "remove" => StepsLeft(c) = 2 * Cardinality(todo[c])
    /\ pc[c] \in Ended => StepsLeft(c) = 0

LEMMA Counts == ASSUME NEW c \in Calls PROVE Counted(c) /\ Counted(c)'
BY DEF Counted, StepsLeft, Ended

\* Before it unwinds a call has more steps to take than unwinding has.
LEMMA SetupCount ==
    ASSUME TypeOK, NEW c \in Calls, pc[c] \in Setup \cup {"idle"}
    PROVE  StepsLeft(c) \in 8..16
<1>1. Counted(c) /\ cur[c] \in Names
    BY Counts DEF TypeOK
<1> QED  BY <1>1 DEF Counted, Names, Setup

\* Unwinding takes two steps for each name left, and one to finish.
LEMMA UnwindCount ==
    ASSUME TypeOK, NEW c \in Calls, pc[c] \in Unwinding
    PROVE  /\ StepsLeft(c) \in 0..7
           /\ pc[c] = "cleanup" => StepsLeft(c) > 0
           /\ pc[c] = "remove" /\ todo[c] # {} => StepsLeft(c) > 0
<1>1. Counted(c) /\ IsFiniteSet(todo[c]) /\ Cardinality(todo[c]) \in 0..3
    BY Counts, NamesFinite DEF TypeOK
<1>2. todo[c] # {} => Cardinality(todo[c]) # 0
    BY <1>1, FS_EmptySet
<1> QED  BY <1>1, <1>2 DEF Counted, Unwinding

\* A call's own step, its being cut short and its crash each lower its count.
LEMMA StepLowers ==
    ASSUME Inv, NEW c \in Calls, OwnStep(c)
    PROVE  StepsLeft(c)' < StepsLeft(c)
<1>0. /\ TypeOK /\ TypeOK' /\ SetupInv(c) /\ UnwindInv(c)
      /\ cur[c] \in Names /\ todo[c] \in SUBSET Names
    BY OwnType DEF Inv, TypeOK
<1>1. Counted(c) /\ Counted(c)'
    BY Counts
<1>2. \A S \in SUBSET Names : IsFiniteSet(S) /\ Cardinality(S) \in 0..3
    BY NamesFinite
<1>3. ASSUME pc[c] \in Setup \cup {"idle"}, pc'[c] \in {"cleanup"} \cup Ended
      PROVE  StepsLeft(c)' < StepsLeft(c)
  <2>1. StepsLeft(c) \in 8..16
    BY <1>0, <1>3, SetupCount
  <2>2. todo'[c] \in SUBSET Names
    BY <1>0 DEF TypeOK
  <2>3. StepsLeft(c)' \in 0..7
    BY <1>1, <1>2, <1>3, <2>2 DEF Counted
  <2> QED  BY <2>1, <2>3
<1>4. ASSUME pc[c] \in Unwinding, pc'[c] \in Ended PROVE StepsLeft(c)' < StepsLeft(c)
  <2>1. StepsLeft(c) \in 0..7 /\ StepsLeft(c) > 0
    BY <1>0, <1>4, UnwindCount DEF UnwindInv, Unwinding
  <2> QED  BY <1>1, <1>4, <2>1 DEF Counted
<1>5. ASSUME NEW n \in todo[c], pc[c] \in Unwinding, pc'[c] = "cleanup",
             todo'[c] = todo[c] \ {n}
      PROVE  StepsLeft(c)' < StepsLeft(c)
  <2>1. IsFiniteSet(todo[c]) /\ Cardinality(todo[c]) \in 0..3
    BY <1>0, <1>2
  <2>2. Cardinality(todo[c] \ {n}) = Cardinality(todo[c]) - 1
    BY <2>1, FS_RemoveElement
  <2>3. StepsLeft(c)' = 2 * (Cardinality(todo[c]) - 1) + 1
    BY <1>1, <1>5, <2>2 DEF Counted
  <2>4. StepsLeft(c) \in {2 * Cardinality(todo[c]) + 1, 2 * Cardinality(todo[c])}
    BY <1>1, <1>5 DEF Counted, Unwinding
  <2> QED  BY <2>1, <2>3, <2>4
<1> USE DEF TypeOK, Goto, daemon, locals
<1>6. CASE Begin(c)
    BY <1>0, <1>1, <1>6 DEF Begin, SetupInv, Counted
<1>7. CASE BeginFails(c)
    BY <1>0, <1>3, <1>7 DEF BeginFails, Ended
<1>8. CASE Create(c) \/ \E e \in Errors : CreateFails(c, e)
  <2>1. /\ pc[c] = "create" /\ pc'[c] \in {"verify", "salvage"}
        /\ cur'[c] = cur[c]
    BY <1>0, <1>8 DEF Create, CreateFails
  <2> QED  BY <1>0, <1>1, <2>1 DEF Counted, Names
<1>9. CASE Verify(c)
  <2>1. /\ pc[c] = "verify" /\ pc'[c] = AfterVerify(cur[c])
        /\ cur'[c] = IF cur[c] = "volume" THEN "relay" ELSE cur[c]
    BY <1>0, <1>9 DEF Verify
  <2> QED  BY <1>0, <1>1, <2>1 DEF Counted, AfterVerify, Names
<1>10. CASE StartRelay(c)
    BY <1>0, <1>1, <1>10 DEF StartRelay, Counted, Names
<1>11. CASE \/ Salvage(c)
            \/ \E e \in Errors : \/ SalvageFails(c, e) \/ VerifyFails(c, e)
                                 \/ StartFails(c, e) \/ Attached(c, e)
    BY <1>0, <1>3, <1>11
       DEF Salvage, SalvageFails, VerifyFails, StartFails, Attached, ToCleanup, Setup
<1>12. CASE CheckOwner(c)
  <2>1. pc[c] = "cleanup" /\ pc'[c] = "remove" /\ todo'[c] = todo[c]
    BY <1>0, <1>12 DEF CheckOwner
  <2>2. Cardinality(todo[c]) \in 0..3
    BY <1>0, <1>2
  <2> QED  BY <1>1, <2>1, <2>2 DEF Counted
<1>13. CASE CheckFails(c)
  <2>1. PICK n \in Names : IsNext(c, n) /\ \E what \in {{}, {n}} : NextResource(c, n, what)
    BY <1>13 DEF CheckFails
  <2> QED
    BY <1>0, <1>5, <1>13, <2>1 DEF CheckFails, IsNext, NextResource, Unwinding
<1>14. CASE Remove(c) \/ RemoveFails(c)
  <2>1. pc[c] = "remove" /\ cur[c] \in todo[c]
    BY <1>0, <1>14 DEF Remove, RemoveFails, UnwindInv
  <2> QED
    BY <1>0, <1>5, <1>14, <2>1 DEF Remove, RemoveFails, NextResource, Unwinding
<1>15. CASE Finish(c) \/ CutShort(c)
    BY <1>0, <1>4, <1>15 DEF Finish, CutShort, Unwinding, Ended
<1>16. CASE Crash(c)
  <2>1. pc[c] \in (Setup \cup {"idle"}) \cup Unwinding /\ pc'[c] = "dead"
    BY <1>0, <1>16 DEF Crash, Places, Setup, Unwinding, Ended
  <2> QED  BY <1>3, <1>4, <2>1 DEF Ended
<1> QED
    BY <1>6, <1>7, <1>8, <1>9, <1>10, <1>11, <1>12, <1>13, <1>14, <1>15, <1>16
       DEF OwnStep, Step

\* CallsGetOn: whatever the daemon, the other calls, strangers and an operator do,
\* every step of a call brings it nearer to its end and nobody else's takes it back.
THEOREM GetOn == Spec => CallsGetOn
<1> DEFINE Nearer(c) == /\ StepsLeft(c)' < StepsLeft(c)
                        /\ \A q \in Calls \ {c} : StepsLeft(q)' = StepsLeft(q)
           Apart == Environment /\ \A c \in Calls : StepsLeft(c)' = StepsLeft(c)
<1>1. ASSUME Inv, NEW c \in Calls, OwnStep(c) PROVE Nearer(c)
  <2>1. ASSUME NEW q \in Calls \ {c} PROVE StepsLeft(q)' = StepsLeft(q)
    BY <1>1, <2>1, OthersKeep DEF OthersKept, StepsLeft
  <2> QED  BY <1>1, <2>1, StepLowers
<1>2. ASSUME Inv, Environment PROVE Apart
    BY <1>2, EnvironmentKeeps DEF CallsKept, StepsLeft
<1>3. Inv /\ [Next]_vars => [Apart \/ \E c \in Calls : Nearer(c)]_vars
    BY <1>1, <1>2 DEF Next, OwnStep, Finished
<1> QED  BY <1>3, Invariant, PTL DEF Spec, CallsGetOn

\* The count never leaves the numbers from 0 to 16: no call, however it fails,
\* takes more steps than that.
THEOREM StepsBounded == Spec => [](\A c \in Calls : StepsLeft(c) \in 0..16)
<1>1. ASSUME TypeOK, NEW c \in Calls PROVE StepsLeft(c) \in 0..16
  <2>1. CASE pc[c] \in Setup \cup {"idle"}
    BY <1>1, <2>1, SetupCount
  <2>2. CASE pc[c] \in Unwinding
    BY <1>1, <2>2, UnwindCount
  <2>3. CASE pc[c] \in Ended
    BY <2>3, Counts DEF Counted
  <2> QED  BY <1>1, <2>1, <2>2, <2>3 DEF TypeOK, Places, Setup, Unwinding, Ended
<1>2. TypeOK => \A c \in Calls : StepsLeft(c) \in 0..16
    BY <1>1
<1> QED  BY <1>2, TypeCorrect, PTL
=============================================================================
