-------------------------- MODULE SandboxContract --------------------------
(***************************************************************************)
(* What DockerSandbox.execute promises its callers and everybody else who  *)
(* uses the daemon, told by who holds the names and how far a call is, and *)
(* by nothing of the commands in between.  A call gathers names that are   *)
(* free.  It runs its command when it holds all of them, and until the     *)
(* command has come back none of them changes hands.  A call that ends     *)
(* clean has given everything back and will never hold a name again;       *)
(* only a call that fails may leave something, or get something late.      *)
(*                                                                         *)
(* Sandbox implements it as long as nobody removes the calls' resources    *)
(* behind their backs.                                                     *)
(***************************************************************************)
CONSTANTS
    Calls, Names,
    Volume,            \* the name that comes into being with a container
    Stranger, NoOne

VARIABLES
    holder,    \* holder[n]: who holds the name n
    stage      \* how far a call is

tenancy == <<holder, stage>>

-----------------------------------------------------------------------------
\* finishing: the command has come back with a result; failing: something went
\* wrong before or in it; clean: the caller has the result; over: it has an
\* exception, or has died.
Stages == {"gathering", "running", "finishing", "failing", "clean", "over"}

ContractInit ==
    /\ holder \in [Names -> {Stranger, NoOne}]
    /\ stage = [c \in Calls |-> "gathering"]

-----------------------------------------------------------------------------
(* How far a call gets.                                                    *)

Enter(c, from, to) ==
    /\ stage[c] \in from
    /\ stage' = [stage EXCEPT ![c] = to]

\* All the names at the same time, and for the time of the command.
Run(c) == Enter(c, {"gathering"}, "running") /\ \A n \in Names : holder[n] = c

CommandReturns(c) == Enter(c, {"running"}, "finishing")

Fails(c) == Enter(c, {"gathering", "running"}, "failing")

EndClean(c) == Enter(c, {"finishing"}, "clean") /\ \A n \in Names : holder[n] # c

\* An exception, or the death of the process, at any time.
End(c) == Enter(c, Stages \ {"clean", "over"}, "over")

-----------------------------------------------------------------------------
(* How a name changes hands.                                               *)

\* A call that gathers, or one that has failed and whose request was still under
\* way, gets a free name.  A container whose volume is missing brings one along
\* that carries nobody's label.
Take(c, n) ==
    /\ stage[c] \in {"gathering", "failing", "over"}
    /\ holder[n] = NoOne
    /\ \/ holder' = [holder EXCEPT ![n] = c]
       \/ /\ n # Volume /\ holder[Volume] = NoOne
          /\ holder' = [holder EXCEPT ![n] = c, ![Volume] = Stranger]

\* Only what the call holds itself, and never while the command may run.
GiveBack(c, n) ==
    /\ stage[c] \in {"finishing", "failing", "over"}
    /\ holder[n] = c
    /\ holder' = [holder EXCEPT ![n] = NoOne]

\* Strangers take what is free, and give up what is theirs.
StrangerActs(n) ==
    \/ holder[n] = NoOne   /\ holder' = [holder EXCEPT ![n] = Stranger]
    \/ holder[n] = Stranger /\ holder' = [holder EXCEPT ![n] = NoOne]

-----------------------------------------------------------------------------
ContractNext ==
    \/ /\ UNCHANGED holder
       /\ \E c \in Calls :
             Run(c) \/ CommandReturns(c) \/ Fails(c) \/ EndClean(c) \/ End(c)
    \/ /\ UNCHANGED stage
       /\ \E n \in Names :
             StrangerActs(n) \/ \E c \in Calls : Take(c, n) \/ GiveBack(c, n)

ContractSpec == ContractInit /\ [][ContractNext]_tenancy
=============================================================================
