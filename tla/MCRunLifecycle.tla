-------------------------- MODULE MCRunLifecycle --------------------------
(***************************************************************************)
(* Instances of RunLifecycle for TLC.                                      *)
(***************************************************************************)
EXTENDS RunLifecycle

\* The smoke task's scorers by category, cut to one of each: a path or content
\* scorer and a command scorer, in that order.
MCScorers == <<"editing", "verification">>
=============================================================================
