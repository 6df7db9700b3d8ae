----------------------------- MODULE MCHarness -----------------------------
(***************************************************************************)
(* Instances of Harness for TLC: a budget of one call and agents that      *)
(* print up to four events, so that a call can be blocked, repeated under  *)
(* the same id, and followed by a message or a line cut short.             *)
(***************************************************************************)
EXTENDS Harness
=============================================================================
