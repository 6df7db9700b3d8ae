--------------------------- MODULE MCAttachedRun ---------------------------
(***************************************************************************)
(* Instances of AttachedRun for TLC: a deadline of two turns, grace        *)
(* periods of two and one, an output cap of two chunks and a container     *)
(* that can write one chunk more than the cap.                             *)
(***************************************************************************)
EXTENDS AttachedRun
=============================================================================
