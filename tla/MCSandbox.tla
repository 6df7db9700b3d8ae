----------------------------- MODULE MCSandbox -----------------------------
(***************************************************************************)
(* Instances of Sandbox for TLC.  Calls are interchangeable, and so the    *)
(* safety instance takes them up to permutation.                           *)
(***************************************************************************)
EXTENDS Sandbox, TLC

CallSymmetry == Permutations(Calls)
=============================================================================
