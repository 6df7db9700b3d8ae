-------------------------- MODULE MCArtifactStore --------------------------
(***************************************************************************)
(* Instances of ArtifactStore for TLC: every assignment of two run files   *)
(* and two contents to three puts.  Puts, run files and contents are each  *)
(* interchangeable.                                                        *)
(***************************************************************************)
EXTENDS ArtifactStore, TLC

StoreSymmetry ==
    Permutations(Puts) \cup Permutations(Keys) \cup Permutations(Contents)
=============================================================================
