------------------------------ MODULE MCBuildTracker ------------------------------
(* Instance of BuildTracker for TLC. *)
EXTENDS BuildTracker, TLC

BuildSymmetry == Permutations(Builds)
================================================================================
