------------------------------ MODULE MCTracker ------------------------------
(* Instances of OpTracker for TLC. *)
EXTENDS OpTrackerProofs, TLC

Symmetric == Permutations(Trackers)
=============================================================================
