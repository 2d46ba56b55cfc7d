-------------------------- MODULE MCLiveStreamSystem -------------------------
(* Small instances of LiveStreamSystem for TLC. *)
EXTENDS LiveStreamSystem, TLC

Captures == {"capture"}
ViewedKinds == {"capture", "control", "startup"}

Symmetry == Permutations(Viewers) \cup Permutations(Tasks)
              \cup Permutations(Calls) \cup Permutations(Sources)
=============================================================================
