------------------------ MODULE MCLiveStreamManager ------------------------
(* Small instances of LiveStreamManager for TLC. *)
EXTENDS LiveStreamManager, TLC

Symmetry == Permutations(Viewers) \cup Permutations(Tasks)
              \cup Permutations(Calls) \cup Permutations(Sources)
=============================================================================
