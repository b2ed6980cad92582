------------------------------ MODULE MCObsWs ------------------------------
(* Instances of ObsWs for TLC. *)
EXTENDS ObsWs, TLC

\* Buttons are alike, and so are pool threads.
Symmetry == Permutations(Pool) \cup Permutations(Plugins)

=============================================================================
