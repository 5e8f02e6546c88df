------------------------------ MODULE MCReplay ------------------------------
(* Small instances of Replay for TLC.                                      *)
EXTENDS Replay, TLC

\* Clients are interchangeable; no run has liveness properties.
Symmetry == Permutations(Clients)
=============================================================================
