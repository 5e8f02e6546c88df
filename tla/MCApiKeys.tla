----------------------------- MODULE MCApiKeys -----------------------------
(* Small instances of ApiKeys for TLC.                                     *)
EXTENDS ApiKeys, TLC

\* Slots are interchangeable; no run has liveness properties.
Symmetry == Permutations(Requests) \cup Permutations(Intervals)
=============================================================================
