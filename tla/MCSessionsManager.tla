-------------------------- MODULE MCSessionsManager --------------------------
(* Instances of SessionsManager for TLC. *)
EXTENDS SessionsManager, TLC

\* Sessions, receivers and codes are interchangeable in the safety properties.
Symmetry ==
    Permutations(Sessions) \cup Permutations(Receivers) \cup Permutations(Codes)
=============================================================================
