-------------------------- MODULE MCDropFileServer --------------------------
(* Instances of DropFileServer for TLC. *)
EXTENDS DropFileServer, TLC

\* Clients of one kind are interchangeable in the safety properties.
Symmetry ==
    Permutations(Sessions) \cup Permutations(Receivers) \cup Permutations(Codes)
=============================================================================
