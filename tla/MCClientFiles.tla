--------------------------- MODULE MCClientFiles ---------------------------
(* Instances of ClientFiles for TLC. *)
EXTENDS ClientFiles, TLC

\* Clients and names are interchangeable.
Symmetry == Permutations(Clients) \cup Permutations(Names)
=============================================================================
