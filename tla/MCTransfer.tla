----------------------------- MODULE MCTransfer -----------------------------
(* Instances of Transfer for TLC. *)
EXTENDS Transfer

\* Everything that can happen around the transfer.
EveryFault == AllFaults

NoFault == {}

ReplaceOnly == {"replace"}
=============================================================================
