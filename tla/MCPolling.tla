------------------------------- MODULE MCPolling -------------------------------
(***************************************************************************)
(* Polling for TLC: clients and DELETEs are interchangeable.               *)
(***************************************************************************)
EXTENDS Polling, TLC

PollSymmetry == Permutations(Pollers) \union Permutations(Deletes)

=============================================================================
