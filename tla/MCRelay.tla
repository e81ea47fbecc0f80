------------------------------ MODULE MCRelay ------------------------------
(***************************************************************************)
(* Relay with few handlers and generations; they are interchangeable.      *)
(***************************************************************************)
EXTENDS Relay, TLC

RelaySymmetry == Permutations(Handlers) \cup Permutations(Generations)

=============================================================================
