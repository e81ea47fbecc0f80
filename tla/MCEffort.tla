------------------------------ MODULE MCEffort ------------------------------
(* Two importers of one session's windows.                                 *)
EXTENDS EffortImport, TLC

Symmetries == Permutations(Importers) \cup Permutations(IDs)
=============================================================================
