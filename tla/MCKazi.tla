------------------------------- MODULE MCKazi -------------------------------
(***************************************************************************)
(* KaziSupervisor with few bridges.                                        *)
(***************************************************************************)
EXTENDS KaziSupervisor, TLC

=============================================================================
