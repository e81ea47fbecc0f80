------------------------------ MODULE MCNative ------------------------------
(***************************************************************************)
(* A native run of two calls, with batches of up to two tools.             *)
(***************************************************************************)
EXTENDS NativeRun

=============================================================================
