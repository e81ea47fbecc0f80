------------------------------ MODULE MCReview ------------------------------
(***************************************************************************)
(* The instances of MCDispatch with reviewers.                             *)
(***************************************************************************)
EXTENDS ComposeReview, MCDispatch

(* Bounds: the editor strikes while a review compares the evidence, at     *)
(* whatever point the dispatcher is with another attempt; and no candidate *)
(* is rewritten under its verifier, which MCVerifierRewrites.cfg is about: *)
(* a review compares with what the result holds, whatever that came from.  *)
EditsMeetReviews ==
  /\ edits' # edits => \E v \in Reviewers : rpc[v] = "recheck"
  /\ rewritten' = rewritten

=============================================================================
