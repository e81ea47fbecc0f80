--------------------------- MODULE AttemptStates ---------------------------
(***************************************************************************)
(* The states of a composition attempt (type AttemptState) and the         *)
(* transition relation every journal event is checked against.             *)
(***************************************************************************)

Final == {"failed_terminal", "blocked_uncertain", "verified_pending_review"}

Reviewed == {"accepted", "rejected"}

States == {"proposed", "validated", "dispatched", "running"}
            \cup Final \cup Reviewed

(* appendEvent refuses an event whose <<from, to>> pair is not in here.     *)
TransitionAllowed(from, to) ==
  \/ from = "proposed"   /\ to \in {"validated", "failed_terminal", "blocked_uncertain"}
  \/ from = "validated"  /\ to \in {"dispatched", "failed_terminal", "blocked_uncertain"}
  \/ from = "dispatched" /\ to \in {"running", "failed_terminal", "blocked_uncertain"}
  \/ from = "running"    /\ to \in Final
  \/ from = "verified_pending_review" /\ to \in Reviewed
  \/ from = "blocked_uncertain"       /\ to = "rejected"

=============================================================================
