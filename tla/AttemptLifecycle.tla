-------------------------- MODULE AttemptLifecycle --------------------------
(***************************************************************************)
(* What composition promises of one attempt, whatever processes, locks,    *)
(* crashes and failed writes lie underneath:                               *)
(*                                                                         *)
(*   - its recorded state only moves along TransitionAllowed;              *)
(*   - its delegate is executed at most once, and only while the attempt   *)
(*     is recorded as running and has no verdict;                          *)
(*   - it gets at most one verdict, which is never rewritten, and only an  *)
(*     executed attempt can get the verdict verified_pending_review;       *)
(*   - its state becomes final only by publishing that verdict, and it is  *)
(*     accepted only from a verified verdict.                              *)
(***************************************************************************)
EXTENDS AttemptStates

CONSTANTS Attempts, \* attempt ids
          None      \* "no verdict yet"

VARIABLES state,    \* state[a]: what the journal's events say of a
          executed, \* the attempts whose delegate was started
          verdict   \* verdict[a]: the state in a's immutable result, or None

vars == <<state, executed, verdict>>

Init ==
  /\ state = [a \in Attempts |-> "validated"]
  /\ executed = {}
  /\ verdict = [a \in Attempts |-> None]

Dispatch(a) ==
  /\ state[a] = "validated"
  /\ state' = [state EXCEPT ![a] = "dispatched"]
  /\ UNCHANGED <<executed, verdict>>

Begin(a) ==
  /\ state[a] = "dispatched"
  /\ state' = [state EXCEPT ![a] = "running"]
  /\ UNCHANGED <<executed, verdict>>

Execute(a) ==
  /\ state[a] = "running" /\ verdict[a] = None /\ a \notin executed
  /\ executed' = executed \cup {a}
  /\ UNCHANGED <<state, verdict>>

Conclude(a, v) ==
  /\ state[a] = "running" /\ verdict[a] = None
  /\ v = "verified_pending_review" => a \in executed
  /\ verdict' = [verdict EXCEPT ![a] = v]
  /\ UNCHANGED <<state, executed>>

Publish(a) ==
  /\ state[a] = "running" /\ verdict[a] # None
  /\ state' = [state EXCEPT ![a] = verdict[a]]
  /\ UNCHANGED <<executed, verdict>>

Review(a, s) ==
  /\ state[a] = verdict[a]
  /\ TransitionAllowed(state[a], s)
  /\ state' = [state EXCEPT ![a] = s]
  /\ UNCHANGED <<executed, verdict>>

Next ==
  \E a \in Attempts :
    \/ Dispatch(a) \/ Begin(a) \/ Execute(a) \/ Publish(a)
    \/ \E v \in Final : Conclude(a, v)
    \/ \E s \in Reviewed : Review(a, s)

Spec == Init /\ [][Next]_vars

=============================================================================
