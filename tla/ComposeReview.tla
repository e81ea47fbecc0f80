--------------------------- MODULE ComposeReview ---------------------------
(***************************************************************************)
(* The whole composition journal: the dispatchers of ComposeDispatch and   *)
(* `fanisi compose review` (recordCompositionReview), whose transaction    *)
(* holds the journal lock from the look at the attempt to the event, but   *)
(* never the workspace lease: a dispatcher, an editor or the operator may  *)
(* change the workspace while the evidence is being compared.              *)
(***************************************************************************)
EXTENDS ComposeDispatch

CONSTANT Reviewers \* processes that run `compose review`

ASSUME ReviewConstants ==
  /\ Reviewers \subseteq Processes
  /\ Reviewers \cap Dispatchers = {}

VARIABLES
  rpc,       \* where each reviewer is: idle, recheck, append or crashed
  review,    \* the review it records, with the state it observed
  rechecked  \* rechecked[a]: the candidate the evidence check of a compared

reviewVars == <<rpc, review, rechecked>>
allVars == <<vars, reviewVars>>

Reviews == [attempt : Attempts, from : States, to : Reviewed]

ReviewTypeOK ==
  /\ TypeOK
  /\ rpc \in [Reviewers -> {"idle", "recheck", "append", "crashed"}]
  /\ review \in [Reviewers -> Reviews \cup {None}]
  /\ rechecked \in [Attempts -> Contents \cup {None}]

ReviewInit ==
  /\ Init
  /\ rpc = [v \in Reviewers |-> "idle"]
  /\ review = [v \in Reviewers |-> None]
  /\ rechecked = [a \in Attempts |-> None]

records == <<frozen, reservations, request, idem, result, cancelFile, pre>>

EndReview(v) ==
  /\ Unlock(v)
  /\ rpc' = [rpc EXCEPT ![v] = "idle"]
  /\ review' = [review EXCEPT ![v] = None]

(* A review of an attempt that has a result and no review yet. Acceptance  *)
(* is for humans and for verified results; every other call is refused     *)
(* and changes nothing.                                                    *)
Reviewable(a, to, kind) ==
  /\ result[a] # None
  /\ \/ to = "accepted" /\ kind = "human" /\ Observed(a) = Verified
     \/ to = "rejected" /\ Observed(a) \in {Verified, Blocked}

BeginReview(v, a, to, kind) ==
  /\ rpc[v] = "idle"
  /\ Lock(v)
  /\ Reviewable(a, to, kind)
  /\ rpc' = [rpc EXCEPT ![v] = IF to = "accepted" THEN "recheck" ELSE "append"]
  /\ review' = [review EXCEPT ![v] =
                  [attempt |-> a, from |-> Observed(a), to |-> to]]
  /\ UNCHANGED <<records, events, control, outside, rechecked>>

(* Seeded fault: the candidate is not hashed again.                        *)
EvidenceIntact(a) == a \in pre /\ WorkspaceOfAttempt(a) \in intact

(* composeRecheckReviewEvidence: the workspace as it is now against the    *)
(* immutable result and the pre-dispatch snapshot.                         *)
EvidenceMatches(a) ==
  /\ a \in pre
  /\ cand[WorkspaceOfAttempt(a)] = result[a].writes
  /\ WorkspaceOfAttempt(a) \in intact

RecheckEvidence(v) ==
  /\ rpc[v] = "recheck"
  /\ LET a == review[v].attempt IN
       \/ /\ EvidenceMatches(a)
          /\ rpc' = [rpc EXCEPT ![v] = "append"]
          /\ rechecked' = [rechecked EXCEPT ![a] = cand[WorkspaceOfAttempt(a)]]
          /\ UNCHANGED <<jlock, review>>
       \/ /\ ~EvidenceMatches(a) \/ IOFailures
          /\ EndReview(v)
          /\ UNCHANGED rechecked
  /\ UNCHANGED <<records, events, control, outside>>

(* The review file, which nothing reads back, and then the event.          *)
AppendReview(v) ==
  /\ rpc[v] = "append"
  /\ \/ AppendEvent(review[v].attempt, review[v].from, review[v].to)
     \/ IOFailures /\ UNCHANGED events
  /\ EndReview(v)
  /\ UNCHANGED <<records, control, outside, rechecked>>

CrashReview(v) ==
  /\ rpc[v] \in {"recheck", "append"}
  /\ Cardinality(Crashed) < Crashes
  /\ rpc' = [rpc EXCEPT ![v] = "crashed"]
  /\ UNCHANGED <<journal, control, outside, review, rechecked>>

RemoveStaleReviewLock(v) ==
  /\ rpc[v] = "crashed"
  /\ jlock = v
  /\ jlock' = None
  /\ UNCHANGED <<records, events, control, outside, reviewVars>>

Reviewer(v) ==
  \/ \E a \in Attempts, to \in Reviewed, kind \in {"human", "agent"} :
       BeginReview(v, a, to, kind)
  \/ RecheckEvidence(v)
  \/ AppendReview(v)
  \/ CrashReview(v)
  \/ RemoveStaleReviewLock(v)

SystemNext ==
  \/ Next /\ UNCHANGED reviewVars
  \/ \E v \in Reviewers : Reviewer(v)

System == ReviewInit /\ [][SystemNext]_allVars

-----------------------------------------------------------------------------
(* Dispatchers and reviewers exclude each other from the journal.          *)
SystemExclusive ==
  /\ JournalExclusive
  /\ \A v \in Reviewers : rpc[v] \in {"recheck", "append"} => jlock = v

(* The state a reviewer decided on is still the attempt's state when its   *)
(* event is about to be appended, however long the evidence check took.    *)
ReviewObservesCurrent ==
  \A v \in Reviewers : rpc[v] = "append" =>
    Observed(review[v].attempt) = review[v].from

(* What a human accepted is a verified verdict, and the evidence check of  *)
(* the acceptance found exactly the write paths that verdict recorded: an  *)
(* edit, or the next attempt in the same workspace, is not accepted in its *)
(* place.                                                                  *)
AcceptedMatchesEvidence ==
  \A a \in Attempts : Recorded(a) = "accepted" =>
    /\ result[a].state = Verified
    /\ rechecked[a] = result[a].writes /\ rechecked[a] # None

(* What a recorded review rests on: nobody else was in the journal from    *)
(* its first look to its event, its decision is about the state it is      *)
(* appended to, and an acceptance is of the evidence that was judged.      *)
ReviewSound == SystemExclusive /\ ReviewObservesCurrent /\ AcceptedMatchesEvidence

=============================================================================
