--------------------------- MODULE ComposeJournal ---------------------------
(***************************************************************************)
(* The journal directory shared by every `fanisi compose` process: the     *)
(* records each transaction reads and writes, and the lock directory the   *)
(* transactions take. Every record is created with O_EXCL and never        *)
(* rewritten, so a record is modelled as None until it exists.             *)
(*                                                                         *)
(* An implementation request is an opaque element of Requests; its payload *)
(* hash is its identity. Two requests may carry the same attempt id or the *)
(* same idempotency key and still be different payloads.                   *)
(***************************************************************************)
EXTENDS AttemptStates, Integers, Sequences, FiniteSets, FiniteSetsExt

CONSTANTS
  Requests,    \* implementation requests (with the bundle each is sent with)
  Attempts,    \* attempt ids
  Parents,     \* parent ids
  Keys,        \* idempotency keys
  Workspaces,  \* product workspaces
  AttemptOf, ParentOf, KeyOf, WorkspaceOf, \* fields of a request
  USDOf,       \* the request's reserved_usd, in whole units
  BudgetOf,    \* the budget of the request's bundle
  Processes,   \* processes that take the journal lock
  Contents,    \* contents of a workspace's write paths
  None         \* a record that does not exist, a lock nobody holds

Budgets == [maxAttempts : Nat \ {0}, maxUSD : Nat \ {0}]

ASSUME RequestFields ==
  /\ AttemptOf \in [Requests -> Attempts]
  /\ ParentOf \in [Requests -> Parents]
  /\ KeyOf \in [Requests -> Keys]
  /\ WorkspaceOf \in [Requests -> Workspaces]
  /\ USDOf \in [Requests -> Nat]
  /\ BudgetOf \in [Requests -> Budgets]
  /\ IsFiniteSet(Requests)

(* FinalWriteHashes is kept because review compares the candidate with it. *)
Results == [state : Final, writes : Contents \cup {None}]
Events == [from : States, to : States]

ASSUME NoneIsNew ==
  None \notin Requests \cup Processes \cup Contents \cup Budgets \cup States \cup Results

VARIABLES
  jlock,        \* owner of the lock directory <journal>/.fanisi-lock, or None
  frozen,       \* parents/<p>/budget.json
  reservations, \* parents/<p>/reservations/<a>.json: the requests that wrote one
  request,      \* attempts/<a>/request.json
  idem,         \* idempotency/<digest of key>.json: the request it binds
  events,       \* the events of attempt a, in file order
  result,       \* attempts/<a>/result.json
  cancelFile,   \* attempts with a cancel-request.json
  pre           \* attempts with a snapshots/pre.json

journal == <<jlock, frozen, reservations, request, idem, events, result,
             cancelFile, pre>>

JournalTypeOK ==
  /\ jlock \in Processes \cup {None}
  /\ frozen \in [Parents -> Budgets \cup {None}]
  /\ reservations \in SUBSET Requests
  /\ request \in [Attempts -> Requests \cup {None}]
  /\ idem \in [Keys -> Requests \cup {None}]
  /\ events \in [Attempts -> Seq(Events)]
  /\ result \in [Attempts -> Results \cup {None}]
  /\ cancelFile \in SUBSET Attempts
  /\ pre \in SUBSET Attempts

JournalInit ==
  /\ jlock = None
  /\ frozen = [p \in Parents |-> None]
  /\ reservations = {}
  /\ request = [a \in Attempts |-> None]
  /\ idem = [k \in Keys |-> None]
  /\ events = [a \in Attempts |-> <<>>]
  /\ result = [a \in Attempts |-> None]
  /\ cancelFile = {}
  /\ pre = {}

-----------------------------------------------------------------------------
(* Journal.lock and its unlock closure. A process that finds the directory *)
(* present retries, which is a stutter, and gives up after its budget.     *)

(* Seeded fault: os.MkdirAll for os.Mkdir, which does not fail on a present *)
(* directory.                                                              *)
LockMkdirAll(x) == jlock' = x

Lock(x) == jlock = None /\ jlock' = x
Unlock(x) == jlock = x /\ jlock' = None

-----------------------------------------------------------------------------
(* reserveBudget and composePersistReservation.                            *)

ReservationsOf(p) == {r \in reservations : ParentOf[r] = p}

SumUSD(rs) == MapThenSumSet(LAMBDA r : USDOf[r], rs)
ReservedUSD(p) == SumUSD(ReservationsOf(p))

(* The first caller of a parent freezes the budget it brought.             *)
FreezeBudget(r) ==
  frozen' = [frozen EXCEPT ![ParentOf[r]] = IF @ = None THEN BudgetOf[r] ELSE @]

(* Seeded faults: one of the two limits is not enforced.                   *)
BudgetAdmitsAnyNumber(r, budget) ==
  /\ budget = BudgetOf[r]
  /\ ReservedUSD(ParentOf[r]) + USDOf[r] <= budget.maxUSD

BudgetAdmitsAnyUSD(r, budget) ==
  /\ budget = BudgetOf[r]
  /\ Cardinality(ReservationsOf(ParentOf[r])) < budget.maxAttempts

(* Read after FreezeBudget, as reserveBudget re-reads the file it wrote.   *)
BudgetAdmits(r, budget) ==
  /\ budget = BudgetOf[r]
  /\ Cardinality(ReservationsOf(ParentOf[r])) < budget.maxAttempts
  /\ ReservedUSD(ParentOf[r]) + USDOf[r] <= budget.maxUSD

ReservationExists(r) ==
  \E s \in ReservationsOf(ParentOf[r]) : AttemptOf[s] = AttemptOf[r]

-----------------------------------------------------------------------------
(* appendEvent, and the state the events of an attempt leave it in.        *)

AppendEvent(a, from, to) ==
  /\ TransitionAllowed(from, to)
  /\ events' = [events EXCEPT ![a] = Append(@, [from |-> from, to |-> to])]

StateAfter(s) == IF s = <<>> THEN "validated" ELSE s[Len(s)].to
Recorded(a) == StateAfter(events[a])

(* Seeded fault: the result's state wins over the events.                  *)
ObservedResultFirst(a) ==
  IF result[a] # None THEN result[a].state
  ELSE IF events[a] # <<>> THEN Recorded(a)
  ELSE "running"

(* composeObservedAttemptState: every event overrides the result's state.  *)
Observed(a) ==
  IF events[a] # <<>> THEN Recorded(a)
  ELSE IF result[a] # None THEN result[a].state
  ELSE "running"

=============================================================================
