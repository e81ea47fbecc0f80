----------------------- MODULE ComposeDispatchProofs -----------------------
(***************************************************************************)
(* Theorems about ComposeDispatch, for every set of dispatchers, requests, *)
(* attempts, parents, keys and workspaces, and any number of crashes.      *)
(***************************************************************************)
EXTENDS ComposeDispatch, SetLemmas

(* The control operators keep the control variables in their types.        *)
LEMMA GotoTyped ==
  ASSUME ControlTypeOK, NEW d \in Dispatchers, pc[d] # "idle",
         NEW at \in PCs \ {"idle"},
         at \in Finalizing => verdict[d] \in Final,
         Goto(d, at)
  PROVE  ControlTypeOK'
BY DEF ControlTypeOK, Goto

LEMMA ReturnTyped ==
  ASSUME ControlTypeOK, NEW d \in Dispatchers, Return(d)
  PROVE  ControlTypeOK'
BY DEF ControlTypeOK, Return, PCs, Codes, Finalizing

LEMMA FinalizeTyped ==
  ASSUME ControlTypeOK, NEW d \in Dispatchers, pc[d] # "idle", NEW v \in Final,
         Finalize(d, v)
  PROVE  ControlTypeOK'
BY DEF ControlTypeOK, Finalize, PCs, Codes, Finalizing

LEMMA ExitWithTyped ==
  ASSUME ControlTypeOK, NEW d \in Dispatchers, pc[d] # "idle",
         NEW at \in Leased, NEW c \in Codes, ExitWith(d, at, c)
  PROVE  ControlTypeOK'
BY DEF ControlTypeOK, ExitWith, PCs, Leased, Finalizing

LEMMA AppendEventTyped ==
  ASSUME events \in [Attempts -> Seq(Events)], NEW a \in Attempts,
         NEW from \in States, NEW to \in States, AppendEvent(a, from, to)
  PROVE  events' \in [Attempts -> Seq(Events)]
<1>1. [from |-> from, to |-> to] \in Events
  BY DEF Events
<1>2. Append(events[a], [from |-> from, to |-> to]) \in Seq(Events)
  BY <1>1
<1> QED
  BY <1>2 DEF AppendEvent

(* The request of a dispatcher that has one, and its fields.               *)
LEMMA RequestTyped ==
  ASSUME ControlTypeOK, NEW d \in Dispatchers, pc[d] # "idle"
  PROVE  /\ req[d] \in Requests
         /\ Attempt(d) \in Attempts /\ Workspace(d) \in Workspaces
         /\ ParentOf[req[d]] \in Parents /\ KeyOf[req[d]] \in Keys
         /\ BudgetOf[req[d]] \in Budgets
BY RequestFields DEF ControlTypeOK, Attempt, Workspace

LEMMA InitTyped == Init => TypeOK
<1> SUFFICES ASSUME Init PROVE TypeOK
  OBVIOUS
<1>1. JournalTypeOK
  BY DEF Init, JournalInit, JournalTypeOK
<1>2. ControlTypeOK
  BY DEF Init, ControlTypeOK, PCs, Codes, Finalizing
<1>3. WorldTypeOK
  BY DispatchConstants DEF Init, WorldTypeOK
<1> QED
  BY <1>1, <1>2, <1>3 DEF TypeOK

(* A step of the admission transaction.                                    *)
LEMMA AdmissionTyped ==
  ASSUME TypeOK, NEW d \in Dispatchers, Admission(d)
  PROVE  TypeOK'
<1> USE DEF TypeOK
<1> DEFINE Going == \E at \in Admitting \cup {"lease"} : Goto(d, at)
<1>1. WorldTypeOK'
  BY DEF Admission, Invoke, Replay, RefuseDeadline, ReserveBudget,
         PersistReservation, PersistRequest, BindKey, RecordDispatched,
         RecordRunning, WorldTypeOK, outside, workspace, history
<1>2. ASSUME NEW r \in Requests, Invoke(d, r) PROVE TypeOK'
  <2>1. ControlTypeOK'
    BY <1>2, NoneIsNew DEF Invoke, ControlTypeOK, PCs, Admitting, Finalizing
  <2>2. JournalTypeOK'
    BY <1>2, DispatchConstants DEF Invoke, Lock, JournalTypeOK
  <2> QED
    BY <1>1, <2>1, <2>2
<1>3. ASSUME pc[d] # "idle", Going \/ Return(d) PROVE ControlTypeOK'
  BY <1>3, GotoTyped, ReturnTyped DEF PCs, Admitting, Finalizing
<1>4. ASSUME pc[d] # "idle", jlock' \in {jlock, None}, Going \/ Return(d), 
             UNCHANGED <<frozen, reservations, request, idem, events, result,
                         cancelFile, pre>>
      PROVE  TypeOK'
  BY <1>1, <1>3, <1>4 DEF JournalTypeOK
<1>5. CASE Replay(d) \/ RefuseDeadline(d)
  BY <1>4, <1>5 DEF Replay, RefuseDeadline, Abort, Unlock
<1>6. CASE ReserveBudget(d)
  <2>1. jlock' \in {jlock, None} /\ (Going \/ Return(d)) /\ pc[d] # "idle"
    BY <1>6 DEF ReserveBudget, Created, Abort, Unlock, Admitting
  <2>2. frozen' \in [Parents -> Budgets \cup {None}]
    BY <1>6, <2>1, RequestTyped DEF ReserveBudget, FreezeBudget, JournalTypeOK
  <2> QED
    BY <1>1, <1>3, <1>6, <2>1, <2>2 DEF ReserveBudget, JournalTypeOK
<1>7. CASE PersistReservation(d)
  <2>1. jlock' \in {jlock, None} /\ (Going \/ Return(d)) /\ pc[d] # "idle"
    BY <1>7 DEF PersistReservation, Created, Abort, Unlock, Admitting
  <2>2. reservations' \in SUBSET Requests
    BY <1>7, <2>1, RequestTyped DEF PersistReservation, JournalTypeOK
  <2> QED
    BY <1>1, <1>3, <1>7, <2>1, <2>2 DEF PersistReservation, JournalTypeOK
<1>8. CASE PersistRequest(d)
  <2>1. jlock' \in {jlock, None} /\ (Going \/ Return(d)) /\ pc[d] # "idle"
    BY <1>8 DEF PersistRequest, Created, Abort, Unlock, Admitting
  <2>2. request' \in [Attempts -> Requests \cup {None}]
    BY <1>8, <2>1, RequestTyped DEF PersistRequest, JournalTypeOK
  <2> QED
    BY <1>1, <1>3, <1>8, <2>1, <2>2 DEF PersistRequest, JournalTypeOK
<1>9. CASE BindKey(d)
  <2>1. jlock' \in {jlock, None} /\ (Going \/ Return(d)) /\ pc[d] # "idle"
    BY <1>9 DEF BindKey, Created, Abort, Unlock, Admitting
  <2>2. idem' \in [Keys -> Requests \cup {None}]
    BY <1>9, <2>1, RequestTyped DEF BindKey, JournalTypeOK
  <2> QED
    BY <1>1, <1>3, <1>9, <2>1, <2>2 DEF BindKey, JournalTypeOK
<1>10. CASE RecordDispatched(d) \/ RecordRunning(d)
  <2>1. jlock' \in {jlock, None} /\ (Going \/ Return(d)) /\ pc[d] # "idle"
    BY <1>10 DEF RecordDispatched, RecordRunning, Created, Abort, Unlock, Admitting
  <2>2. \/ UNCHANGED events
        \/ AppendEvent(Attempt(d), "validated", "dispatched")
        \/ AppendEvent(Attempt(d), "dispatched", "running")
    BY <1>10 DEF RecordDispatched, RecordRunning
  <2>3. events' \in [Attempts -> Seq(Events)]
    BY <2>1, <2>2, RequestTyped, AppendEventTyped DEF JournalTypeOK, States
  <2> QED
    BY <1>1, <1>3, <1>10, <2>1, <2>3
       DEF RecordDispatched, RecordRunning, JournalTypeOK
<1> QED
  BY <1>2, <1>5, <1>6, <1>7, <1>8, <1>9, <1>10 DEF Admission

(* A step of the execution under the lease.                                *)
LEMMA ExecutionTyped ==
  ASSUME TypeOK, NEW d \in Dispatchers, Execution(d)
  PROVE  TypeOK'
<1> USE DEF TypeOK
<1>1. pc[d] # "idle"
  BY DEF Execution, ClaimLease, Preflight, WriteSnapshot, SpawnDelegate,
         DelegateReturns, CheckCanceled, CheckBeforeVerifier, StartVerifier,
         VerifierReturns, RecheckCanceled, CheckAfterVerifier, LastCheck
<1>2. /\ Attempt(d) \in Attempts /\ Workspace(d) \in Workspaces
  BY <1>1, RequestTyped
<1>3. JournalTypeOK'
  <2>1. CASE WriteSnapshot(d)
    BY <1>2, <2>1 DEF WriteSnapshot, JournalTypeOK
  <2>2. CASE ~WriteSnapshot(d)
    <3>1. UNCHANGED journal
      BY <2>2 DEF Execution, ClaimLease, Preflight, SpawnDelegate,
         DelegateReturns, CheckCanceled, CheckBeforeVerifier, StartVerifier,
         VerifierReturns, RecheckCanceled, CheckAfterVerifier, LastCheck
    <3> QED
      BY <3>1 DEF journal, JournalTypeOK
  <2> QED
    BY <2>1, <2>2
<1>4. WorldTypeOK'
  <2>1. CASE ClaimLease(d)
    BY <1>2, <2>1 DEF ClaimLease, WorldTypeOK, workspace, history
  <2>2. CASE SpawnDelegate(d) \/ DelegateReturns(d)
    BY <1>2, <2>2 DEF SpawnDelegate, DelegateReturns, WorldTypeOK, workspace, history
  <2>3. CASE StartVerifier(d) \/ VerifierReturns(d)
    BY <1>2, <2>3 DEF StartVerifier, VerifierReturns, WorldTypeOK, workspace, history
  <2>4. CASE \/ Preflight(d) \/ WriteSnapshot(d) \/ CheckCanceled(d)
             \/ CheckBeforeVerifier(d) \/ RecheckCanceled(d)
             \/ CheckAfterVerifier(d) \/ LastCheck(d)
    BY <2>4 DEF Preflight, WriteSnapshot, CheckCanceled, CheckBeforeVerifier,
         RecheckCanceled, CheckAfterVerifier, LastCheck, WorldTypeOK, outside,
         workspace, history
  <2> QED
    BY <2>1, <2>2, <2>3, <2>4 DEF Execution
<1>5. ControlTypeOK'
  <2>1. ASSUME NEW at \in Leased, Goto(d, at) PROVE ControlTypeOK'
    BY <1>1, <2>1, GotoTyped DEF PCs, Leased, Finalizing
  <2>2. ASSUME NEW v \in {Blocked, Failed, Verified}, Finalize(d, v)
        PROVE  ControlTypeOK'
    BY <1>1, <2>2, FinalizeTyped DEF Final, Blocked, Failed, Verified
  <2>3. ASSUME NEW at \in Leased, NEW c \in Codes, ExitWith(d, at, c)
        PROVE  ControlTypeOK'
    BY <1>1, <2>3, ExitWithTyped
  <2>4. CASE ClaimLease(d) \/ Preflight(d) \/ WriteSnapshot(d)
    BY <2>1, <2>2, <2>4 DEF ClaimLease, Preflight, WriteSnapshot, Leased
  <2>5. CASE SpawnDelegate(d)
    BY <2>1, <2>3, <2>5 DEF SpawnDelegate, Leased, Codes
  <2>6. CASE DelegateReturns(d)
    BY <2>3, <2>6 DEF DelegateReturns, ExitCodes, Leased, Codes
  <2>7. CASE CheckCanceled(d)
    BY <2>7 DEF CheckCanceled, ControlTypeOK, PCs, Leased, Finalizing
  <2>8. CASE CheckBeforeVerifier(d)
    BY <2>1, <2>2, <2>8 DEF CheckBeforeVerifier, Leased
  <2>9. CASE StartVerifier(d)
    BY <2>1, <2>2, <2>3, <2>9 DEF StartVerifier, Leased, Codes
  <2>10. CASE VerifierReturns(d)
    BY <1>2, <2>10 DEF VerifierReturns, ControlTypeOK, WorldTypeOK, ExitCodes,
         Codes, PCs, Leased, Finalizing
  <2>11. CASE RecheckCanceled(d) \/ CheckAfterVerifier(d) \/ LastCheck(d)
    BY <2>1, <2>2, <2>11 DEF RecheckCanceled, CheckAfterVerifier, LastCheck, Leased
  <2> QED
    BY <2>4, <2>5, <2>6, <2>7, <2>8, <2>9, <2>10, <2>11 DEF Execution
<1> QED
  BY <1>3, <1>4, <1>5

(* A step of composeFinalizeAttempt, or the release of the lease.          *)
LEMMA FinalizationTyped ==
  ASSUME TypeOK, NEW d \in Dispatchers, Finalization(d)
  PROVE  TypeOK'
<1> USE DEF TypeOK
<1>1. pc[d] # "idle"
  BY DEF Finalization, LockForResult, RecordResult, PublishResult, ReleaseLease
<1>2. Attempt(d) \in Attempts /\ Workspace(d) \in Workspaces
  BY <1>1, RequestTyped
<1>3. ASSUME NEW at \in {"record", "publish", "release"}, pc[d] \in Finalizing,
             Goto(d, at)
      PROVE  ControlTypeOK'
  BY <1>1, <1>3, GotoTyped DEF PCs, ControlTypeOK, Finalizing
<1>4. CASE LockForResult(d)
  <2>1. jlock' \in Processes \cup {None}
    BY <1>4, DispatchConstants DEF LockForResult, Lock, JournalTypeOK
  <2> QED
    BY <1>3, <1>4, <2>1 DEF LockForResult, JournalTypeOK, WorldTypeOK, outside,
         workspace, history, Finalizing
<1>5. CASE RecordResult(d)
  <2>1. [state |-> verdict[d], writes |-> writes[d]] \in Results
    BY <1>5 DEF RecordResult, ControlTypeOK, Results, Finalizing
  <2>2. result' \in [Attempts -> Results \cup {None}]
    BY <1>2, <1>5, <2>1 DEF RecordResult, JournalTypeOK
  <2>3. jlock' \in Processes \cup {None} /\ ControlTypeOK'
    BY <1>3, <1>5 DEF RecordResult, Unlock, JournalTypeOK, Finalizing
  <2> QED
    BY <1>5, <2>2, <2>3 DEF RecordResult, JournalTypeOK, WorldTypeOK, outside,
         workspace, history
<1>6. CASE PublishResult(d)
  <2>1. verdict[d] \in States
    BY <1>6 DEF PublishResult, ControlTypeOK, Finalizing, States
  <2>2. events' \in [Attempts -> Seq(Events)]
    BY <1>2, <1>6, <2>1, AppendEventTyped DEF PublishResult, JournalTypeOK, States
  <2>3. jlock' = None /\ ControlTypeOK'
    BY <1>3, <1>6 DEF PublishResult, Unlock, Finalizing
  <2> QED
    BY <1>6, <2>2, <2>3 DEF PublishResult, JournalTypeOK, WorldTypeOK, outside,
         workspace, history
<1>7. CASE ReleaseLease(d)
  BY <1>2, <1>7, ReturnTyped DEF ReleaseLease, JournalTypeOK, WorldTypeOK,
     journal, workspace, history
<1> QED
  BY <1>4, <1>5, <1>6, <1>7 DEF Finalization

(* Cancellation, children, editors, crashes and the operator.              *)
LEMMA OthersTyped ==
  ASSUME TypeOK,
         \/ \E d \in Dispatchers : Context(d)
         \/ \E a \in Attempts : Cancel(a)
         \/ Environment
  PROVE  TypeOK'
<1> USE DEF TypeOK
<1>1. ASSUME NEW d \in Dispatchers, Context(d) PROVE TypeOK'
  BY <1>1 DEF Context, WatchCancel, Deadline, ContextEnds, JournalTypeOK,
     ControlTypeOK, WorldTypeOK, journal, outside, workspace, history
<1>2. ASSUME NEW a \in Attempts, Cancel(a) PROVE TypeOK'
  BY <1>2 DEF Cancel, JournalTypeOK, ControlTypeOK, WorldTypeOK, control, outside,
     workspace, history
<1>3. ASSUME NEW a \in Attempts, ChildWrites(a) \/ ChildTampers(a) \/ OrphanExits(a)
      PROVE  TypeOK'
  BY <1>3 DEF ChildWrites, ChildTampers, OrphanExits, JournalTypeOK,
     ControlTypeOK, WorldTypeOK, journal, control, workspace, history
<1>4. ASSUME NEW w \in Workspaces, Edit(w) \/ CleanWorkspace(w) \/ RemoveStaleLease(w)
      PROVE  TypeOK'
  <2>1. JournalTypeOK' /\ ControlTypeOK'
    BY <1>4 DEF Edit, EditCandidate, EditCovered, CleanWorkspace, RemoveStaleLease, JournalTypeOK,
       ControlTypeOK, journal, control
  <2>2. CASE Edit(w)
    <3>1. edits' \in 0..MaxEdits
      BY <2>2, DispatchConstants DEF Edit, EditCandidate, EditCovered, WorldTypeOK
    <3>2. cand' \in [Workspaces -> Contents]
      BY <2>2 DEF Edit, EditCandidate, EditCovered, WorldTypeOK
    <3>3. intact' \in SUBSET Workspaces /\ slipped' \in SUBSET Workspaces
      BY <2>2 DEF Edit, EditCandidate, EditCovered, WorldTypeOK
    <3>4. rewritten' \in SUBSET Attempts
      BY <2>2 DEF Edit, EditCandidate, EditCovered, ChildrenIn, WorldTypeOK
    <3> QED
      BY <2>1, <2>2, <3>1, <3>2, <3>3, <3>4 DEF Edit, WorldTypeOK
  <2>3. CASE CleanWorkspace(w) \/ RemoveStaleLease(w)
    BY <2>1, <2>3, DispatchConstants DEF CleanWorkspace, RemoveStaleLease,
       WorldTypeOK, workspace, history
  <2> QED
    BY <1>4, <2>2, <2>3
<1>5. ASSUME NEW d \in Dispatchers, Crash(d) PROVE TypeOK'
  BY <1>5 DEF Crash, JournalTypeOK, ControlTypeOK, WorldTypeOK, journal, outside,
     workspace, history, PCs, Codes, Finalizing
<1>6. CASE RemoveStaleJournalLock
  BY <1>6 DEF RemoveStaleJournalLock, JournalTypeOK, ControlTypeOK, WorldTypeOK,
     control, outside, workspace, history
<1> QED
  BY <1>1, <1>2, <1>3, <1>4, <1>5, <1>6 DEF Environment

(* Any step.                                                               *)
LEMMA NextTyped ==
  ASSUME TypeOK, [Next]_vars
  PROVE  TypeOK'
<1>1. ASSUME NEW d \in Dispatchers, Dispatcher(d) PROVE TypeOK'
  BY <1>1, AdmissionTyped, ExecutionTyped, FinalizationTyped DEF Dispatcher
<1>2. CASE UNCHANGED vars
  BY <1>2 DEF TypeOK, JournalTypeOK, ControlTypeOK, WorldTypeOK, vars,
     journal, control, workspace, history
<1> QED
  BY <1>1, <1>2, OthersTyped DEF Next

(* Every variable keeps its type: no handler ever records a verdict, state,*)
(* owner or content it should not be able to produce.                      *)
THEOREM TypeCorrect == Spec => []TypeOK
BY InitTyped, NextTyped, PTL DEF Spec

-----------------------------------------------------------------------------
(* Mutual exclusion of journal transactions.                               *)

LEMMA NoneIsNoDispatcher == None \notin Dispatchers
BY NoneIsNew, DispatchConstants

(* A step of d that is not in the journal leaves the lock to the others.   *)
LEMMA NextExclusive ==
  ASSUME TypeOK, JournalExclusive, [Next]_vars
  PROVE  JournalExclusive'
<1> USE DEF TypeOK, ControlTypeOK
<1>1. ASSUME NEW d \in Dispatchers, NEW at, pc' = [pc EXCEPT ![d] = at],
             \/ at \in InJournal /\ jlock' = d /\ jlock \in {None, d}
             \/ at \notin InJournal /\ (Unlock(d) \/ UNCHANGED jlock)
      PROVE  JournalExclusive'
  BY <1>1, NoneIsNoDispatcher DEF JournalExclusive, Unlock
<1>2. ASSUME NEW d \in Dispatchers, Admission(d) PROVE JournalExclusive'
  <2>1. ASSUME NEW r \in Requests, Invoke(d, r) PROVE JournalExclusive'
    BY <1>1, <2>1 DEF Invoke, Lock, InJournal, Admitting
  <2>2. ASSUME Abort(d) PROVE JournalExclusive'
    BY <1>1, <2>2 DEF Abort, Return, InJournal, Admitting
  <2>3. ASSUME NEW at \in Admitting, pc[d] \in Admitting, Created(d, at)
        PROVE  JournalExclusive'
    BY <1>1, <2>2, <2>3 DEF Created, Goto, JournalExclusive, InJournal
  <2>4. CASE \/ Replay(d) \/ RefuseDeadline(d) \/ ReserveBudget(d)
             \/ PersistReservation(d) \/ PersistRequest(d) \/ BindKey(d)
             \/ RecordDispatched(d)
    BY <2>2, <2>3, <2>4 DEF Replay, RefuseDeadline, ReserveBudget,
       PersistReservation, PersistRequest, BindKey, RecordDispatched, Admitting
  <2>5. CASE RecordRunning(d)
    BY <1>1, <2>2, <2>5 DEF RecordRunning, Goto, Return, InJournal, Admitting
  <2> QED
    BY <1>2, <2>1, <2>4, <2>5 DEF Admission
<1>3. ASSUME NEW d \in Dispatchers, Execution(d) PROVE JournalExclusive'
  <2>1. UNCHANGED jlock
    BY <1>3 DEF Execution, ClaimLease, Preflight, WriteSnapshot, SpawnDelegate,
       DelegateReturns, CheckCanceled, CheckBeforeVerifier, StartVerifier,
       VerifierReturns, RecheckCanceled, CheckAfterVerifier, LastCheck, journal
  <2>2. \E at \in Leased \cup {"finalize"} : pc' = [pc EXCEPT ![d] = at]
    BY <1>3 DEF Execution, ClaimLease, Preflight, WriteSnapshot, SpawnDelegate,
       DelegateReturns, CheckCanceled, CheckBeforeVerifier, StartVerifier,
       VerifierReturns, RecheckCanceled, CheckAfterVerifier, LastCheck, Goto,
       Finalize, ExitWith, Leased
  <2> QED
    BY <1>1, <2>1, <2>2 DEF InJournal, Admitting, Leased
<1>4. ASSUME NEW d \in Dispatchers, Finalization(d) PROVE JournalExclusive'
  <2>1. pc[d] \in {"record", "publish"} => jlock = d
    BY DEF JournalExclusive, InJournal
  <2>2. CASE LockForResult(d) \/ RecordResult(d)
    BY <1>1, <2>1, <2>2 DEF LockForResult, RecordResult, Lock, Goto, InJournal,
       Admitting
  <2>3. CASE PublishResult(d) \/ ReleaseLease(d)
    BY <1>1, <2>3 DEF PublishResult, ReleaseLease, Goto, Return, InJournal,
       Admitting, journal
  <2> QED
    BY <1>4, <2>2, <2>3 DEF Finalization
<1>5. ASSUME NEW d \in Dispatchers, Crash(d) PROVE JournalExclusive'
  BY <1>1, <1>5 DEF Crash, InJournal, Admitting, journal
<1>6. CASE RemoveStaleJournalLock
  BY <1>6, NoneIsNoDispatcher DEF RemoveStaleJournalLock, JournalExclusive,
     Crashed, InJournal, Admitting, control
<1>7. ASSUME UNCHANGED <<pc, jlock>> PROVE JournalExclusive'
  BY <1>7 DEF JournalExclusive
<1>8. CASE \/ \E d \in Dispatchers : Context(d)
           \/ \E a \in Attempts :
                Cancel(a) \/ ChildWrites(a) \/ ChildTampers(a) \/ OrphanExits(a)
           \/ \E w \in Workspaces : Edit(w) \/ CleanWorkspace(w) \/ RemoveStaleLease(w)
           \/ UNCHANGED vars
  BY <1>7, <1>8 DEF Context, WatchCancel, Deadline, ContextEnds, Cancel,
     ChildWrites, ChildTampers, OrphanExits, Edit, EditCandidate, EditCovered, CleanWorkspace,
     RemoveStaleLease, vars, journal, control
<1> QED
  BY <1>2, <1>3, <1>4, <1>5, <1>6, <1>8 DEF Next, Dispatcher, Environment

(* Two dispatchers are never in the journal at once, whoever crashes and   *)
(* whichever stale lock is removed.                                        *)
THEOREM Exclusion == Spec => []JournalExclusive
<1>1. Init => JournalExclusive
  BY DEF Init, JournalExclusive, InJournal, Admitting
<1> QED
  BY <1>1, NextExclusive, TypeCorrect, PTL DEF Spec

-----------------------------------------------------------------------------
(* The journal only grows.                                                 *)

LEMMA AdmissionAppends ==
  ASSUME TypeOK, NEW d \in Dispatchers, Admission(d)
  PROVE  /\ Kept(frozen, frozen') /\ Kept(request, request') /\ Kept(idem, idem')
         /\ reservations \subseteq reservations'
         /\ UNCHANGED <<result, cancelFile, pre>>
<1>1. Kept(frozen, frozen')
  BY DEF Admission, Invoke, Replay, RefuseDeadline, ReserveBudget, FreezeBudget,
     PersistReservation, PersistRequest, BindKey, RecordDispatched, RecordRunning,
     Kept, TypeOK, JournalTypeOK
<1>2. Kept(request, request')
  BY DEF Admission, Invoke, Replay, RefuseDeadline, ReserveBudget,
     PersistReservation, PersistRequest, BindKey, RecordDispatched, RecordRunning,
     Kept, TypeOK, JournalTypeOK
<1>3. Kept(idem, idem')
  BY DEF Admission, Invoke, Replay, RefuseDeadline, ReserveBudget,
     PersistReservation, PersistRequest, BindKey, RecordDispatched, RecordRunning,
     Kept, TypeOK, JournalTypeOK
<1>4. reservations \subseteq reservations' /\ UNCHANGED <<result, cancelFile, pre>>
  BY DEF Admission, Invoke, Replay, RefuseDeadline, ReserveBudget,
     PersistReservation, PersistRequest, BindKey, RecordDispatched, RecordRunning
<1> QED
  BY <1>1, <1>2, <1>3, <1>4

(* Only appendEvent touches the events, one event of one attempt at a time.*)
LEMMA EventsGrow ==
  ASSUME TypeOK,
         \/ UNCHANGED events
         \/ \E a \in Attempts : \E from, to \in States : AppendEvent(a, from, to)
  PROVE  \A a \in Attempts : \/ events'[a] = events[a]
                             \/ \E e \in Events : events'[a] = Append(events[a], e)
<1>1. ASSUME NEW b \in Attempts, NEW from \in States, NEW to \in States,
             AppendEvent(b, from, to), NEW a \in Attempts
      PROVE  \/ events'[a] = events[a]
             \/ \E e \in Events : events'[a] = Append(events[a], e)
  <2>1. [from |-> from, to |-> to] \in Events
    BY DEF Events
  <2>2. CASE a = b
    BY <1>1, <2>1, <2>2 DEF AppendEvent, TypeOK, JournalTypeOK
  <2>3. CASE a # b
    BY <1>1, <2>3 DEF AppendEvent, TypeOK, JournalTypeOK
  <2> QED
    BY <2>2, <2>3
<1> QED
  BY <1>1

(* What a step may do to the records.                                      *)
Grows ==
  /\ Kept(frozen, frozen') /\ Kept(request, request')
  /\ Kept(idem, idem') /\ Kept(result, result')
  /\ reservations \subseteq reservations'
  /\ cancelFile \subseteq cancelFile' /\ pre \subseteq pre'
  /\ \/ UNCHANGED events
     \/ \E a \in Attempts : \E from, to \in States : AppendEvent(a, from, to)

LEMMA NextGrows ==
  ASSUME TypeOK, Next
  PROVE  Grows
<1> USE DEF Grows
<1>1. ASSUME NEW d \in Dispatchers, Admission(d) PROVE Grows
  <2>1. CASE RecordDispatched(d) \/ RecordRunning(d)
    <3>1. Attempt(d) \in Attempts
      BY <2>1, RequestTyped DEF RecordDispatched, RecordRunning, TypeOK
    <3>2. \/ UNCHANGED events
          \/ AppendEvent(Attempt(d), "validated", "dispatched")
          \/ AppendEvent(Attempt(d), "dispatched", "running")
      BY <2>1 DEF RecordDispatched, RecordRunning
    <3> QED
      BY <1>1, <3>1, <3>2, AdmissionAppends DEF Kept, States
  <2>2. CASE ~(RecordDispatched(d) \/ RecordRunning(d))
    <3>1. UNCHANGED events
      BY <1>1, <2>2 DEF Admission, Invoke, Replay, RefuseDeadline, ReserveBudget,
         PersistReservation, PersistRequest, BindKey
    <3> QED
      BY <1>1, <3>1, AdmissionAppends DEF Kept
  <2> QED
    BY <2>1, <2>2
<1>2. ASSUME NEW d \in Dispatchers, Execution(d) PROVE Grows
  BY <1>2 DEF Execution, ClaimLease, Preflight, WriteSnapshot, SpawnDelegate,
     DelegateReturns, CheckCanceled, CheckBeforeVerifier, StartVerifier,
     VerifierReturns, RecheckCanceled, CheckAfterVerifier, LastCheck, journal, Kept
<1>3. ASSUME NEW d \in Dispatchers, Finalization(d) PROVE Grows
  <2>1. Attempt(d) \in Attempts
    BY <1>3, RequestTyped DEF Finalization, LockForResult, RecordResult,
       PublishResult, ReleaseLease, TypeOK
  <2>2. Kept(result, result')
    BY <1>3 DEF Finalization, LockForResult, RecordResult, PublishResult,
       ReleaseLease, journal, Kept, TypeOK, JournalTypeOK
  <2>3. \/ UNCHANGED events
        \/ \E to \in States : AppendEvent(Attempt(d), "running", to)
    BY <1>3 DEF Finalization, LockForResult, RecordResult, PublishResult,
       ReleaseLease, journal, TypeOK, ControlTypeOK, Finalizing, States
  <2>4. UNCHANGED <<frozen, reservations, request, idem, cancelFile, pre>>
    BY <1>3 DEF Finalization, LockForResult, RecordResult, PublishResult,
       ReleaseLease, journal
  <2> QED
    BY <2>1, <2>2, <2>3, <2>4 DEF Kept, States
<1>4. ASSUME NEW a \in Attempts, Cancel(a) PROVE Grows
  BY <1>4 DEF Cancel, Kept
<1>5. ASSUME \/ \E d \in Dispatchers : Context(d)
             \/ Environment
      PROVE  Grows
  BY <1>5 DEF Context, WatchCancel, Deadline, ContextEnds, Environment,
     ChildWrites, ChildTampers, OrphanExits, Edit, EditCandidate, EditCovered, CleanWorkspace,
     RemoveStaleLease, RemoveStaleJournalLock, Crash, journal, Kept
<1> QED
  BY <1>1, <1>2, <1>3, <1>4, <1>5 DEF Next, Dispatcher

(* No handler, fault or recovery rewrites or removes a record.             *)
LEMMA NextKeeps ==
  ASSUME TypeOK, [Next]_vars
  PROVE  [/\ Kept(frozen, frozen') /\ Kept(request, request')
          /\ Kept(idem, idem') /\ Kept(result, result')
          /\ reservations \subseteq reservations'
          /\ cancelFile \subseteq cancelFile' /\ pre \subseteq pre'
          /\ \A a \in Attempts :
               \/ events'[a] = events[a]
               \/ \E e \in Events : events'[a] = Append(events[a], e)]_vars
BY NextGrows, EventsGrow DEF Grows

(* The same of every behaviour: the journal only grows.                    *)
THEOREM RecordsKept == Spec => JournalAppendOnly
BY NextKeeps, TypeCorrect, PTL DEF Spec, JournalAppendOnly

-----------------------------------------------------------------------------
(* Ownership of attempts, workspaces and children.                         *)

(* d goes to `at`, and nothing else that ownership is about changes.       *)
Moves(d, at) ==
  /\ pc' = [pc EXCEPT ![d] = at]
  /\ \A e \in Dispatchers \ {d} : req'[e] = req[e]
  /\ at \notin {"idle", "lookup"} => req'[d] = req[d]
  /\ at \in Owning => pc[d] \in Owning
  /\ at \in Unspawned => pc[d] \in Unspawned
  /\ at \in Leased => pc[d] \in Leased
  /\ pc[d] \in Waiting => at \in Waiting
  /\ UNCHANGED <<request, executed, lease, child>>

LEMMA MovesKeepOwnership ==
  ASSUME TypeOK, Ownership, NEW d \in Dispatchers, NEW at \in PCs, Moves(d, at)
  PROVE  Ownership'
<1> USE DEF TypeOK, ControlTypeOK, WorldTypeOK, JournalTypeOK, Ownership
<1>1. at \in {"idle", "lookup"} =>
        at \notin Owning /\ at \notin Unspawned /\ at \notin Waiting
  BY DEF Owning, Unspawned, Waiting, Leased, Finalizing
<1>2. RequestsMatch'
  BY DEF Moves, RequestsMatch
<1>3. OwnRequest'
  BY <1>1 DEF Moves, OwnRequest, Attempt
<1>4. OneOwner'
  BY <1>1 DEF Moves, OneOwner, Attempt
<1>5. FirstExecution'
  BY <1>1 DEF Moves, FirstExecution, Attempt
<1>6. LeaseHeld'
  BY <1>1 DEF Moves, LeaseHeld, Workspace, Owning
<1>7. ChildrenOwned'
  <2>1. ASSUME NEW a \in Attempts, child[a] # "none"
        PROVE  \E e \in Dispatchers : /\ req'[e] # None /\ req'[e] = request[a]
                                      /\ lease[Workspace(e)'] = e
                                      /\ pc'[e] \in Waiting
    <3>1. PICK e \in Dispatchers : /\ req[e] # None /\ req[e] = request[a]
                                   /\ lease[Workspace(e)] = e
                                   /\ pc[e] \in Waiting
      BY <2>1 DEF ChildrenOwned
    <3>2. req'[e] = req[e] /\ pc'[e] \in Waiting
      BY <1>1, <3>1 DEF Moves
    <3> QED
      BY <3>1, <3>2 DEF Workspace
  <2> QED
    BY <2>1 DEF ChildrenOwned, Moves
<1> QED
  BY <1>2, <1>3, <1>4, <1>5, <1>6, <1>7

LEMMA AdmissionOwnership ==
  ASSUME TypeOK, Ownership, NEW d \in Dispatchers, Admission(d)
  PROVE  Ownership'
<1> USE DEF TypeOK, ControlTypeOK, JournalTypeOK, WorldTypeOK
<1>1. UNCHANGED <<executed, lease, child>>
  BY DEF Admission, Invoke, Replay, RefuseDeadline, ReserveBudget,
     PersistReservation, PersistRequest, BindKey, RecordDispatched, RecordRunning,
     outside, history
<1>2. ASSUME pc[d] \in Admitting, Return(d), UNCHANGED request PROVE Ownership'
  <2>1. Moves(d, "idle")
    BY <1>1, <1>2 DEF Moves, Return, Owning, Unspawned, Waiting, Leased, Finalizing,
       Admitting
  <2> QED
    BY <2>1, MovesKeepOwnership DEF PCs
<1>3. ASSUME NEW at \in Admitting \cup {"lease"}, pc[d] \in Admitting, Goto(d, at),
             at \in Owning => pc[d] \in Owning,
             UNCHANGED request
      PROVE  Ownership'
  <2>1. Moves(d, at)
    BY <1>1, <1>3 DEF Moves, Goto, Owning, Unspawned, Waiting, Leased, Finalizing,
       Admitting
  <2> QED
    BY <2>1, MovesKeepOwnership DEF PCs
<1>4. ASSUME NEW r \in Requests, Invoke(d, r) PROVE Ownership'
  <2>1. Moves(d, "lookup")
    BY <1>1, <1>4 DEF Moves, Invoke, Owning, Unspawned, Waiting, Leased, Finalizing
  <2> QED
    BY <2>1, MovesKeepOwnership DEF PCs, Admitting
<1>5. CASE Replay(d) \/ RefuseDeadline(d) \/ ReserveBudget(d) \/ PersistReservation(d)
  BY <1>2, <1>3, <1>5 DEF Replay, RefuseDeadline, ReserveBudget,
     PersistReservation, Created, Abort, Owning, Admitting, Leased, Finalizing
<1>6. CASE BindKey(d) \/ RecordDispatched(d) \/ RecordRunning(d)
  BY <1>2, <1>3, <1>6 DEF BindKey, RecordDispatched, RecordRunning, Created,
     Abort, Owning, Admitting
<1>7. CASE PersistRequest(d)
  <2>1. pc[d] = "request" /\ Attempt(d) \in Attempts /\ req[d] \in Requests
    BY <1>7, RequestTyped DEF PersistRequest
  <2>2. CASE UNCHANGED request
    BY <1>2, <1>7, <2>1, <2>2, NoneIsNew DEF PersistRequest, Abort, Admitting
  <2>3. CASE /\ request[Attempt(d)] = None
             /\ request' = [request EXCEPT ![Attempt(d)] = req[d]]
             /\ Created(d, "bind")
    <3> USE DEF Ownership
    <3>1. /\ \A e \in Dispatchers \ {d} : pc'[e] = pc[e] /\ req'[e] = req[e]
          /\ \/ pc'[d] = "bind" /\ req'[d] = req[d]
             \/ pc'[d] = "idle"
      BY <2>3 DEF Created, Abort, Goto, Return
    <3>2. \A e \in Dispatchers : pc[e] \in Owning =>
            Attempt(e) \in Attempts /\ request[Attempt(e)] # None
      BY RequestTyped, NoneIsNew DEF OwnRequest, Owning, Leased, Finalizing
    <3>3. \A e \in Dispatchers : pc[e] \in Owning => Attempt(e) # Attempt(d)
      BY <2>3, <3>2
    <3>4. \A a \in Attempts \ {Attempt(d)} : request'[a] = request[a]
      BY <2>3
    <3>5. request'[Attempt(d)] = req[d]
      BY <2>1, <2>3
    <3>6. RequestsMatch'
      BY <3>4, <3>5 DEF RequestsMatch, Attempt
    <3>7. OwnRequest'
      <4>1. ASSUME NEW e \in Dispatchers \ {d}, pc'[e] \in Owning
            PROVE  request'[Attempt(e)'] = req'[e]
        <5>1. pc[e] \in Owning /\ req'[e] = req[e]
          BY <3>1, <4>1
        <5>2. Attempt(e)' = Attempt(e)
          BY <5>1 DEF Attempt
        <5>3. request'[Attempt(e)] = request[Attempt(e)]
          BY <3>2, <3>3, <3>4, <5>1
        <5> QED
          BY <5>1, <5>2, <5>3 DEF OwnRequest
      <4>2. pc'[d] \in Owning => request'[Attempt(d)'] = req'[d]
        BY <3>1, <3>5 DEF Attempt, Owning, Leased, Finalizing
      <4> QED
        BY <4>1, <4>2 DEF OwnRequest, Attempt
    <3>8. OneOwner'
      BY <3>1, <3>3 DEF OneOwner, Attempt, Owning, Leased, Finalizing
    <3>9. FirstExecution'
      <4>1. Attempt(d) \notin executed
        BY <2>3 DEF FirstExecution
      <4>2. \A a \in executed' : request'[a] # None
        BY <1>1, <3>4, <4>1 DEF FirstExecution
      <4> QED
        BY <1>1, <3>1, <4>1, <4>2 DEF FirstExecution, Attempt, Unspawned
    <3>10. LeaseHeld'
      BY <1>1, <3>1 DEF LeaseHeld, Workspace, Leased
    <3>11. ChildrenOwned'
      <4>1. ASSUME NEW a \in Attempts, child[a] # "none"
            PROVE  \E e \in Dispatchers : /\ req'[e] # None /\ req'[e] = request'[a]
                                          /\ lease[Workspace(e)'] = e
                                          /\ pc'[e] \in Waiting
        <5>1. PICK e \in Dispatchers : /\ req[e] # None /\ req[e] = request[a]
                                       /\ lease[Workspace(e)] = e
                                       /\ pc[e] \in Waiting
          BY <4>1 DEF ChildrenOwned
        <5>2. e # d /\ a # Attempt(d)
          BY <2>1, <2>3, <5>1 DEF Waiting
        <5> QED
          BY <3>1, <3>4, <5>1, <5>2 DEF Workspace
      <4> QED
        BY <1>1, <4>1 DEF ChildrenOwned
    <3> QED
      BY <3>6, <3>7, <3>8, <3>9, <3>10, <3>11
  <2> QED
    BY <1>7, <2>2, <2>3 DEF PersistRequest
<1> QED
  BY <1>4, <1>5, <1>6, <1>7 DEF Admission

(* A step that takes the lease of a workspace nobody holds.                *)
LEMMA ClaimOwnership ==
  ASSUME TypeOK, Ownership, NEW d \in Dispatchers, ClaimLease(d),
         lease[Workspace(d)] = None,
         lease' = [lease EXCEPT ![Workspace(d)] = d],
         Goto(d, "preflight")
  PROVE  Ownership'
<1> USE DEF TypeOK, ControlTypeOK, JournalTypeOK, WorldTypeOK, Ownership
<1>1. /\ pc[d] = "lease" /\ Workspace(d) \in Workspaces
      /\ UNCHANGED <<request, executed, child, req>>
  BY RequestTyped DEF ClaimLease, journal, history, Goto
<1>2. pc' = [pc EXCEPT ![d] = "preflight"]
  BY DEF Goto
<1>3. RequestsMatch' /\ OwnRequest' /\ OneOwner' /\ FirstExecution'
  <2>1. RequestsMatch'
    BY <1>1 DEF RequestsMatch
  <2>2. OwnRequest'
    BY <1>1, <1>2 DEF OwnRequest, Attempt, Owning
  <2>3. OneOwner'
    BY <1>1, <1>2 DEF OneOwner, Attempt, Owning
  <2>4. FirstExecution'
    BY <1>1, <1>2 DEF FirstExecution, Attempt, Unspawned
  <2> QED
    BY <2>1, <2>2, <2>3, <2>4
<1>4. LeaseHeld'
  <2>1. ASSUME NEW e \in Dispatchers, e # d, pc[e] \in Leased
        PROVE  lease'[Workspace(e)] = e
    BY <2>1, NoneIsNoDispatcher DEF LeaseHeld
  <2> QED
    BY <1>1, <1>2, <2>1 DEF LeaseHeld, Workspace
<1>5. ChildrenOwned'
  <2>1. ASSUME NEW a \in Attempts, child[a] # "none"
        PROVE  \E e \in Dispatchers : /\ req[e] # None /\ req[e] = request[a]
                                      /\ lease'[Workspace(e)] = e
                                      /\ pc'[e] \in Waiting
    <3>1. PICK e \in Dispatchers : /\ req[e] # None /\ req[e] = request[a]
                                   /\ lease[Workspace(e)] = e
                                   /\ pc[e] \in Waiting
      BY <2>1 DEF ChildrenOwned
    <3>2. e # d /\ Workspace(e) # Workspace(d)
      BY <1>1, <3>1, NoneIsNoDispatcher DEF Waiting
    <3> QED
      BY <1>2, <3>1, <3>2
  <2> QED
    BY <1>1, <2>1 DEF ChildrenOwned, Workspace
<1> QED
  BY <1>3, <1>4, <1>5

(* A dispatcher that owns its attempt and its lease starts a child, or sees*)
(* it go. It is the only owner of that attempt, so the child is its own.   *)
LEMMA ChildOwnership ==
  ASSUME TypeOK, Ownership, NEW d \in Dispatchers, pc[d] \in Leased,
         NEW at \in Leased,
         pc' = [pc EXCEPT ![d] = at], at \notin Unspawned,
         UNCHANGED <<req, request, lease>>,
         \/ /\ \E k \in {"delegate", "verifier"} : child' = [child EXCEPT ![Attempt(d)] = k]
            /\ executed' \in {executed, executed \cup {Attempt(d)}}
            /\ pc[d] \notin Waiting /\ at \in Waiting
         \/ /\ child' = [child EXCEPT ![Attempt(d)] = "none"]
            /\ executed' = executed
  PROVE  Ownership'
<1> USE DEF TypeOK, ControlTypeOK, JournalTypeOK, WorldTypeOK, Ownership
<1>1. /\ pc[d] \in Owning /\ at \in Owning /\ pc[d] # "idle"
      /\ Attempt(d) \in Attempts /\ Workspace(d) \in Workspaces
      /\ req[d] \in Requests /\ request[Attempt(d)] = req[d]
  BY RequestTyped DEF Owning, Leased, OwnRequest
<1>2. RequestsMatch'
  BY DEF RequestsMatch
<1>3. OwnRequest'
  BY <1>1 DEF OwnRequest, Attempt
<1>4. OneOwner'
  BY <1>1 DEF OneOwner, Attempt
<1>5. FirstExecution'
  <2>1. \A e \in Dispatchers \ {d} : pc[e] \in Unspawned => Attempt(e) # Attempt(d)
    BY <1>1 DEF OneOwner, Unspawned, Owning, Leased
  <2>2. request[Attempt(d)] # None
    BY <1>1, NoneIsNew
  <2> QED
    BY <2>1, <2>2 DEF FirstExecution, Attempt
<1>6. LeaseHeld'
  BY DEF LeaseHeld, Workspace
<1>7. ChildrenOwned'
  <2>1. ASSUME NEW a \in Attempts, child'[a] # "none"
        PROVE  \E e \in Dispatchers : /\ req[e] # None /\ req[e] = request[a]
                                      /\ lease[Workspace(e)] = e
                                      /\ pc'[e] \in Waiting
    <3>1. CASE a = Attempt(d)
      <4>1. at \in Waiting
        BY <1>1, <2>1, <3>1
      <4> QED
        BY <1>1, <3>1, <4>1, NoneIsNew DEF LeaseHeld
    <3>2. CASE a # Attempt(d)
      <4>1. child[a] # "none"
        BY <1>1, <2>1, <3>2
      <4>2. PICK e \in Dispatchers : /\ req[e] # None /\ req[e] = request[a]
                                     /\ lease[Workspace(e)] = e
                                     /\ pc[e] \in Waiting
        BY <4>1 DEF ChildrenOwned
      <4>3. e # d
        BY <3>2, <4>2 DEF RequestsMatch, Attempt
      <4> QED
        BY <4>2, <4>3
    <3> QED
      BY <3>1, <3>2
  <2> QED
    BY <2>1 DEF ChildrenOwned, Workspace
<1> QED
  BY <1>2, <1>3, <1>4, <1>5, <1>6, <1>7

LEMMA ExecutionOwnership ==
  ASSUME TypeOK, Ownership, NEW d \in Dispatchers, Execution(d)
  PROVE  Ownership'
<1>1. ASSUME NEW at \in Leased \cup {"finalize"}, pc[d] \in Leased \cup {"lease"},
             pc[d] \notin Waiting, pc' = [pc EXCEPT ![d] = at], UNCHANGED req,
             at \in Leased => pc[d] \in Leased,
             at \in Unspawned => pc[d] \in Unspawned,
             UNCHANGED <<request, executed, lease, child>>
      PROVE  Ownership'
  <2>1. Moves(d, at)
    BY <1>1 DEF Moves, Owning
  <2> QED
    BY <1>1, <2>1, MovesKeepOwnership DEF PCs, Finalizing
<1>2. CASE ClaimLease(d)
  <2>1. CASE Finalize(d, Blocked) /\ UNCHANGED lease
    BY <1>1, <1>2, <2>1 DEF ClaimLease, Finalize, journal, history, Leased, Waiting,
       Unspawned
  <2>2. CASE /\ lease[Workspace(d)] = None
             /\ lease' = [lease EXCEPT ![Workspace(d)] = d]
             /\ Goto(d, "preflight")
    BY <1>2, <2>2, ClaimOwnership
  <2> QED
    BY <1>2, <2>1, <2>2 DEF ClaimLease
<1>3. CASE Preflight(d) \/ WriteSnapshot(d)
  BY <1>1, <1>3 DEF Preflight, WriteSnapshot, Goto, Finalize, journal, outside,
     history, Leased, Waiting, Unspawned
<1>4. CASE SpawnDelegate(d)
  <2>1. CASE child' = [child EXCEPT ![Attempt(d)] = "delegate"] /\ Goto(d, "delegate")
    <3>1. executed' \in {executed, executed \cup {Attempt(d)}}
      BY <1>4 DEF SpawnDelegate
    <3>2. pc[d] = "spawn" /\ pc' = [pc EXCEPT ![d] = "delegate"]
      BY <1>4, <2>1 DEF SpawnDelegate, Goto
    <3>3. UNCHANGED <<req, request, lease>>
      BY <1>4, <2>1 DEF SpawnDelegate, Goto, journal
    <3> QED
      BY <2>1, <3>1, <3>2, <3>3, ChildOwnership DEF Leased, Waiting, Unspawned
  <2>2. CASE ExitWith(d, "exited", "error") /\ UNCHANGED <<child, executed>>
    BY <1>1, <1>4, <2>2 DEF SpawnDelegate, ExitWith, journal, Leased, Waiting,
       Unspawned
  <2> QED
    BY <1>4, <2>1, <2>2 DEF SpawnDelegate
<1>5. CASE DelegateReturns(d)
  <2>1. /\ pc[d] = "delegate" /\ pc' = [pc EXCEPT ![d] = "exited"]
        /\ UNCHANGED <<req, request, lease, executed>>
        /\ child' = [child EXCEPT ![Attempt(d)] = "none"]
    BY <1>5 DEF DelegateReturns, ExitWith, journal, history
  <2> QED
    BY <2>1, ChildOwnership DEF Leased, Waiting, Unspawned
<1>6. CASE CheckCanceled(d) \/ CheckBeforeVerifier(d)
  BY <1>1, <1>6 DEF CheckCanceled, CheckBeforeVerifier, Goto, Finalize, journal,
     outside, history, Leased, Waiting, Unspawned
<1>7. CASE StartVerifier(d)
  <2>1. CASE child' = [child EXCEPT ![Attempt(d)] = "verifier"] /\ Goto(d, "verifying")
    <3>1. pc[d] = "verify" /\ pc' = [pc EXCEPT ![d] = "verifying"]
      BY <1>7, <2>1 DEF StartVerifier, Goto
    <3>2. UNCHANGED <<req, request, lease, executed>>
      BY <1>7, <2>1 DEF StartVerifier, Goto, journal
    <3> QED
      BY <2>1, <3>1, <3>2, ChildOwnership DEF Leased, Waiting, Unspawned
  <2>2. CASE /\ ExitWith(d, "vexited", "error") \/ Finalize(d, Blocked)
             /\ UNCHANGED child
    BY <1>1, <1>7, <2>2 DEF StartVerifier, ExitWith, Finalize, journal, Leased,
       Waiting, Unspawned
  <2> QED
    BY <1>7, <2>1, <2>2 DEF StartVerifier
<1>8. CASE VerifierReturns(d)
  <2>1. /\ pc[d] = "verifying" /\ pc' = [pc EXCEPT ![d] = "vexited"]
        /\ UNCHANGED <<req, request, lease, executed>>
        /\ child' = [child EXCEPT ![Attempt(d)] = "none"]
    BY <1>8 DEF VerifierReturns, journal, history
  <2> QED
    BY <2>1, ChildOwnership DEF Leased, Waiting, Unspawned
<1>9. CASE RecheckCanceled(d) \/ CheckAfterVerifier(d) \/ LastCheck(d)
  BY <1>1, <1>9 DEF RecheckCanceled, CheckAfterVerifier, LastCheck, Goto, Finalize,
     journal, outside, history, Leased, Waiting, Unspawned
<1> QED
  BY <1>2, <1>3, <1>4, <1>5, <1>6, <1>7, <1>8, <1>9 DEF Execution

LEMMA FinalizationOwnership ==
  ASSUME TypeOK, Ownership, NEW d \in Dispatchers, Finalization(d)
  PROVE  Ownership'
<1>1. CASE LockForResult(d) \/ RecordResult(d) \/ PublishResult(d)
  <2>1. /\ pc[d] \in Finalizing
        /\ \E at \in {"record", "publish", "release"} : Goto(d, at)
        /\ UNCHANGED <<request, outside>>
    BY <1>1 DEF LockForResult, RecordResult, PublishResult, Finalizing
  <2>2. PICK at \in {"record", "publish", "release"} : Goto(d, at)
    BY <2>1
  <2>3. Moves(d, at)
    BY <2>1, <2>2 DEF Moves, Goto, Owning, Unspawned, Waiting, Leased, Finalizing,
       outside, history
  <2> QED
    BY <2>2, <2>3, MovesKeepOwnership DEF PCs, Finalizing
<1>2. CASE ReleaseLease(d)
  <2> USE DEF TypeOK, ControlTypeOK, JournalTypeOK, WorldTypeOK, Ownership
  <2>1. /\ pc[d] = "release" /\ Workspace(d) \in Workspaces
        /\ pc' = [pc EXCEPT ![d] = "idle"]
        /\ \A e \in Dispatchers \ {d} : pc'[e] = pc[e] /\ req'[e] = req[e]
        /\ UNCHANGED <<request, executed, child>>
    BY <1>2, RequestTyped DEF ReleaseLease, Return, journal, history
  <2>2. \A w \in Workspaces : lease[w] # d => lease'[w] = lease[w]
    BY <1>2, <2>1 DEF ReleaseLease
  <2>3. RequestsMatch' /\ OwnRequest' /\ OneOwner' /\ FirstExecution'
    BY <2>1 DEF RequestsMatch, OwnRequest, OneOwner, FirstExecution, Attempt,
       Owning, Unspawned, Leased, Finalizing
  <2>4. LeaseHeld'
    <3>1. ASSUME NEW e \in Dispatchers, pc'[e] \in Leased
          PROVE  lease'[Workspace(e)'] = e
      <4>1. e # d /\ pc[e] \in Leased
        BY <2>1, <3>1 DEF Leased
      <4>2. Workspace(e) \in Workspaces /\ lease[Workspace(e)] = e
        BY <4>1, RequestTyped DEF LeaseHeld, Leased
      <4> QED
        BY <2>1, <2>2, <4>1, <4>2 DEF Workspace
    <3> QED
      BY <3>1 DEF LeaseHeld
  <2>5. ChildrenOwned'
    <3>1. ASSUME NEW a \in Attempts, child[a] # "none"
          PROVE  \E e \in Dispatchers : /\ req'[e] # None /\ req'[e] = request[a]
                                        /\ lease'[Workspace(e)'] = e
                                        /\ pc'[e] \in Waiting
      <4>1. PICK e \in Dispatchers : /\ req[e] # None /\ req[e] = request[a]
                                     /\ lease[Workspace(e)] = e
                                     /\ pc[e] \in Waiting
        BY <3>1 DEF ChildrenOwned
      <4>2. e # d /\ Workspace(e) \in Workspaces
        BY <2>1, <4>1, RequestTyped DEF Waiting
      <4> QED
        BY <2>1, <2>2, <4>1, <4>2 DEF Workspace
    <3> QED
      BY <2>1, <3>1 DEF ChildrenOwned
  <2> QED
    BY <2>3, <2>4, <2>5
<1> QED
  BY <1>1, <1>2 DEF Finalization

LEMMA OthersOwnership ==
  ASSUME TypeOK, Ownership,
         \/ \E d \in Dispatchers : Context(d)
         \/ \E a \in Attempts : Cancel(a)
         \/ Environment
         \/ UNCHANGED vars
  PROVE  Ownership'
<1>1. ASSUME UNCHANGED <<pc, req, request, executed, lease, child>> PROVE Ownership'
  BY <1>1 DEF Ownership, RequestsMatch, OwnRequest, OneOwner, FirstExecution,
     LeaseHeld, ChildrenOwned, Attempt, Workspace
<1>2. CASE \/ \E d \in Dispatchers : Context(d)
           \/ \E a \in Attempts : Cancel(a) \/ ChildWrites(a) \/ ChildTampers(a)
           \/ \E w \in Workspaces : Edit(w) \/ CleanWorkspace(w)
           \/ RemoveStaleJournalLock
           \/ UNCHANGED vars
  BY <1>1, <1>2 DEF Context, WatchCancel, Deadline, ContextEnds, Cancel,
     ChildWrites, ChildTampers, Edit, EditCandidate, EditCovered, CleanWorkspace, RemoveStaleJournalLock,
     vars, journal, control, outside, history
<1>3. ASSUME NEW d \in Dispatchers, Crash(d) PROVE Ownership'
  <2>1. Moves(d, "crashed")
    BY <1>3 DEF Crash, Moves, Owning, Unspawned, Waiting, Leased, Finalizing,
       journal, outside, history
  <2> QED
    BY <2>1, MovesKeepOwnership DEF PCs
<1> USE DEF TypeOK, ControlTypeOK, JournalTypeOK, WorldTypeOK, Ownership
<1>4. ASSUME NEW a \in Attempts, OrphanExits(a) PROVE Ownership'
  <2>1. UNCHANGED <<pc, req, request, executed, lease>>
    BY <1>4 DEF OrphanExits, journal, control, history
  <2>2. \A b \in Attempts : child'[b] # "none" => child[b] # "none"
    BY <1>4 DEF OrphanExits
  <2> QED
    BY <2>1, <2>2 DEF RequestsMatch, OwnRequest, OneOwner, FirstExecution,
       LeaseHeld, ChildrenOwned, Attempt, Workspace
<1>5. ASSUME NEW w \in Workspaces, RemoveStaleLease(w) PROVE Ownership'
  <2>1. UNCHANGED <<pc, req, request, executed, child>>
    BY <1>5 DEF RemoveStaleLease, journal, control, history
  <2>2. \A v \in Workspaces \ {w} : lease'[v] = lease[v]
    BY <1>5 DEF RemoveStaleLease
  <2>3. LeaseHeld'
    <3>1. ASSUME NEW d \in Dispatchers, pc[d] \in Leased
          PROVE  Workspace(d) \in Workspaces /\ Workspace(d) # w
      BY <1>5, <3>1, RequestTyped DEF LeaseHeld, RemoveStaleLease, Crashed, Leased
    <3> QED
      BY <2>1, <2>2, <3>1 DEF LeaseHeld, Workspace
  <2>4. ChildrenOwned'
    <3>1. ASSUME NEW a \in Attempts, child[a] # "none"
          PROVE  \E d \in Dispatchers : /\ req[d] # None /\ req[d] = request[a]
                                        /\ lease'[Workspace(d)] = d
                                        /\ pc[d] \in Waiting
      <4>1. PICK d \in Dispatchers : /\ req[d] # None /\ req[d] = request[a]
                                     /\ lease[Workspace(d)] = d
                                     /\ pc[d] \in Waiting
        BY <3>1 DEF ChildrenOwned
      <4>2. Workspace(d) \in Workspaces /\ Workspace(d) # w
        BY <1>5, <3>1, <4>1, RequestTyped DEF RemoveStaleLease, ChildrenIn,
           WorkspaceOfAttempt, Workspace
      <4> QED
        BY <2>2, <4>1, <4>2
    <3> QED
      BY <2>1, <3>1 DEF ChildrenOwned, Workspace
  <2> QED
    BY <2>1, <2>3, <2>4 DEF RequestsMatch, OwnRequest, OneOwner, FirstExecution,
       Attempt
<1> QED
  BY <1>2, <1>3, <1>4, <1>5 DEF Environment

(* Any step.                                                               *)
LEMMA NextOwns ==
  ASSUME TypeOK, Ownership, [Next]_vars
  PROVE  Ownership'
BY AdmissionOwnership, ExecutionOwnership, FinalizationOwnership,
   OthersOwnership DEF Next, Dispatcher

(* Ownership is inductive: see its definition for what each part says.     *)
THEOREM OwnershipHolds == Spec => []Ownership
<1>1. Init => Ownership
  BY DEF Init, JournalInit, Ownership, RequestsMatch, OwnRequest, OneOwner,
     FirstExecution, LeaseHeld, ChildrenOwned, Owning, Unspawned, Leased, Finalizing
<1> QED
  BY <1>1, NextOwns, TypeCorrect, PTL DEF Spec

LEMMA HolderWrites ==
  ASSUME TypeOK, Ownership
  PROVE  OneWriterPerWorkspace
<1>1. ASSUME NEW w \in Workspaces, NEW a \in ChildrenIn(w)
      PROVE  lease[w] \in Dispatchers /\ req[lease[w]] = request[a] /\ request[a] # None
  BY <1>1 DEF Ownership, ChildrenOwned, ChildrenIn, WorkspaceOfAttempt, Workspace
<1>2. ASSUME NEW w \in Workspaces, NEW a \in ChildrenIn(w), NEW b \in ChildrenIn(w)
      PROVE  a = b
  BY <1>1, <1>2 DEF Ownership, RequestsMatch, ChildrenIn
<1> QED
  BY <1>1, <1>2, NoneIsNoDispatcher DEF OneWriterPerWorkspace

(* A workspace never has two child processes, and the one it has belongs to*)
(* the request of the dispatcher that holds the workspace lease.           *)
THEOREM SingleWriter == Spec => []OneWriterPerWorkspace
BY HolderWrites, TypeCorrect, OwnershipHolds, PTL

(* The delegate of an attempt starts from `spawn`, where none ran before.  *)
LEMMA NextSpawns ==
  ASSUME TypeOK, Ownership, [Next]_vars
  PROVE  [\A a \in Attempts :
            child[a] # "delegate" /\ child'[a] = "delegate" => a \notin executed]_vars
<1> USE DEF TypeOK, WorldTypeOK
<1>1. ASSUME NEW a \in Attempts, child[a] # "delegate", child'[a] = "delegate"
      PROVE  \E d \in Dispatchers : SpawnDelegate(d)
  <2>1. ASSUME NEW d \in Dispatchers, Dispatcher(d), ~SpawnDelegate(d)
        PROVE  FALSE
    BY <1>1, <2>1 DEF Dispatcher, Admission, Invoke, Replay, RefuseDeadline,
       ReserveBudget, PersistReservation, PersistRequest, BindKey,
       RecordDispatched, RecordRunning, Execution, ClaimLease, Preflight,
       WriteSnapshot, DelegateReturns, CheckCanceled, CheckBeforeVerifier,
       StartVerifier, VerifierReturns, RecheckCanceled, CheckAfterVerifier,
       LastCheck, Finalization, LockForResult, RecordResult, PublishResult,
       ReleaseLease, outside
  <2>2. ASSUME Environment \/ UNCHANGED vars \/ (\E b \in Attempts : Cancel(b))
               \/ (\E d \in Dispatchers : Context(d))
        PROVE  FALSE
    BY <1>1, <2>2 DEF Environment, ChildWrites, ChildTampers, OrphanExits,
       Edit, EditCandidate, EditCovered, CleanWorkspace, RemoveStaleLease, RemoveStaleJournalLock, Crash,
       Cancel, Context, WatchCancel, Deadline, ContextEnds, vars, outside
  <2> QED
    BY <2>1, <2>2 DEF Next
<1>2. ASSUME NEW a \in Attempts, child[a] # "delegate", child'[a] = "delegate"
      PROVE  a \notin executed
  <2>1. PICK d \in Dispatchers : SpawnDelegate(d)
    BY <1>1, <1>2
  <2>2. a = Attempt(d) /\ pc[d] = "spawn"
    BY <1>2, <2>1 DEF SpawnDelegate
  <2> QED
    BY <2>2 DEF Ownership, FirstExecution, Unspawned
<1> QED
  BY <1>2

(* The delegate of an attempt is started at most once.                     *)
THEOREM SingleExecution == Spec => ExecutedOnce
BY NextSpawns, TypeCorrect, OwnershipHolds, PTL DEF Spec, ExecutedOnce

-----------------------------------------------------------------------------
(* What the journal accounts for: every executed delegate, and every       *)
(* reserved attempt within the budget its parent froze.                    *)

LEMMA SecondEvent ==
  ASSUME NEW S, NEW s \in Seq(S), NEW e \in S
  PROVE  Len(s) = 1 => Len(Append(s, e)) = 2 /\ Append(s, e)[2] = e
<1>1. Len(Append(s, e)) = Len(s) + 1 /\ Append(s, e)[Len(s) + 1] = e
  OBVIOUS
<1> QED
  BY <1>1

(* Events in order survive an append.                                      *)
LEMMA BegunStays ==
  ASSUME TypeOK, NEW a \in Attempts, Begun(a),
         events'[a] = events[a] \/ \E e \in Events : events'[a] = Append(events[a], e)
  PROVE  Begun(a)'
<1> DEFINE s == events[a]
<1>1. s \in Seq(Events) /\ Len(s) >= 2 /\ s[2].to = "running"
  BY DEF Begun, TypeOK, JournalTypeOK
<1>2. ASSUME NEW e \in Events, events'[a] = Append(s, e) PROVE Begun(a)'
  <2>1. Len(Append(s, e)) = Len(s) + 1 /\ Append(s, e)[2] = s[2]
    BY <1>1
  <2> QED
    BY <1>1, <1>2, <2>1 DEF Begun
<1> QED
  BY <1>1, <1>2 DEF Begun

(* The step of one dispatcher: records only grow, the events of an attempt *)
(* grow only at the hands of its owner, and the facts about the dispatcher *)
(* itself hold again.                                                      *)
LEMMA StepAccounts ==
  ASSUME TypeOK, Ownership, Accounted, Grows, NEW d \in Dispatchers,
         \A e \in Dispatchers \ {d} : pc'[e] = pc[e] /\ req'[e] = req[e],
         \A a \in Attempts : events'[a] = events[a] \/ (pc[d] \in Owning /\ a = Attempt(d)),
         AccountedFor(d)'
  PROVE  Accounted'
<1> USE DEF TypeOK, JournalTypeOK, ControlTypeOK
<1>1. ASSUME NEW a \in Attempts, request'[a] = None PROVE events'[a] = <<>>
  <2>1. request[a] = None
    BY <1>1 DEF Grows, Kept
  <2>2. ~(pc[d] \in Owning /\ a = Attempt(d))
    BY <2>1, RequestTyped, NoneIsNew
       DEF Ownership, OwnRequest, Owning, Leased, Finalizing
  <2> QED
    BY <2>1, <2>2 DEF Accounted
<1>2. ASSUME NEW e \in Dispatchers \ {d} PROVE AccountedFor(e)'
  <2>1. pc'[e] = pc[e] /\ req'[e] = req[e] /\ AccountedFor(e)
    BY DEF Accounted
  <2>2. CASE pc[e] \in Owning
    <3>1. /\ req[e] \in Requests /\ Attempt(e) \in Attempts /\ KeyOf[req[e]] \in Keys
      BY <2>2, RequestTyped DEF Owning, Leased, Finalizing
    <3>2. events'[Attempt(e)] = events[Attempt(e)]
      BY <2>2, <3>1 DEF Ownership, OneOwner
    <3>3. idem[KeyOf[req[e]]] = req[e] => idem'[KeyOf[req[e]]] = req[e]
      BY <3>1, NoneIsNew DEF Grows, Kept
    <3>4. reservations \subseteq reservations' /\ pre \subseteq pre'
      BY DEF Grows
    <3> QED
      BY <2>1, <2>2, <3>2, <3>3, <3>4 DEF AccountedFor, Attempt, Begun
  <2>3. CASE pc[e] \notin Owning
    BY <2>1, <2>3 DEF AccountedFor, Owning, Grows, Leased
  <2> QED
    BY <2>2, <2>3
<1> QED
  BY <1>1, <1>2 DEF Accounted

LEMMA AdmissionAccounts ==
  ASSUME TypeOK, Ownership, Accounted, Grows, NEW d \in Dispatchers, Admission(d)
  PROVE  Accounted'
<1> USE DEF TypeOK, JournalTypeOK, ControlTypeOK
<1>1. \A e \in Dispatchers \ {d} : pc'[e] = pc[e] /\ req'[e] = req[e]
  BY DEF Admission, Invoke, Replay, RefuseDeadline, ReserveBudget,
     PersistReservation, PersistRequest, BindKey, RecordDispatched, RecordRunning,
     Created, Abort, Goto, Return
<1>2. \A a \in Attempts : events'[a] = events[a] \/ (pc[d] \in Owning /\ a = Attempt(d))
  BY DEF Admission, Invoke, Replay, RefuseDeadline, ReserveBudget,
     PersistReservation, PersistRequest, BindKey, RecordDispatched, RecordRunning,
     AppendEvent, Owning
<1>3. ASSUME pc'[d] \notin Owning, pc'[d] # "request" PROVE Accounted'
  <2>1. AccountedFor(d)'
    BY <1>3 DEF AccountedFor, Owning, Leased
  <2> QED
    BY <1>1, <1>2, <2>1, StepAccounts
<1>4. ASSUME Return(d) PROVE Accounted'
  BY <1>3, <1>4 DEF Return, Owning, Leased, Finalizing
<1>5. ASSUME NEW at, pc[d] # "idle", Goto(d, at)
      PROVE  pc'[d] = at /\ req'[d] = req[d] /\ Attempt(d)' = Attempt(d)
  BY <1>5 DEF Goto, Attempt
<1>6. ASSUME pc[d] # "idle"
      PROVE  req[d] \in Requests /\ Attempt(d) \in Attempts /\ KeyOf[req[d]] \in Keys
  BY <1>6, RequestTyped
<1>7. AccountedFor(d)
  BY DEF Accounted
<1>8. CASE (\E r \in Requests : Invoke(d, r)) \/ Replay(d) \/ RefuseDeadline(d) \/ ReserveBudget(d)
  BY <1>3, <1>4, <1>5, <1>8 DEF Invoke, Replay, RefuseDeadline, ReserveBudget,
     Created, Abort, Owning, Leased, Finalizing
<1>9. CASE PersistReservation(d)
  <2>1. CASE Goto(d, "request") /\ req[d] \in reservations'
    <3>1. AccountedFor(d)'
      BY <1>5, <1>9, <2>1 DEF PersistReservation, AccountedFor, Owning, Leased,
         Finalizing
    <3> QED
      BY <1>1, <1>2, <3>1, StepAccounts
  <2> QED
    BY <1>4, <1>9, <2>1 DEF PersistReservation, Created, Abort
<1>10. CASE PersistRequest(d)
  <2>1. CASE Goto(d, "bind") /\ request[Attempt(d)] = None
    <3>1. /\ pc'[d] = "bind" /\ req'[d] = req[d] /\ Attempt(d)' = Attempt(d)
          /\ UNCHANGED <<reservations, events>> /\ pc[d] = "request"
      BY <1>5, <1>10, <2>1 DEF PersistRequest
    <3>2. events[Attempt(d)] = <<>>
      BY <1>6, <2>1, <3>1 DEF Accounted
    <3>3. AccountedFor(d)'
      BY <1>7, <3>1, <3>2 DEF AccountedFor, Admitting
    <3> QED
      BY <1>1, <1>2, <3>3, StepAccounts
  <2> QED
    BY <1>4, <1>10, <2>1 DEF PersistRequest, Created, Abort
<1>11. CASE BindKey(d)
  <2>1. CASE Goto(d, "dispatched") /\ idem' = [idem EXCEPT ![KeyOf[req[d]]] = req[d]]
    <3>1. /\ pc'[d] = "dispatched" /\ req'[d] = req[d] /\ Attempt(d)' = Attempt(d)
          /\ UNCHANGED <<reservations, events>> /\ pc[d] = "bind"
      BY <1>5, <1>11, <2>1 DEF BindKey
    <3>2. idem'[KeyOf[req[d]]] = req[d]
      BY <1>6, <2>1, <3>1
    <3>3. AccountedFor(d)'
      BY <1>7, <3>1, <3>2 DEF AccountedFor, Admitting, Owning
    <3> QED
      BY <1>1, <1>2, <3>3, StepAccounts
  <2> QED
    BY <1>4, <1>11, <2>1 DEF BindKey, Created, Abort
<1>12. CASE RecordDispatched(d)
  <2>1. CASE Goto(d, "running") /\ AppendEvent(Attempt(d), "validated", "dispatched")
    <3>1. /\ pc'[d] = "running" /\ req'[d] = req[d] /\ Attempt(d)' = Attempt(d)
          /\ UNCHANGED <<reservations, idem>> /\ pc[d] = "dispatched"
      BY <1>5, <1>12, <2>1 DEF RecordDispatched
    <3>2. events[Attempt(d)] = <<>>
      BY <1>7, <3>1 DEF AccountedFor
    <3>3. Len(events'[Attempt(d)]) = 1
      BY <1>6, <2>1, <3>1, <3>2 DEF AppendEvent
    <3>4. AccountedFor(d)'
      BY <1>7, <3>1, <3>3 DEF AccountedFor, Admitting, Owning
    <3> QED
      BY <1>1, <1>2, <3>4, StepAccounts
  <2> QED
    BY <1>4, <1>12, <2>1 DEF RecordDispatched, Created, Abort
<1>13. CASE RecordRunning(d)
  <2>1. CASE Goto(d, "lease") /\ AppendEvent(Attempt(d), "dispatched", "running")
    <3>1. /\ pc'[d] = "lease" /\ req'[d] = req[d] /\ Attempt(d)' = Attempt(d)
          /\ UNCHANGED <<reservations, idem>> /\ pc[d] = "running"
      BY <1>5, <1>13, <2>1 DEF RecordRunning
    <3> DEFINE s == events[Attempt(d)]
               e == [from |-> "dispatched", to |-> "running"]
    <3>2. s \in Seq(Events) /\ Len(s) = 1 /\ e \in Events /\ Attempt(d) \in Attempts
      BY <1>6, <1>7, <3>1 DEF AccountedFor, Events, States
    <3>3. events'[Attempt(d)] = Append(s, e)
      BY <2>1, <3>2 DEF AppendEvent
    <3>4. Len(Append(s, e)) = 2 /\ Append(s, e)[2] = e
      <4> HIDE DEF s, e
      <4> QED
        BY <3>2, SecondEvent
    <3>5. Begun(Attempt(d))'
      BY <3>1, <3>3, <3>4 DEF Begun
    <3>6. AccountedFor(d)'
      BY <1>7, <3>1, <3>5 DEF AccountedFor, Admitting, Owning
    <3> QED
      BY <1>1, <1>2, <3>6, StepAccounts
  <2> QED
    BY <1>4, <1>13, <2>1 DEF RecordRunning, Abort
<1> QED
  BY <1>8, <1>9, <1>10, <1>11, <1>12, <1>13 DEF Admission

(* After admission the owner's records are complete; only the snapshot is  *)
(* still to come, and only the published verdict adds an event.            *)
LEMMA LaterStepAccounts ==
  ASSUME TypeOK, Ownership, Accounted, Grows, NEW d \in Dispatchers,
         pc[d] \in Owning \ Admitting,
         \A e \in Dispatchers \ {d} : pc'[e] = pc[e] /\ req'[e] = req[e],
         \A a \in Attempts : events'[a] = events[a] \/ a = Attempt(d),
         NEW at, pc'[d] = at, at \notin Admitting,
         at \in Owning => req'[d] = req[d],
         at = "spawn" => Attempt(d) \in pre'
  PROVE  Accounted'
<1> USE DEF TypeOK, JournalTypeOK, ControlTypeOK
<1>1. /\ req[d] \in Requests /\ Attempt(d) \in Attempts /\ KeyOf[req[d]] \in Keys
  BY RequestTyped DEF Owning, Leased, Finalizing
<1>2. AccountedFor(d)
  BY DEF Accounted
<1>3. CASE at \notin Owning
  BY <1>3, StepAccounts DEF AccountedFor, Owning, Admitting, Leased
<1>4. CASE at \in Owning
  <2>1. Attempt(d)' = Attempt(d)
    BY <1>4 DEF Attempt
  <2>2. req'[d] \in reservations'
    BY <1>2, <1>4 DEF AccountedFor, Grows
  <2>3. idem'[KeyOf[req'[d]]] = req'[d]
    BY <1>1, <1>2, <1>4, NoneIsNew DEF AccountedFor, Admitting, Grows, Kept
  <2>4. Begun(Attempt(d))'
    <3>1. Begun(Attempt(d))
      BY <1>2 DEF AccountedFor
    <3>2. \/ events'[Attempt(d)] = events[Attempt(d)]
          \/ \E e \in Events : events'[Attempt(d)] = Append(events[Attempt(d)], e)
      BY <1>1, EventsGrow DEF Grows
    <3> DEFINE a == Attempt(d)
    <3>3. Begun(a)'
      <4>1. a \in Attempts /\ a' = a
        BY <1>1, <2>1
      <4>2. ASSUME NEW b \in Attempts, b = a PROVE Len(events'[b]) >= 2 /\ events'[b][2].to = "running"
        <5>1. Begun(b) /\ (events'[b] = events[b] \/ \E e \in Events : events'[b] = Append(events[b], e))
          BY <3>1, <3>2, <4>2
        <5> QED
          BY <5>1, BegunStays DEF Begun
      <4> QED
        BY <4>1, <4>2 DEF Begun
    <3> QED
      BY <3>3
  <2>5. AccountedFor(d)'
    BY <1>4, <2>1, <2>2, <2>3, <2>4 DEF AccountedFor, Admitting
  <2> QED
    BY <2>5, StepAccounts
<1> QED
  BY <1>3, <1>4

LEMMA ExecutionAccounts ==
  ASSUME TypeOK, Ownership, Accounted, Grows, NEW d \in Dispatchers,
         Execution(d) \/ Finalization(d)
  PROVE  Accounted'
<1> USE DEF TypeOK, JournalTypeOK, ControlTypeOK
<1>1. CASE Execution(d)
  <2>1. /\ pc[d] \in Leased \cup {"lease"}
        /\ UNCHANGED <<req, events>>
        /\ \E at \in Leased \cup {"finalize"} : pc' = [pc EXCEPT ![d] = at]
    BY <1>1 DEF Execution, ClaimLease, Preflight, WriteSnapshot, SpawnDelegate,
       DelegateReturns, CheckCanceled, CheckBeforeVerifier, StartVerifier,
       VerifierReturns, RecheckCanceled, CheckAfterVerifier, LastCheck, Goto,
       Finalize, ExitWith, Leased, journal
  <2>2. ASSUME pc'[d] = "spawn" PROVE Attempt(d) \in pre'
    BY <1>1, <2>2 DEF Execution, ClaimLease, Preflight, WriteSnapshot, SpawnDelegate,
       DelegateReturns, CheckCanceled, CheckBeforeVerifier, StartVerifier,
       VerifierReturns, RecheckCanceled, CheckAfterVerifier, LastCheck, Goto,
       Finalize, ExitWith
  <2>3. PICK at \in Leased \cup {"finalize"} : pc' = [pc EXCEPT ![d] = at]
    BY <2>1
  <2>4. pc'[d] = at /\ \A e \in Dispatchers \ {d} : pc'[e] = pc[e]
    BY <2>3
  <2>5. pc[d] \in Owning \ Admitting /\ at \notin Admitting
    BY <2>1 DEF Owning, Admitting, Leased
  <2> QED
    BY <2>1, <2>2, <2>4, <2>5, LaterStepAccounts
<1>2. CASE Finalization(d)
  <2>1. /\ pc[d] \in Finalizing \cup {"release"}
        /\ \A e \in Dispatchers \ {d} : pc'[e] = pc[e] /\ req'[e] = req[e]
        /\ pc'[d] \in {"record", "publish", "release", "idle"}
        /\ pc'[d] \in Owning => req'[d] = req[d]
    BY <1>2 DEF Finalization, LockForResult, RecordResult, PublishResult,
       ReleaseLease, Goto, Return, Finalizing, Owning, Leased
  <2>2. \A a \in Attempts : events'[a] = events[a] \/ a = Attempt(d)
    BY <1>2 DEF Finalization, LockForResult, RecordResult, PublishResult,
       ReleaseLease, AppendEvent, journal
  <2>3. pc[d] \in Owning \ Admitting /\ pc'[d] \notin Admitting
    BY <2>1 DEF Owning, Admitting, Finalizing
  <2> QED
    BY <2>1, <2>2, <2>3, LaterStepAccounts
<1> QED
  BY <1>1, <1>2

LEMMA OthersAccount ==
  ASSUME TypeOK, Ownership, Accounted, Grows,
         \/ \E d \in Dispatchers : Context(d)
         \/ \E a \in Attempts : Cancel(a)
         \/ Environment
  PROVE  Accounted'
<1>1. ASSUME UNCHANGED <<pc, req, request, reservations, idem, events, pre>>
      PROVE  Accounted'
  BY <1>1 DEF Accounted, AccountedFor, Attempt, Begun
<1>2. CASE \/ \E d \in Dispatchers : Context(d)
           \/ \E a \in Attempts :
                Cancel(a) \/ ChildWrites(a) \/ ChildTampers(a) \/ OrphanExits(a)
           \/ \E w \in Workspaces : Edit(w) \/ CleanWorkspace(w) \/ RemoveStaleLease(w)
           \/ RemoveStaleJournalLock
  BY <1>1, <1>2 DEF Context, WatchCancel, Deadline, ContextEnds, Cancel,
     ChildWrites, ChildTampers, OrphanExits, Edit, EditCandidate, EditCovered, CleanWorkspace,
     RemoveStaleLease, RemoveStaleJournalLock, journal, control
<1>3. ASSUME NEW d \in Dispatchers, Crash(d) PROVE Accounted'
  <2> USE DEF TypeOK, ControlTypeOK
  <2>1. /\ \A e \in Dispatchers \ {d} : pc'[e] = pc[e] /\ req'[e] = req[e]
        /\ events' = events
        /\ pc'[d] = "crashed"
    BY <1>3 DEF Crash, journal
  <2>2. AccountedFor(d)'
    BY <2>1 DEF AccountedFor, Owning, Leased, Finalizing
  <2> QED
    BY <2>1, <2>2, StepAccounts
<1> QED
  BY <1>2, <1>3 DEF Environment

(* Any step.                                                               *)
LEMMA NextAccounts ==
  ASSUME TypeOK, Ownership, Accounted, [Next]_vars
  PROVE  Accounted'
<1>1. CASE UNCHANGED vars
  BY <1>1 DEF Accounted, AccountedFor, Attempt, Begun, vars, journal, control
<1>2. CASE Next
  BY <1>2, NextGrows, AdmissionAccounts, ExecutionAccounts, OthersAccount
     DEF Next, Dispatcher
<1> QED
  BY <1>1, <1>2

(* Admission leaves every record an execution needs before it goes on.     *)
THEOREM AccountedHolds == Spec => []Accounted
<1>1. Init => Accounted
  BY DEF Init, JournalInit, Accounted, AccountedFor, Owning, Leased, Finalizing
<1> QED
  BY <1>1, NextAccounts, TypeCorrect, OwnershipHolds, PTL DEF Spec

(* A step executes nothing the journal does not account for.               *)
LEMMA NextJournals ==
  ASSUME TypeOK, Ownership, Accounted, ExecutionIsJournaled, [Next]_vars
  PROVE  ExecutionIsJournaled'
<1> USE DEF TypeOK, JournalTypeOK, WorldTypeOK
<1>1. CASE UNCHANGED vars
  BY <1>1 DEF ExecutionIsJournaled, vars, journal, history
<1>2. ASSUME Next, NEW a \in executed PROVE
        /\ request'[a] = request[a] /\ request[a] # None
        /\ request[a] \in reservations'
        /\ idem'[KeyOf[request[a]]] = request[a]
        /\ Begun(a)'
        /\ a \in pre'
  <2>1. Grows /\ a \in Attempts
    BY <1>2, NextGrows
  <2>2. /\ request[a] # None /\ request[a] \in Requests /\ request[a] \in reservations
        /\ idem[KeyOf[request[a]]] = request[a] /\ a \in pre /\ Begun(a)
    BY <2>1 DEF ExecutionIsJournaled, Begun
  <2>3. KeyOf[request[a]] \in Keys
    BY <2>2, RequestFields
  <2>4. request'[a] = request[a] /\ idem'[KeyOf[request[a]]] = request[a]
    BY <2>1, <2>2, <2>3 DEF Grows, Kept
  <2>5. Begun(a)'
    BY <2>1, <2>2, EventsGrow, BegunStays DEF Grows
  <2> QED
    BY <2>1, <2>2, <2>4, <2>5 DEF Grows
<1>3. ASSUME Next, NEW a \in executed', a \notin executed
      PROVE  \E d \in Dispatchers : SpawnDelegate(d) /\ a = Attempt(d)
  <2>1. ASSUME NEW d \in Dispatchers, Dispatcher(d)
        PROVE  SpawnDelegate(d) \/ UNCHANGED executed
    BY <2>1 DEF Dispatcher, Admission, Invoke, Replay, RefuseDeadline,
       ReserveBudget, PersistReservation, PersistRequest, BindKey,
       RecordDispatched, RecordRunning, Execution, ClaimLease, Preflight,
       WriteSnapshot, DelegateReturns, CheckCanceled, CheckBeforeVerifier,
       StartVerifier, VerifierReturns, RecheckCanceled, CheckAfterVerifier,
       LastCheck, Finalization, LockForResult, RecordResult, PublishResult,
       ReleaseLease, outside, history
  <2>2. ASSUME Environment \/ (\E b \in Attempts : Cancel(b))
               \/ (\E d \in Dispatchers : Context(d))
        PROVE  UNCHANGED executed
    BY <2>2 DEF Environment, ChildWrites, ChildTampers, OrphanExits, Edit, EditCandidate, EditCovered,
       CleanWorkspace, RemoveStaleLease, RemoveStaleJournalLock, Crash, Cancel,
       Context, WatchCancel, Deadline, ContextEnds, outside, history
  <2>3. PICK d \in Dispatchers : SpawnDelegate(d)
    BY <1>3, <2>1, <2>2 DEF Next
  <2> QED
    BY <1>3, <2>3 DEF SpawnDelegate
<1>4. ASSUME NEW d \in Dispatchers, SpawnDelegate(d)
      PROVE  LET a == Attempt(d) IN
        /\ request'[a] = req[d] /\ req[d] # None
        /\ req[d] \in reservations'
        /\ idem'[KeyOf[req[d]]] = req[d]
        /\ Len(events'[a]) >= 2 /\ events'[a][2].to = "running"
        /\ a \in pre'
  <2>1. pc[d] = "spawn" /\ UNCHANGED journal
    BY <1>4 DEF SpawnDelegate
  <2>2. req[d] \in Requests
    BY <2>1, RequestTyped
  <2>3. request[Attempt(d)] = req[d] /\ AccountedFor(d)
    BY <2>1 DEF Ownership, OwnRequest, Owning, Leased, Accounted
  <2> QED
    BY <2>1, <2>2, <2>3, NoneIsNew DEF journal, AccountedFor, Begun, Owning,
       Leased, Admitting
<1>5. CASE Next
  <2>1. ASSUME NEW a \in executed'
        PROVE  /\ request'[a] # None
               /\ request'[a] \in reservations'
               /\ idem'[KeyOf[request'[a]]] = request'[a]
               /\ Len(events'[a]) >= 2 /\ events'[a][2].to = "running"
               /\ a \in pre'
    <3>1. CASE a \in executed
      BY <1>2, <1>5, <3>1 DEF Begun
    <3>2. CASE a \notin executed
      <4>1. PICK d \in Dispatchers : SpawnDelegate(d) /\ a = Attempt(d)
        BY <1>3, <1>5, <3>2
      <4> QED
        BY <1>4, <4>1
    <3> QED
      BY <3>1, <3>2
  <2> QED
    BY <2>1 DEF ExecutionIsJournaled
<1> QED
  BY <1>1, <1>5

(* A delegate that was ever started belongs to an attempt the journal      *)
(* accounts for, for good: nothing later takes the records away.           *)
THEOREM ExecutionAccounted == Spec => []ExecutionIsJournaled
<1>1. Init => ExecutionIsJournaled
  BY DEF Init, ExecutionIsJournaled
<1> QED
  BY <1>1, NextJournals, TypeCorrect, OwnershipHolds, AccountedHolds, PTL DEF Spec

-----------------------------------------------------------------------------
(* The budget of a parent, in attempts. What the check saw is still so when*)
(* the reservation is written, because both happen under the journal lock. *)

LEMMA ReservationsFinite ==
  ASSUME TypeOK, NEW p
  PROVE  /\ IsFiniteSet(ReservationsOf(p))
         /\ Cardinality(ReservationsOf(p)) \in Nat
<1>1. ReservationsOf(p) \subseteq Requests
  BY DEF TypeOK, JournalTypeOK, ReservationsOf
<1> QED
  BY <1>1, RequestFields, FS_Subset, FS_CardinalityType

LEMMA ReservedSum ==
  /\ \A rs : SumUSD(rs) = SumOver(USDOf, rs)
  /\ \A p : ReservedUSD(p) = SumOver(USDOf, ReservationsOf(p))
  /\ \A p : ReservedUSD(p)' = SumOver(USDOf, ReservationsOf(p)')
<1>1. \A rs : SumUSD(rs) = SumOver(USDOf, rs)
  BY DEF SumUSD, SumOver
<1> QED
  BY <1>1 DEF ReservedUSD

LEMMA SpendingTyped ==
  ASSUME TypeOK, NEW p
  PROVE  ReservedUSD(p) \in Nat
<1>1. \A r \in ReservationsOf(p) : USDOf[r] \in Nat
  BY RequestFields DEF TypeOK, JournalTypeOK, ReservationsOf
<1> QED
  BY <1>1, ReservedSum, ReservationsFinite, SumMonotone

(* Nothing is spent while no reservation is made.                          *)
LEMMA NothingSpent ==
  ASSUME UNCHANGED reservations
  PROVE  /\ \A p : ReservationsOf(p)' = ReservationsOf(p)
         /\ \A p : ReservedUSD(p)' = ReservedUSD(p)
         /\ \A r, b : BudgetAdmits(r, b)' <=> BudgetAdmits(r, b)
<1>1. \A p : ReservationsOf(p)' = ReservationsOf(p)
  BY DEF ReservationsOf
<1>2. \A p : ReservedUSD(p)' = ReservedUSD(p)
  BY <1>1, ReservedSum
<1>3. ASSUME NEW r, NEW b PROVE BudgetAdmits(r, b)' <=> BudgetAdmits(r, b)
  BY <1>1, <1>2 DEF BudgetAdmits
<1> QED
  BY <1>1, <1>2, <1>3

LEMMA BudgetUndisturbed ==
  ASSUME TypeOK, AttemptsWithinBudget, USDWithinBudget, BudgetHeld,
         UNCHANGED <<frozen, reservations>>,
         \A d \in Dispatchers : pc'[d] = "reserve" => pc[d] = "reserve" /\ req'[d] = req[d]
  PROVE  AttemptsWithinBudget' /\ USDWithinBudget' /\ BudgetHeld'
BY NothingSpent DEF AttemptsWithinBudget, USDWithinBudget, BudgetHeld

(* A budget once frozen stays, so the reservations stay within it.         *)
LEMMA FrozenBudgetStays ==
  ASSUME TypeOK, AttemptsWithinBudget, USDWithinBudget,
         UNCHANGED reservations, Kept(frozen, frozen')
  PROVE  AttemptsWithinBudget' /\ USDWithinBudget'
<1>1. \A p \in Parents : frozen[p] # None => frozen'[p] = frozen[p]
  BY DEF Kept, TypeOK, JournalTypeOK
<1> QED
  BY <1>1, NothingSpent DEF AttemptsWithinBudget, USDWithinBudget

LEMMA BudgetChecked ==
  ASSUME TypeOK, JournalExclusive, AttemptsWithinBudget, USDWithinBudget,
         BudgetHeld, NEW d \in Dispatchers, ReserveBudget(d)
  PROVE  AttemptsWithinBudget' /\ USDWithinBudget' /\ BudgetHeld'
<1> USE DEF TypeOK, JournalTypeOK, ControlTypeOK
<1> DEFINE p == ParentOf[req[d]]
<1>1. pc[d] = "lookup" /\ UNCHANGED reservations /\ p \in Parents /\ req[d] \in Requests
  BY RequestTyped DEF ReserveBudget
<1>2. Kept(frozen, frozen')
  BY DEF ReserveBudget, FreezeBudget, Kept
<1>3. AttemptsWithinBudget' /\ USDWithinBudget'
  BY <1>1, <1>2, FrozenBudgetStays
<1>4. \A e \in Dispatchers \ {d} : pc'[e] = pc[e] /\ pc[e] # "reserve"
  BY <1>1 DEF JournalExclusive, InJournal, Admitting, ReserveBudget, Created, Abort,
     Goto, Return
<1>5. ASSUME pc'[d] = "reserve"
      PROVE  req'[d] = req[d] /\ BudgetAdmits(req[d], frozen'[p])
  BY <1>1, <1>5 DEF ReserveBudget, Created, Abort, Goto, Return
<1>6. \A r, b : BudgetAdmits(r, b)' <=> BudgetAdmits(r, b)
  BY <1>1, NothingSpent
<1>7. BudgetHeld'
  BY <1>4, <1>5, <1>6 DEF BudgetHeld
<1> QED
  BY <1>3, <1>7

LEMMA BudgetSpent ==
  ASSUME TypeOK, JournalExclusive, AttemptsWithinBudget, USDWithinBudget,
         BudgetHeld, NEW d \in Dispatchers, PersistReservation(d)
  PROVE  AttemptsWithinBudget' /\ USDWithinBudget' /\ BudgetHeld'
<1> USE DEF TypeOK, JournalTypeOK, ControlTypeOK
<1> DEFINE r == req[d]
           p == ParentOf[r]
<1>1. /\ pc[d] = "reserve" /\ UNCHANGED frozen /\ r \in Requests /\ p \in Parents
      /\ BudgetOf[r] \in Budgets
  BY RequestTyped DEF PersistReservation
<1>2. \A e \in Dispatchers : pc'[e] # "reserve"
  BY <1>1 DEF JournalExclusive, InJournal, Admitting, PersistReservation, Created,
     Abort, Goto, Return
<1>3. reservations' \in {reservations, reservations \cup {r}}
  BY DEF PersistReservation
<1>4. /\ frozen[p] = BudgetOf[r]
      /\ Cardinality(ReservationsOf(p)) < BudgetOf[r].maxAttempts
      /\ ReservedUSD(p) + USDOf[r] <= BudgetOf[r].maxUSD
  BY <1>1 DEF BudgetHeld, BudgetAdmits
<1>5. /\ frozen[p] # None /\ BudgetOf[r].maxAttempts \in Nat
      /\ BudgetOf[r].maxUSD \in Nat /\ USDOf[r] \in Nat
  BY <1>1, <1>4, NoneIsNew, RequestFields DEF Budgets
<1>6. ASSUME NEW q \in Parents, ReservationsOf(q)' # {},
             ReservationsOf(q)' # ReservationsOf(q)
      PROVE  q = p /\ ReservationsOf(q)' = ReservationsOf(p) \cup {r}
             /\ r \notin ReservationsOf(p)
  BY <1>3, <1>6 DEF ReservationsOf
<1>7. ASSUME NEW q \in Parents, ReservationsOf(q)' # {}
      PROVE  frozen[q] # None /\ Cardinality(ReservationsOf(q)') <= frozen[q].maxAttempts
  <2>1. CASE ReservationsOf(q)' = ReservationsOf(q)
    BY <1>7, <2>1 DEF AttemptsWithinBudget
  <2>2. CASE ReservationsOf(q)' # ReservationsOf(q)
    <3>1. /\ IsFiniteSet(ReservationsOf(p)) /\ Cardinality(ReservationsOf(p)) \in Nat
          /\ r \notin ReservationsOf(p)
      BY <1>6, <1>7, <2>2, ReservationsFinite
    <3>2. Cardinality(ReservationsOf(p) \cup {r}) = Cardinality(ReservationsOf(p)) + 1
      BY <3>1, FS_AddElement
    <3>3. q = p /\ ReservationsOf(q)' = ReservationsOf(p) \cup {r}
      BY <1>6, <1>7, <2>2
    <3> QED
      BY <1>4, <1>5, <3>1, <3>2, <3>3
  <2> QED
    BY <2>1, <2>2
<1>8. ASSUME NEW q \in Parents, ReservationsOf(q)' # {}
      PROVE  ReservedUSD(q)' <= frozen[q].maxUSD
  <2>1. CASE ReservationsOf(q)' = ReservationsOf(q)
    <3>1. ReservedUSD(q)' = ReservedUSD(q)
      BY <2>1, ReservedSum
    <3> QED
      BY <1>8, <2>1, <3>1 DEF USDWithinBudget
  <2>2. CASE ReservationsOf(q)' # ReservationsOf(q)
    <3>1. /\ q = p /\ r \notin ReservationsOf(p)
          /\ ReservationsOf(q)' = ReservationsOf(p) \cup {r}
      BY <1>6, <1>8, <2>2
    <3>2. ReservedUSD(q)' = SumOver(USDOf, ReservationsOf(p) \cup {r})
      BY <3>1, ReservedSum
    <3>3. \A x \in ReservationsOf(p) \cup {r} : USDOf[x] \in Int
      BY <1>5, RequestFields DEF ReservationsOf
    <3>4. SumOver(USDOf, ReservationsOf(p) \cup {r}) = USDOf[r] + ReservedUSD(p)
      <4>1. IsFiniteSet(ReservationsOf(p))
        BY ReservationsFinite
      <4> HIDE DEF r, p
      <4>2. SumOver(USDOf, ReservationsOf(p) \cup {r})
              = USDOf[r] + SumOver(USDOf, ReservationsOf(p))
        BY <3>1, <3>3, <4>1, SumAdd
      <4> QED
        BY <4>2, ReservedSum
    <3>5. ReservedUSD(p) \in Nat
      BY SpendingTyped
    <3> QED
      BY <1>4, <1>5, <3>1, <3>2, <3>4, <3>5
  <2> QED
    BY <2>1, <2>2
<1>9. AttemptsWithinBudget' /\ USDWithinBudget'
  BY <1>1, <1>7, <1>8 DEF AttemptsWithinBudget, USDWithinBudget
<1> QED
  BY <1>2, <1>9 DEF BudgetHeld

(* Any step.                                                               *)
LEMMA NextBudget ==
  ASSUME TypeOK, JournalExclusive, AttemptsWithinBudget, USDWithinBudget,
         BudgetHeld, [Next]_vars
  PROVE  AttemptsWithinBudget' /\ USDWithinBudget' /\ BudgetHeld'
<1>1. ASSUME UNCHANGED <<frozen, reservations>>,
             \A d \in Dispatchers : pc'[d] = "reserve" => pc[d] = "reserve" /\ req'[d] = req[d]
      PROVE  AttemptsWithinBudget' /\ USDWithinBudget' /\ BudgetHeld'
  BY <1>1, BudgetUndisturbed
<1> USE DEF TypeOK, ControlTypeOK
<1>2. ASSUME NEW d \in Dispatchers, Admission(d), ~ReserveBudget(d),
             ~PersistReservation(d)
      PROVE  AttemptsWithinBudget' /\ USDWithinBudget' /\ BudgetHeld'
  BY <1>1, <1>2 DEF Admission, Invoke, Replay, RefuseDeadline, PersistRequest,
     BindKey, RecordDispatched, RecordRunning, Created, Abort, Goto, Return
<1>3. ASSUME NEW d \in Dispatchers, Execution(d)
      PROVE  AttemptsWithinBudget' /\ USDWithinBudget' /\ BudgetHeld'
  BY <1>1, <1>3 DEF Execution, ClaimLease, Preflight, WriteSnapshot,
     SpawnDelegate, DelegateReturns, CheckCanceled, CheckBeforeVerifier,
     StartVerifier, VerifierReturns, RecheckCanceled, CheckAfterVerifier,
     LastCheck, Goto, Finalize, ExitWith, journal
<1>4. ASSUME NEW d \in Dispatchers, Finalization(d)
      PROVE  AttemptsWithinBudget' /\ USDWithinBudget' /\ BudgetHeld'
  BY <1>1, <1>4 DEF Finalization, LockForResult, RecordResult, PublishResult,
     ReleaseLease, Goto, Return, journal
<1>5. ASSUME \/ \E d \in Dispatchers : Context(d)
             \/ \E a \in Attempts : Cancel(a)
             \/ Environment
             \/ UNCHANGED vars
      PROVE  AttemptsWithinBudget' /\ USDWithinBudget' /\ BudgetHeld'
  BY <1>1, <1>5 DEF Context, WatchCancel, Deadline, ContextEnds, Cancel,
     Environment, ChildWrites, ChildTampers, OrphanExits, Edit, EditCandidate, EditCovered, CleanWorkspace,
     RemoveStaleLease, RemoveStaleJournalLock, Crash, vars, journal, control
<1>6. ASSUME NEW d \in Dispatchers, ReserveBudget(d) \/ PersistReservation(d)
      PROVE  AttemptsWithinBudget' /\ USDWithinBudget' /\ BudgetHeld'
  BY <1>6, BudgetChecked, BudgetSpent
<1> QED
  BY <1>2, <1>3, <1>4, <1>5, <1>6 DEF Next, Dispatcher

LEMMA InitBudget == Init => AttemptsWithinBudget /\ USDWithinBudget /\ BudgetHeld
BY DEF Init, JournalInit, AttemptsWithinBudget, USDWithinBudget, BudgetHeld,
   ReservationsOf

(* No parent ever has more reservations than the budget frozen for it      *)
(* allows, with any number of racing, crashing and repeated dispatches.    *)
THEOREM BudgetRespected == Spec => []AttemptsWithinBudget
BY InitBudget, NextBudget, TypeCorrect, Exclusion, PTL DEF Spec

(* Nor do its reservations add up to more USD: the sum is taken, compared  *)
(* and only then added to, in separate steps that other processes' steps   *)
(* surround.                                                               *)
THEOREM USDRespected == Spec => []USDWithinBudget
BY InitBudget, NextBudget, TypeCorrect, Exclusion, PTL DEF Spec

=============================================================================
