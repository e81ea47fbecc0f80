------------------------ MODULE ComposeReviewProofs ------------------------
(***************************************************************************)
(* Theorems about the whole composition journal, dispatchers and reviewers *)
(* together: what an attempt's events, result and reviews say of each      *)
(* other, what a verified verdict rests on, and that every attempt lives   *)
(* the life that AttemptLifecycle promises.                                *)
(***************************************************************************)
EXTENDS ComposeReview, ComposeDispatchProofs

(* How far the record of d's attempt has come.                             *)
Staged(d) ==
  /\ pc[d] \in {"bind", "dispatched", "running"} => result[Attempt(d)] = None
  /\ pc[d] = "running" => Recorded(Attempt(d)) = "dispatched"
  /\ pc[d] \in {"lease", "finalize", "record"} \cup Leased =>
       Recorded(Attempt(d)) = "running" /\ result[Attempt(d)] = None
  /\ pc[d] = "publish" =>
       /\ Recorded(Attempt(d)) = "running"
       /\ result[Attempt(d)] # None /\ result[Attempt(d)].state = verdict[d]

(* What the request, the result and the events of an attempt say together. *)
Told(a) ==
  /\ request[a] = None => result[a] = None
  /\ result[a] # None => Recorded(a) \in {"running"} \cup Final \cup Reviewed
  /\ Recorded(a) \in Final \cup Reviewed => result[a] # None
  /\ Recorded(a) \in Final => result[a].state = Recorded(a)
  /\ Recorded(a) = "accepted" => result[a].state = Verified

Stages == (\A d \in Dispatchers : Staged(d)) /\ (\A a \in Attempts : Told(a))

-----------------------------------------------------------------------------
(* The last event, and the chain of events.                                *)

LEMMA AppendedState ==
  ASSUME NEW s \in Seq(Events), NEW e \in Events
  PROVE  /\ StateAfter(Append(s, e)) = e.to
         /\ Append(s, e) # <<>>
<1>1. Append(s, e) # <<>> /\ Len(Append(s, e)) = Len(s) + 1 /\ Append(s, e)[Len(s) + 1] = e
  OBVIOUS
<1> QED
  BY <1>1 DEF StateAfter

LEMMA ChainExtends ==
  ASSUME NEW s \in Seq(Events), NEW e \in Events, Chained(s), e.from = StateAfter(s)
  PROVE  Chained(Append(s, e))
<1> DEFINE t == Append(s, e)
<1>1. /\ Len(s) \in Nat /\ Len(t) = Len(s) + 1 /\ t[Len(s) + 1] = e
      /\ \A i \in 1..Len(s) : t[i] = s[i]
      /\ Len(s) = 0 <=> s = <<>>
  OBVIOUS
<1> HIDE DEF t
<1>2. ASSUME NEW i \in 1..Len(t)
      PROVE  t[i].from = IF i = 1 THEN "validated" ELSE t[i - 1].to
  <2>1. CASE i = Len(s) + 1
    BY <1>1, <2>1 DEF StateAfter
  <2>2. CASE i # Len(s) + 1
    <3>1. i \in 1..Len(s) /\ (i # 1 => i - 1 \in 1..Len(s))
      BY <1>1, <2>2
    <3> QED
      BY <1>1, <3>1 DEF Chained
  <2> QED
    BY <2>1, <2>2
<1> QED
  BY <1>2 DEF Chained, t

(* What appendEvent does to the state of an attempt.                       *)
LEMMA AppendMoves ==
  ASSUME TypeOK, NEW b \in Attempts, NEW from \in States, NEW to \in States,
         AppendEvent(b, from, to)
  PROVE  /\ TransitionAllowed(from, to)
         /\ StateAfter(events'[b]) = to /\ events'[b] # <<>>
         /\ \A a \in Attempts : a # b => events'[a] = events[a]
         /\ Chained(events[b]) /\ from = StateAfter(events[b]) => Chained(events'[b])
<1> DEFINE e == [from |-> from, to |-> to]
<1>1. e \in Events /\ events[b] \in Seq(Events) /\ e.to = to /\ e.from = from
  BY DEF Events, TypeOK, JournalTypeOK
<1>2. events'[b] = Append(events[b], e) /\ \A a \in Attempts : a # b => events'[a] = events[a]
  BY DEF AppendEvent, TypeOK, JournalTypeOK
<1>3. TransitionAllowed(from, to)
  BY DEF AppendEvent
<1> HIDE DEF e
<1> QED
  BY <1>1, <1>2, <1>3, AppendedState, ChainExtends

-----------------------------------------------------------------------------
(* A dispatcher's step keeps the stages: it tells a story of its own       *)
(* attempt only.                                                           *)

LEMMA StepStages ==
  ASSUME TypeOK, Ownership, Stages, NEW d \in Dispatchers,
         Kept(request, request'),
         \A e \in Dispatchers \ {d} :
           pc'[e] = pc[e] /\ req'[e] = req[e] /\ verdict'[e] = verdict[e],
         \A a \in Attempts :
           \/ events'[a] = events[a] /\ result'[a] = result[a]
           \/ pc[d] \in Owning /\ a = Attempt(d) /\ Told(a)',
         Staged(d)'
  PROVE  Stages'
<1> USE DEF TypeOK, JournalTypeOK, ControlTypeOK
<1>1. ASSUME NEW a \in Attempts PROVE Told(a)'
  <2>1. CASE events'[a] = events[a] /\ result'[a] = result[a]
    <3>1. request'[a] = None => request[a] = None
      BY DEF Kept
    <3> QED
      BY <2>1, <3>1 DEF Stages, Told, Recorded
  <2> QED
    BY <2>1
<1>2. ASSUME NEW e \in Dispatchers \ {d} PROVE Staged(e)'
  <2>1. Staged(e) /\ pc'[e] = pc[e] /\ req'[e] = req[e] /\ verdict'[e] = verdict[e]
    BY DEF Stages
  <2>2. CASE pc[e] \in Owning
    <3>1. Attempt(e) \in Attempts
      BY <2>2, RequestTyped DEF Owning, Leased, Finalizing
    <3>2. pc[d] \in Owning => Attempt(e) # Attempt(d)
      BY <2>2 DEF Ownership, OneOwner
    <3>3. events'[Attempt(e)] = events[Attempt(e)] /\ result'[Attempt(e)] = result[Attempt(e)]
      BY <3>1, <3>2
    <3> QED
      BY <2>1, <3>3 DEF Staged, Attempt, Recorded
  <2>3. CASE pc[e] \notin Owning
    BY <2>1, <2>3 DEF Staged, Owning, Leased, Finalizing
  <2> QED
    BY <2>2, <2>3
<1> QED
  BY <1>1, <1>2 DEF Stages

LEMMA AdmissionStages ==
  ASSUME TypeOK, Ownership, Accounted, Stages, NEW d \in Dispatchers, Admission(d)
  PROVE  Stages'
<1> USE DEF TypeOK, JournalTypeOK, ControlTypeOK
<1>1. /\ \A e \in Dispatchers \ {d} :
           pc'[e] = pc[e] /\ req'[e] = req[e] /\ verdict'[e] = verdict[e]
      /\ UNCHANGED result
  BY DEF Admission, Invoke, Replay, RefuseDeadline, ReserveBudget,
     PersistReservation, PersistRequest, BindKey, RecordDispatched, RecordRunning,
     Created, Abort, Goto, Return
<1>2. Kept(request, request')
  BY AdmissionAppends
<1>3. ASSUME pc'[d] \notin Owning PROVE Staged(d)'
  BY <1>3 DEF Staged, Owning, Leased, Finalizing
<1>4. ASSUME Return(d) PROVE Staged(d)'
  <2>1. pc'[d] = "idle"
    BY <1>4 DEF Return
  <2> QED
    BY <1>3, <2>1 DEF Owning, Leased, Finalizing
<1>5. ASSUME UNCHANGED events, Staged(d)' PROVE Stages'
  BY <1>1, <1>2, <1>5, StepStages
<1>6. CASE (\E r \in Requests : Invoke(d, r)) \/ Replay(d) \/ RefuseDeadline(d)
             \/ ReserveBudget(d) \/ PersistReservation(d)
  <2>1. UNCHANGED events /\ pc'[d] \notin Owning
    BY <1>6 DEF Invoke, Replay, RefuseDeadline, ReserveBudget, PersistReservation,
       Created, Abort, Goto, Return, Owning, Leased, Finalizing
  <2> QED
    BY <1>3, <1>5, <2>1
<1>7. CASE PersistRequest(d)
  <2>1. pc[d] = "request" /\ UNCHANGED events /\ Attempt(d) \in Attempts
    BY <1>7, RequestTyped DEF PersistRequest
  <2>2. CASE Goto(d, "bind") /\ request[Attempt(d)] = None
    <3>1. result[Attempt(d)] = None
      BY <2>1, <2>2 DEF Stages, Told
    <3> QED
      BY <1>1, <1>5, <2>1, <2>2, <3>1 DEF Staged, Goto, Attempt, Leased
  <2> QED
    BY <1>4, <1>5, <1>7, <2>1, <2>2 DEF PersistRequest, Created, Abort
<1>8. CASE BindKey(d)
  <2>1. pc[d] = "bind" /\ UNCHANGED events /\ Attempt(d) \in Attempts
    BY <1>8, RequestTyped DEF BindKey
  <2>2. CASE Goto(d, "dispatched")
    BY <1>1, <1>5, <2>1, <2>2 DEF Stages, Staged, Goto, Attempt, Leased
  <2> QED
    BY <1>4, <1>5, <1>8, <2>1, <2>2 DEF BindKey, Created, Abort
<1>9. ASSUME NEW from \in {"validated", "dispatched"},
             NEW to \in {"dispatched", "running"},
             pc[d] \in {"dispatched", "running"},
             AppendEvent(Attempt(d), from, to),
             Return(d) \/ (Goto(d, "running") /\ to = "dispatched")
                       \/ (Goto(d, "lease") /\ to = "running")
      PROVE  Stages'
  <2>1. Attempt(d) \in Attempts /\ result[Attempt(d)] = None
    BY <1>9, RequestTyped DEF Stages, Staged
  <2>2. /\ StateAfter(events'[Attempt(d)]) = to
        /\ \A a \in Attempts : a # Attempt(d) => events'[a] = events[a]
    BY <1>9, <2>1, AppendMoves DEF States
  <2>3. \A a \in Attempts : a = Attempt(d) => Told(a)'
    BY <1>1, <2>1, <2>2 DEF Told, Recorded, Final, Reviewed
  <2>4. Staged(d)'
    <3>1. CASE Return(d)
      BY <1>4, <3>1
    <3>2. CASE ~Return(d)
      BY <1>1, <1>9, <2>1, <2>2, <3>2 DEF Staged, Goto, Attempt, Recorded, Leased
    <3> QED
      BY <3>1, <3>2
  <2>5. pc[d] \in Owning
    BY <1>9 DEF Owning
  <2> QED
    BY <1>1, <1>2, <2>2, <2>3, <2>4, <2>5, StepStages
<1>10. CASE RecordDispatched(d)
  BY <1>4, <1>5, <1>9, <1>10 DEF RecordDispatched, Created, Abort
<1>11. CASE RecordRunning(d)
  BY <1>4, <1>5, <1>9, <1>11 DEF RecordRunning, Abort
<1> QED
  BY <1>6, <1>7, <1>8, <1>10, <1>11 DEF Admission

LEMMA ExecutionStages ==
  ASSUME TypeOK, Ownership, Stages, NEW d \in Dispatchers, Execution(d)
  PROVE  Stages'
<1> USE DEF TypeOK, JournalTypeOK, ControlTypeOK
<1>1. /\ pc[d] \in Leased \cup {"lease"} /\ pc'[d] \in Leased \cup {"finalize"}
      /\ \A e \in Dispatchers \ {d} : pc'[e] = pc[e] /\ verdict'[e] = verdict[e]
      /\ UNCHANGED <<req, request, events, result>>
  BY DEF Execution, ClaimLease, Preflight, WriteSnapshot, SpawnDelegate,
     DelegateReturns, CheckCanceled, CheckBeforeVerifier, StartVerifier,
     VerifierReturns, RecheckCanceled, CheckAfterVerifier, LastCheck, Goto,
     Finalize, ExitWith, journal, Leased
<1>2. Recorded(Attempt(d)) = "running" /\ result[Attempt(d)] = None
  BY <1>1 DEF Stages, Staged
<1>3. Staged(d)'
  BY <1>1, <1>2 DEF Staged, Attempt, Recorded, Leased
<1>4. Kept(request, request')
  BY <1>1 DEF Kept
<1> QED
  BY <1>1, <1>3, <1>4, StepStages

LEMMA FinalizationStages ==
  ASSUME TypeOK, Ownership, Stages, NEW d \in Dispatchers, Finalization(d)
  PROVE  Stages'
<1> USE DEF TypeOK, JournalTypeOK, ControlTypeOK
<1> DEFINE a == Attempt(d)
<1>1. /\ pc[d] \in Finalizing \cup {"release"} /\ a \in Attempts
      /\ \A e \in Dispatchers \ {d} :
           pc'[e] = pc[e] /\ req'[e] = req[e] /\ verdict'[e] = verdict[e]
      /\ UNCHANGED request
  BY RequestTyped DEF Finalization, LockForResult, RecordResult, PublishResult,
     ReleaseLease, Goto, Return, journal, Finalizing
<1>2. pc[d] \in Owning /\ Kept(request, request')
  BY <1>1 DEF Owning, Kept
<1>3. request[a] # None
  BY <1>1, <1>2, RequestTyped, NoneIsNew DEF Ownership, OwnRequest, Owning, Leased, Finalizing
<1>4. ASSUME pc'[d] \in {"release", "idle"} PROVE Staged(d)'
  BY <1>4 DEF Staged, Leased
<1>5. CASE LockForResult(d)
  <2>1. UNCHANGED <<events, result>> /\ pc[d] = "finalize"
    BY <1>5 DEF LockForResult
  <2>2. CASE Goto(d, "record")
    BY <1>1, <1>2, <2>1, <2>2, StepStages DEF Stages, Staged, Goto, Attempt, Recorded, Leased
  <2>3. CASE Goto(d, "release")
    <3>1. pc'[d] = "release"
      BY <2>3 DEF Goto
    <3> QED
      BY <1>1, <1>2, <1>4, <2>1, <3>1, StepStages
  <2> QED
    BY <1>5, <2>2, <2>3 DEF LockForResult
<1>6. CASE RecordResult(d)
  <2>1. pc[d] = "record" /\ UNCHANGED events
    BY <1>6 DEF RecordResult
  <2>2. Recorded(a) = "running"
    BY <2>1 DEF Stages, Staged
  <2>3. CASE UNCHANGED result
    <3>1. pc'[d] = "release"
      BY <1>1, <1>6, <2>3, NoneIsNew DEF RecordResult, Goto, Results
    <3> QED
      BY <1>1, <1>2, <1>4, <2>1, <2>3, <3>1, StepStages
  <2>4. CASE result' = [result EXCEPT ![a] = [state |-> verdict[d], writes |-> writes[d]]]
    <3>1. [state |-> verdict[d], writes |-> writes[d]] # None
      <4>1. [state |-> verdict[d], writes |-> writes[d]] \in Results
        BY <2>1 DEF Results, Finalizing
      <4> QED
        BY <4>1, NoneIsNew
    <3>2. /\ result'[a] # None /\ result'[a].state = verdict[d]
          /\ \A b \in Attempts : b # a => result'[b] = result[b]
      BY <1>1, <2>4, <3>1
    <3>3. \A b \in Attempts : b = a => Told(b)'
      BY <1>1, <1>3, <2>1, <2>2, <3>2 DEF Told, Recorded, Final, Reviewed
    <3>4. Staged(d)'
      BY <1>1, <1>6, <2>1, <2>2, <3>2 DEF RecordResult, Staged, Goto, Attempt,
         Recorded, Leased
    <3> QED
      BY <1>1, <1>2, <2>1, <3>2, <3>3, <3>4, StepStages
  <2> QED
    BY <1>6, <2>3, <2>4 DEF RecordResult
<1>7. CASE PublishResult(d)
  <2>1. /\ pc[d] = "publish" /\ pc'[d] = "release" /\ UNCHANGED result
        /\ verdict[d] \in Final
    BY <1>7 DEF PublishResult, Goto, Finalizing
  <2>2. CASE UNCHANGED events
    BY <1>1, <1>2, <1>4, <2>1, <2>2, StepStages
  <2>3. CASE AppendEvent(a, "running", verdict[d])
    <3>1. /\ StateAfter(events'[a]) = verdict[d]
          /\ \A b \in Attempts : b # a => events'[b] = events[b]
      BY <1>1, <2>1, <2>3, AppendMoves DEF States
    <3>2. result[a] # None /\ result[a].state = verdict[d]
      BY <2>1 DEF Stages, Staged
    <3>3. \A b \in Attempts : b = a => Told(b)'
      BY <1>1, <1>3, <2>1, <3>1, <3>2 DEF Told, Recorded, Final, Reviewed
    <3> QED
      BY <1>1, <1>2, <1>4, <2>1, <3>1, <3>3, StepStages
  <2> QED
    BY <1>7, <2>2, <2>3 DEF PublishResult
<1>8. CASE ReleaseLease(d)
  <2>1. pc'[d] = "idle" /\ UNCHANGED <<events, result>>
    BY <1>8 DEF ReleaseLease, Return, journal
  <2> QED
    BY <1>1, <1>2, <1>4, <2>1, StepStages
<1> QED
  BY <1>5, <1>6, <1>7, <1>8 DEF Finalization

LEMMA OthersStage ==
  ASSUME TypeOK, Stages,
         \/ \E d \in Dispatchers : Context(d)
         \/ \E a \in Attempts : Cancel(a)
         \/ Environment
         \/ UNCHANGED vars
  PROVE  Stages'
<1> USE DEF TypeOK, ControlTypeOK
<1>1. ASSUME UNCHANGED <<request, events, result, req>>,
             \A d \in Dispatchers :
               pc'[d] = "crashed" \/ (pc'[d] = pc[d] /\ verdict'[d] = verdict[d])
      PROVE  Stages'
  <2>1. ASSUME NEW d \in Dispatchers PROVE Staged(d)'
    BY <1>1 DEF Stages, Staged, Attempt, Recorded, Leased
  <2>2. ASSUME NEW a \in Attempts PROVE Told(a)'
    BY <1>1 DEF Stages, Told, Recorded
  <2> QED
    BY <2>1, <2>2 DEF Stages
<1>2. UNCHANGED <<request, events, result, req>>
  BY DEF Context, WatchCancel, Deadline, ContextEnds, Cancel, Environment,
     ChildWrites, ChildTampers, OrphanExits, Edit, EditCandidate, EditCovered, CleanWorkspace,
     RemoveStaleLease, RemoveStaleJournalLock, Crash, journal, control, vars
<1>3. \A d \in Dispatchers :
        pc'[d] = "crashed" \/ (pc'[d] = pc[d] /\ verdict'[d] = verdict[d])
  BY DEF Context, WatchCancel, Deadline, ContextEnds, Cancel, Environment,
     ChildWrites, ChildTampers, OrphanExits, Edit, EditCandidate, EditCovered, CleanWorkspace,
     RemoveStaleLease, RemoveStaleJournalLock, Crash, control, vars
<1> QED
  BY <1>1, <1>2, <1>3

(* Any step of a dispatcher or of the world around it.                     *)
LEMMA NextStages ==
  ASSUME TypeOK, Ownership, Accounted, Stages, [Next]_vars
  PROVE  Stages'
BY AdmissionStages, ExecutionStages, FinalizationStages, OthersStage
   DEF Next, Dispatcher

(* Who wrote the event: a dispatcher moves its own attempt, from the state *)
(* the last event left it in.                                              *)
Moved(a, from, to) == Recorded(a) = from /\ AppendEvent(a, from, to)

LEMMA NextMoves ==
  ASSUME TypeOK, Accounted, Stages, [Next]_vars
  PROVE  \/ UNCHANGED events
         \/ \E d \in Dispatchers :
              /\ Attempt(d) \in Attempts
              /\ \/ RecordDispatched(d) /\ Moved(Attempt(d), "validated", "dispatched")
                 \/ RecordRunning(d) /\ Moved(Attempt(d), "dispatched", "running")
                 \/ PublishResult(d) /\ Moved(Attempt(d), "running", verdict[d])
<1> USE DEF TypeOK, ControlTypeOK
<1>1. ASSUME NEW d \in Dispatchers, Dispatcher(d),
             ~(RecordDispatched(d) \/ RecordRunning(d) \/ PublishResult(d))
      PROVE  UNCHANGED events
  BY <1>1 DEF Dispatcher, Admission, Invoke, Replay, RefuseDeadline,
     ReserveBudget, PersistReservation, PersistRequest, BindKey, Execution,
     ClaimLease, Preflight, WriteSnapshot, SpawnDelegate, DelegateReturns,
     CheckCanceled, CheckBeforeVerifier, StartVerifier, VerifierReturns,
     RecheckCanceled, CheckAfterVerifier, LastCheck, Finalization,
     LockForResult, RecordResult, ReleaseLease, journal
<1>2. ASSUME NEW d \in Dispatchers, RecordDispatched(d), ~UNCHANGED events
      PROVE  Moved(Attempt(d), "validated", "dispatched")
  BY <1>2 DEF RecordDispatched, Accounted, AccountedFor, Moved, Recorded, StateAfter
<1>3. ASSUME NEW d \in Dispatchers, RecordRunning(d), ~UNCHANGED events
      PROVE  Moved(Attempt(d), "dispatched", "running")
  BY <1>3 DEF RecordRunning, Stages, Staged, Moved
<1>4. ASSUME NEW d \in Dispatchers, PublishResult(d), ~UNCHANGED events
      PROVE  Moved(Attempt(d), "running", verdict[d])
  BY <1>4 DEF PublishResult, Stages, Staged, Moved
<1>5. ASSUME NEW d \in Dispatchers,
             RecordDispatched(d) \/ RecordRunning(d) \/ PublishResult(d)
      PROVE  Attempt(d) \in Attempts
  BY <1>5, RequestTyped DEF RecordDispatched, RecordRunning, PublishResult
<1>6. ASSUME \/ \E d \in Dispatchers : Context(d)
             \/ \E a \in Attempts : Cancel(a)
             \/ Environment
             \/ UNCHANGED vars
      PROVE  UNCHANGED events
  BY <1>6 DEF Context, WatchCancel, Deadline, ContextEnds, Cancel, Environment,
     ChildWrites, ChildTampers, OrphanExits, Edit, EditCandidate, EditCovered, CleanWorkspace,
     RemoveStaleLease, RemoveStaleJournalLock, Crash, journal, vars
<1> QED
  BY <1>1, <1>2, <1>3, <1>4, <1>5, <1>6 DEF Next

(* An appended event continues the chain of its attempt.                   *)
LEMMA MoveChains ==
  ASSUME TypeOK, EventChain, NEW b \in Attempts, NEW from \in States,
         NEW to \in States, Moved(b, from, to)
  PROVE  EventChain'
<1>1. /\ Chained(events[b]) => Chained(events'[b])
      /\ \A a \in Attempts : a # b => events'[a] = events[a]
  BY AppendMoves DEF Moved, Recorded
<1>2. ASSUME NEW a \in Attempts PROVE Chained(events'[a])
  BY <1>1 DEF EventChain
<1> QED
  BY <1>2 DEF EventChain

LEMMA NextChains ==
  ASSUME TypeOK, Accounted, Stages, EventChain, [Next]_vars
  PROVE  EventChain'
<1>1. ASSUME NEW d \in Dispatchers, PublishResult(d) PROVE verdict[d] \in States
  BY <1>1 DEF PublishResult, TypeOK, ControlTypeOK, Finalizing, States
<1>2. CASE UNCHANGED events
  BY <1>2 DEF EventChain
<1> QED
  BY <1>1, <1>2, NextMoves, MoveChains DEF States

-----------------------------------------------------------------------------
(* What a verified verdict rests on: its attempt's delegate ran, and from  *)
(* the integrity check to the published verdict the workspace is leased,   *)
(* and undisturbed unless an editor outside Fanisi came after the check.   *)
Ran(d) ==
  \/ pc[d] \in {"delegate", "verify", "verifying", "vexited", "integrity2", "lastCheck"}
  \/ pc[d] \in {"exited", "integrity1"} /\ code[d] = "ok"
  \/ pc[d] \in Finalizing /\ verdict[d] = Verified

VerifiedRan ==
  /\ \A d \in Dispatchers : Ran(d) => Attempt(d) \in executed
  /\ \A a \in Attempts : result[a] # None /\ result[a].state = Verified => a \in executed

Trusting(d) ==
  \/ pc[d] \in {"verify", "lastCheck"}
  \/ pc[d] \in Finalizing /\ verdict[d] = Verified

TrustHeld ==
  \A d \in Dispatchers : Trusting(d) =>
    Workspace(d) \in intact \cup slipped /\ lease[Workspace(d)] = d

(* Only d's own step makes d go on as if its delegate had run, or trust its*)
(* workspace, and only right after it started the one or checked the other.*)
LEMMA DispatcherRuns ==
  ASSUME TypeOK, NEW d \in Dispatchers, Dispatcher(d)
  PROVE  /\ \A e \in Dispatchers \ {d} : /\ pc'[e] = pc[e] /\ req'[e] = req[e]
                                         /\ code'[e] = code[e] /\ verdict'[e] = verdict[e]
         /\ executed \subseteq executed'
         /\ Ran(d)' => req'[d] = req[d] /\ (Ran(d) \/ Attempt(d) \in executed')
         /\ Trusting(d)' => /\ req'[d] = req[d]
                            /\ Trusting(d) \/ (pc[d] \in Leased /\ Workspace(d) \in intact)
         /\ UNCHANGED <<intact, slipped>>
<1> USE DEF TypeOK, ControlTypeOK, Ran, Trusting, Finalizing, Verified, Blocked, Failed
<1>1. CASE Admission(d)
  <2>1. \/ Return(d)
        \/ \E at \in Admitting \cup {"lease"} : pc' = [pc EXCEPT ![d] = at]
    BY <1>1 DEF Admission, Invoke, Replay, RefuseDeadline, ReserveBudget,
       PersistReservation, PersistRequest, BindKey, RecordDispatched,
       RecordRunning, Created, Abort, Goto, Return, Admitting
  <2>2. pc'[d] \in Admitting \cup {"lease", "idle"}
    BY <2>1 DEF Return
  <2>3. ~Ran(d)' /\ ~Trusting(d)'
    BY <2>2 DEF Admitting
  <2>4. UNCHANGED <<executed, intact, slipped>>
    BY <1>1 DEF Admission, Invoke, Replay, RefuseDeadline, ReserveBudget,
       PersistReservation, PersistRequest, BindKey, RecordDispatched,
       RecordRunning, outside, workspace, history
  <2>5. \A e \in Dispatchers \ {d} : /\ pc'[e] = pc[e] /\ req'[e] = req[e]
                                     /\ code'[e] = code[e] /\ verdict'[e] = verdict[e]
    BY <1>1 DEF Admission, Invoke, Replay, RefuseDeadline, ReserveBudget,
       PersistReservation, PersistRequest, BindKey, RecordDispatched,
       RecordRunning, Created, Abort, Goto, Return
  <2> QED
    BY <2>3, <2>4, <2>5
<1>2. CASE Execution(d)
  <2>1. /\ UNCHANGED <<req, intact, slipped>> /\ executed \subseteq executed'
        /\ \A e \in Dispatchers \ {d} : /\ pc'[e] = pc[e] /\ req'[e] = req[e]
                                        /\ code'[e] = code[e] /\ verdict'[e] = verdict[e]
    BY <1>2 DEF Execution, ClaimLease, Preflight, WriteSnapshot, SpawnDelegate,
       DelegateReturns, CheckCanceled, CheckBeforeVerifier, StartVerifier,
       VerifierReturns, RecheckCanceled, CheckAfterVerifier, LastCheck, Goto,
       Finalize, ExitWith, outside, workspace, history
  <2>2. ASSUME Ran(d)' PROVE Ran(d) \/ Attempt(d) \in executed'
    BY <1>2, <2>2 DEF Execution, ClaimLease, Preflight, WriteSnapshot, SpawnDelegate,
       DelegateReturns, CheckCanceled, CheckBeforeVerifier, StartVerifier,
       VerifierReturns, RecheckCanceled, CheckAfterVerifier, LastCheck, Goto,
       Finalize, ExitWith
  <2>3. ASSUME Trusting(d)'
        PROVE  Trusting(d) \/ (pc[d] \in Leased /\ Workspace(d) \in intact)
    BY <1>2, <2>3 DEF Execution, ClaimLease, Preflight, WriteSnapshot, SpawnDelegate,
       DelegateReturns, CheckCanceled, CheckBeforeVerifier, StartVerifier,
       VerifierReturns, RecheckCanceled, CheckAfterVerifier, LastCheck, Goto,
       Finalize, ExitWith, Leased
  <2> QED
    BY <2>1, <2>2, <2>3
<1>3. CASE Finalization(d)
  <2>1. /\ UNCHANGED <<executed, intact, slipped>>
        /\ \A e \in Dispatchers \ {d} : /\ pc'[e] = pc[e] /\ req'[e] = req[e]
                                        /\ code'[e] = code[e] /\ verdict'[e] = verdict[e]
    BY <1>3 DEF Finalization, LockForResult, RecordResult, PublishResult,
       ReleaseLease, Goto, Return, outside, workspace, history
  <2>2. CASE ReleaseLease(d)
    <3>1. pc'[d] = "idle"
      BY <2>2 DEF ReleaseLease, Return
    <3> QED
      BY <2>1, <3>1
  <2>3. CASE ~ReleaseLease(d)
    <3>1. /\ pc[d] \in Finalizing /\ pc'[d] \in {"record", "publish", "release"}
          /\ req'[d] = req[d] /\ verdict'[d] = verdict[d]
      BY <1>3, <2>3 DEF Finalization, LockForResult, RecordResult, PublishResult, Goto
    <3> QED
      BY <2>1, <3>1
  <2> QED
    BY <2>2, <2>3
<1> QED
  BY <1>1, <1>2, <1>3 DEF Dispatcher

(* The others leave a dispatcher where it is, or kill it.                  *)
LEMMA OthersLeave ==
  ASSUME \/ \E d \in Dispatchers : Context(d)
         \/ \E a \in Attempts : Cancel(a)
         \/ Environment
         \/ UNCHANGED vars,
         TypeOK
  PROVE  /\ UNCHANGED <<req, executed, request, result, events, judged>>
         /\ \A d \in Dispatchers :
              \/ pc'[d] = "crashed"
              \/ /\ pc'[d] = pc[d] /\ code'[d] = code[d] /\ verdict'[d] = verdict[d]
                 /\ writes'[d] = writes[d]
<1> USE DEF TypeOK, ControlTypeOK
<1>1. UNCHANGED <<req, executed, request, result, events, judged>>
  BY DEF Context, WatchCancel, Deadline, ContextEnds, Cancel, Environment,
     ChildWrites, ChildTampers, OrphanExits, Edit, EditCandidate, EditCovered, CleanWorkspace,
     RemoveStaleLease, RemoveStaleJournalLock, Crash, journal, control, outside,
     history, vars
<1>2. ASSUME NEW d \in Dispatchers
      PROVE  \/ pc'[d] = "crashed"
             \/ /\ pc'[d] = pc[d] /\ code'[d] = code[d] /\ verdict'[d] = verdict[d]
                /\ writes'[d] = writes[d]
  BY DEF Context, WatchCancel, Deadline, ContextEnds, Cancel, Environment,
     ChildWrites, ChildTampers, OrphanExits, Edit, EditCandidate, EditCovered, CleanWorkspace,
     RemoveStaleLease, RemoveStaleJournalLock, Crash, control, vars
<1> QED
  BY <1>1, <1>2

(* The result of an attempt is written by the dispatcher that owns it.     *)
LEMMA ResultWritten ==
  ASSUME TypeOK, [Next]_vars, NEW a \in Attempts, result'[a] # result[a]
  PROVE  \E d \in Dispatchers :
           /\ RecordResult(d) /\ a = Attempt(d) /\ pc[d] = "record"
           /\ result'[a] = [state |-> verdict[d], writes |-> writes[d]]
           /\ UNCHANGED <<events, executed, judged>>
<1>1. ASSUME NEW d \in Dispatchers, Dispatcher(d), ~RecordResult(d)
      PROVE  UNCHANGED result
  BY <1>1 DEF Dispatcher, Admission, Invoke, Replay, RefuseDeadline,
     ReserveBudget, PersistReservation, PersistRequest, BindKey, RecordDispatched,
     RecordRunning, Execution, ClaimLease, Preflight, WriteSnapshot,
     SpawnDelegate, DelegateReturns, CheckCanceled, CheckBeforeVerifier,
     StartVerifier, VerifierReturns, RecheckCanceled, CheckAfterVerifier,
     LastCheck, Finalization, LockForResult, PublishResult, ReleaseLease, journal
<1>2. PICK d \in Dispatchers : RecordResult(d)
  BY <1>1, OthersLeave DEF Next
<1> QED
  BY <1>2 DEF RecordResult, TypeOK, JournalTypeOK, outside, history

LEMMA NextRan ==
  ASSUME TypeOK, VerifiedRan, [Next]_vars
  PROVE  VerifiedRan'
<1> USE DEF TypeOK, ControlTypeOK, VerifiedRan
<1>1. ASSUME NEW e \in Dispatchers, Dispatcher(e), NEW d \in Dispatchers, Ran(d)'
      PROVE  Attempt(d)' \in executed'
  BY <1>1, DispatcherRuns DEF Ran, Attempt
<1>2. ASSUME \/ \E d \in Dispatchers : Context(d)
             \/ \E a \in Attempts : Cancel(a)
             \/ Environment
             \/ UNCHANGED vars,
             NEW d \in Dispatchers, Ran(d)'
      PROVE  Attempt(d)' \in executed'
  <2>1. Ran(d)
    BY <1>2, OthersLeave DEF Ran, Finalizing
  <2> QED
    BY <1>2, <2>1, OthersLeave DEF Attempt
<1>3. executed \subseteq executed'
  BY DispatcherRuns, OthersLeave DEF Next
<1>4. ASSUME NEW a \in Attempts, result'[a] # None, result'[a].state = Verified
      PROVE  a \in executed'
  <2>1. CASE result'[a] = result[a]
    BY <1>3, <1>4, <2>1
  <2>2. CASE result'[a] # result[a]
    <3>1. PICK d \in Dispatchers :
            /\ a = Attempt(d) /\ pc[d] = "record"
            /\ result'[a] = [state |-> verdict[d], writes |-> writes[d]]
      BY <2>2, ResultWritten
    <3>2. Ran(d)
      BY <1>4, <3>1 DEF Ran, Finalizing
    <3> QED
      BY <1>3, <3>1, <3>2
  <2> QED
    BY <2>1, <2>2
<1> QED
  BY <1>1, <1>2, <1>4 DEF Next

(* Nobody takes the lease of a dispatcher that lives, and nobody disturbs  *)
(* its workspace while it does not wait for a child, but an editor outside *)
(* Fanisi, who is remembered if an integrity check has passed.             *)
LEMMA TrustLasts ==
  ASSUME TypeOK, Ownership, [Next]_vars, NEW d \in Dispatchers,
         pc[d] \notin Waiting \cup {"idle", "release"},
         pc[d] \in Checked \/ Dispatcher(d),
         NEW w \in Workspaces, lease[w] = d, w \in intact \cup slipped
  PROVE  lease'[w] = d /\ w \in (intact \cup slipped)'
<1> USE DEF TypeOK, WorldTypeOK, ControlTypeOK
<1>1. ASSUME NEW a \in Attempts, child[a] # "none" PROVE WorkspaceOfAttempt(a) # w
  <2>1. PICK e \in Dispatchers : /\ req[e] = request[a] /\ lease[Workspace(e)] = e
                                 /\ pc[e] \in Waiting
    BY <1>1 DEF Ownership, ChildrenOwned
  <2> QED
    BY <2>1 DEF WorkspaceOfAttempt, Workspace
<1>2. d # None /\ d \notin Crashed
  BY NoneIsNoDispatcher DEF Crashed, Waiting
<1>3. lease'[w] = d
  <2>1. ASSUME NEW e \in Dispatchers, Dispatcher(e),
               ~ClaimLease(e), ~ReleaseLease(e)
        PROVE  UNCHANGED lease
    BY <2>1 DEF Dispatcher, Admission, Invoke, Replay, RefuseDeadline,
       ReserveBudget, PersistReservation, PersistRequest, BindKey,
       RecordDispatched, RecordRunning, Execution, Preflight, WriteSnapshot,
       SpawnDelegate, DelegateReturns, CheckCanceled, CheckBeforeVerifier,
       StartVerifier, VerifierReturns, RecheckCanceled, CheckAfterVerifier,
       LastCheck, Finalization, LockForResult, RecordResult, PublishResult, outside
  <2>2. ASSUME NEW e \in Dispatchers, ClaimLease(e) PROVE lease'[w] = d
    BY <1>2, <2>2 DEF ClaimLease
  <2>3. ASSUME NEW e \in Dispatchers, ReleaseLease(e) PROVE lease'[w] = d
    BY <1>2, <2>3 DEF ReleaseLease
  <2>4. ASSUME NEW v \in Workspaces, RemoveStaleLease(v) PROVE lease'[w] = d
    BY <1>2, <2>4 DEF RemoveStaleLease
  <2>5. ASSUME \/ \E e \in Dispatchers : Context(e) \/ Crash(e)
               \/ \E a \in Attempts :
                    Cancel(a) \/ ChildWrites(a) \/ ChildTampers(a) \/ OrphanExits(a)
               \/ \E v \in Workspaces : Edit(v) \/ CleanWorkspace(v)
               \/ RemoveStaleJournalLock \/ UNCHANGED vars
        PROVE  UNCHANGED lease
    BY <2>5 DEF Context, WatchCancel, Deadline, ContextEnds, Cancel,
       ChildWrites, ChildTampers, OrphanExits, Edit, EditCandidate, EditCovered, CleanWorkspace,
       RemoveStaleJournalLock, Crash, outside, vars
  <2> QED
    BY <2>1, <2>2, <2>3, <2>4, <2>5 DEF Next, Environment
<1>4. w \in (intact \cup slipped)'
  <2>1. ASSUME NEW a \in Attempts, ChildTampers(a) PROVE w \in (intact \cup slipped)'
    BY <1>1, <2>1 DEF ChildTampers, history
  <2>2. ASSUME NEW v \in Workspaces, CleanWorkspace(v) PROVE w \in (intact \cup slipped)'
    BY <2>2, <1>2 DEF CleanWorkspace
  <2>3. ASSUME NEW v \in Workspaces, Edit(v) PROVE w \in (intact \cup slipped)'
    <3>1. CASE EditCandidate(v)
      BY <3>1 DEF EditCandidate
    <3>2. CASE EditCovered(v)
      <4>1. pc[d] \in Checked
        BY <3>2, DispatcherRuns DEF EditCovered
      <4>2. v = w => v \in slipped'
        BY <3>2, <4>1 DEF EditCovered
      <4> QED
        BY <3>2, <4>2 DEF EditCovered
    <3> QED
      BY <2>3, <3>1, <3>2 DEF Edit
  <2>4. ASSUME \/ \E e \in Dispatchers : Context(e) \/ Crash(e)
               \/ \E a \in Attempts : Cancel(a) \/ ChildWrites(a) \/ OrphanExits(a)
               \/ \E v \in Workspaces : RemoveStaleLease(v)
               \/ RemoveStaleJournalLock \/ UNCHANGED vars
        PROVE  UNCHANGED <<intact, slipped>>
    BY <2>4 DEF Context, WatchCancel, Deadline, ContextEnds, Cancel,
       ChildWrites, OrphanExits, RemoveStaleLease,
       RemoveStaleJournalLock, Crash, outside, workspace, history, vars
  <2> QED
    BY <2>1, <2>2, <2>3, <2>4, DispatcherRuns DEF Next, Environment
<1> QED
  BY <1>3, <1>4

LEMMA NextTrust ==
  ASSUME TypeOK, Ownership, TrustHeld, [Next]_vars
  PROVE  TrustHeld'
<1> USE DEF TypeOK, ControlTypeOK
<1>1. ASSUME NEW d \in Dispatchers, Trusting(d)'
      PROVE  /\ req'[d] = req[d]
             /\ \/ Trusting(d)
                \/ Dispatcher(d) /\ pc[d] \in Leased \ Waiting /\ Workspace(d) \in intact
  <2>1. ASSUME NEW e \in Dispatchers, Dispatcher(e), e # d
        PROVE  req'[d] = req[d] /\ Trusting(d)
    BY <1>1, <2>1, DispatcherRuns DEF Trusting
  <2>2. CASE Dispatcher(d)
    <3>1. pc[d] \in {"delegate", "verifying"} => pc'[d] \in {"exited", "vexited"}
      BY <2>2 DEF Dispatcher, Admission, Invoke, Replay, RefuseDeadline,
         ReserveBudget, PersistReservation, PersistRequest, BindKey,
         RecordDispatched, RecordRunning, Execution, ClaimLease, Preflight,
         WriteSnapshot, SpawnDelegate, DelegateReturns, CheckCanceled,
         CheckBeforeVerifier, StartVerifier, VerifierReturns, RecheckCanceled,
         CheckAfterVerifier, LastCheck, Finalization, LockForResult,
         RecordResult, PublishResult, ReleaseLease, ExitWith
    <3> QED
      BY <1>1, <2>2, <3>1, DispatcherRuns DEF Trusting, Waiting, Leased, Finalizing
  <2>3. ASSUME \/ \E e \in Dispatchers : Context(e)
               \/ \E a \in Attempts : Cancel(a)
               \/ Environment
               \/ UNCHANGED vars
        PROVE  req'[d] = req[d] /\ Trusting(d)
    BY <1>1, <2>3, OthersLeave DEF Trusting, Finalizing
  <2> QED
    BY <2>1, <2>2, <2>3 DEF Next
<1>2. ASSUME NEW d \in Dispatchers, Trusting(d)'
      PROVE  Workspace(d)' \in (intact \cup slipped)' /\ lease'[Workspace(d)'] = d
  <2>1. /\ pc[d] \notin Waiting \cup {"idle", "release"}
        /\ pc[d] \in Checked \/ Dispatcher(d)
        /\ Workspace(d) \in intact \cup slipped /\ lease[Workspace(d)] = d
    BY <1>1, <1>2 DEF TrustHeld, Trusting, Waiting, Leased, Checked, Finalizing,
       Ownership, LeaseHeld
  <2>2. Workspace(d) \in Workspaces /\ Workspace(d)' = Workspace(d)
    BY <1>1, <1>2, <2>1, RequestTyped DEF Workspace
  <2> QED
    BY <2>1, <2>2, TrustLasts
<1> QED
  BY <1>2 DEF TrustHeld

-----------------------------------------------------------------------------
(* What was judged is what is recorded, unless the verifier itself, or an  *)
(* editor beneath it, rewrote the candidate: the hashes taken after the run*)
(* replace those taken before it, and nothing compares the two.            *)
JudgedHere(d) ==
  /\ pc[d] = "verifying" =>
       /\ child[Attempt(d)] = "verifier"
       /\ judged[Attempt(d)] # None
       /\ judged[Attempt(d)] = cand[Workspace(d)] \/ Attempt(d) \in rewritten
  /\ \/ pc[d] \in {"vexited", "integrity2"} /\ code[d] = "ok"
     \/ pc[d] = "lastCheck"
     \/ pc[d] \in Finalizing /\ verdict[d] = Verified
     => /\ judged[Attempt(d)] # None
        /\ writes[d] = judged[Attempt(d)] \/ Attempt(d) \in rewritten

AllJudged == \A d \in Dispatchers : JudgedHere(d)

(* A dispatcher's own steps change no candidate.                           *)
LEMMA DispatcherReads ==
  ASSUME NEW e \in Dispatchers, Dispatcher(e)
  PROVE  UNCHANGED <<cand, rewritten>>
BY DEF Dispatcher, Admission, Invoke, Replay, RefuseDeadline,
   ReserveBudget, PersistReservation, PersistRequest, BindKey, RecordDispatched,
   RecordRunning, Execution, ClaimLease, Preflight, WriteSnapshot,
   SpawnDelegate, DelegateReturns, CheckCanceled, CheckBeforeVerifier,
   StartVerifier, VerifierReturns, RecheckCanceled, CheckAfterVerifier,
   LastCheck, Finalization, LockForResult, RecordResult, PublishResult,
   ReleaseLease, outside, workspace, history

(* Nobody forgets a rewriting.                                             *)
LEMMA RewritingRemembered ==
  ASSUME [Next]_vars
  PROVE  rewritten \subseteq rewritten'
<1>1. ASSUME NEW a \in Attempts, ChildWrites(a) PROVE rewritten \subseteq rewritten'
  BY <1>1 DEF ChildWrites
<1>2. ASSUME NEW w \in Workspaces, Edit(w) PROVE rewritten \subseteq rewritten'
  BY <1>2 DEF Edit, EditCandidate, EditCovered
<1>3. ASSUME \/ \E e \in Dispatchers : Context(e) \/ Crash(e)
             \/ \E a \in Attempts : Cancel(a) \/ ChildTampers(a) \/ OrphanExits(a)
             \/ \E v \in Workspaces : CleanWorkspace(v) \/ RemoveStaleLease(v)
             \/ RemoveStaleJournalLock \/ UNCHANGED vars
      PROVE  UNCHANGED rewritten
  BY <1>3 DEF Context, WatchCancel, Deadline, ContextEnds, Cancel, ChildTampers,
     OrphanExits, CleanWorkspace, RemoveStaleLease, RemoveStaleJournalLock, Crash,
     outside, history, vars
<1> QED
  BY <1>1, <1>2, <1>3, DispatcherReads DEF Next, Environment

(* The candidate of a verifier that runs stays as it is, or the verifier   *)
(* or an editor outside Fanisi is known to have rewritten it: no other     *)
(* attempt, orphan or delegate does.                                       *)
LEMMA CandidateStays ==
  ASSUME TypeOK, Ownership, AllJudged, [Next]_vars,
         NEW d \in Dispatchers, pc[d] = "verifying"
  PROVE  cand'[Workspace(d)] = cand[Workspace(d)] \/ Attempt(d) \in rewritten'
<1> USE DEF TypeOK, WorldTypeOK, ControlTypeOK
<1> DEFINE w == Workspace(d)
<1>1. /\ w \in Workspaces /\ lease[w] = d /\ child[Attempt(d)] = "verifier"
      /\ Attempt(d) \in Attempts /\ WorkspaceOfAttempt(Attempt(d)) = w
  BY RequestTyped DEF Ownership, LeaseHeld, OwnRequest, Owning, Leased, AllJudged,
     JudgedHere, WorkspaceOfAttempt, Workspace
<1>2. ASSUME NEW a \in Attempts, ChildWrites(a), WorkspaceOfAttempt(a) = w
      PROVE  a = Attempt(d)
  <2>1. PICK e \in Dispatchers : /\ req[e] # None /\ req[e] = request[a]
                                 /\ lease[Workspace(e)] = e
    BY <1>2 DEF ChildWrites, Ownership, ChildrenOwned
  <2>2. e = d
    BY <1>1, <1>2, <2>1 DEF WorkspaceOfAttempt, Workspace
  <2> QED
    BY <2>1, <2>2 DEF Ownership, RequestsMatch, Attempt
<1>3. ASSUME NEW a \in Attempts, ChildWrites(a)
      PROVE  cand'[w] = cand[w] \/ Attempt(d) \in rewritten'
  <2>1. CASE WorkspaceOfAttempt(a) = w
    BY <1>1, <1>2, <1>3, <2>1 DEF ChildWrites
  <2>2. CASE WorkspaceOfAttempt(a) # w
    BY <1>1, <1>3, <2>2 DEF ChildWrites
  <2> QED
    BY <2>1, <2>2
<1>4. ASSUME NEW v \in Workspaces, Edit(v)
      PROVE  cand'[w] = cand[w] \/ Attempt(d) \in rewritten'
  <2>1. CASE v = w /\ EditCandidate(v)
    BY <1>1, <2>1 DEF EditCandidate, ChildrenIn
  <2>2. CASE v # w \/ EditCovered(v)
    BY <1>1, <1>4, <2>2 DEF Edit, EditCandidate, EditCovered
  <2> QED
    BY <1>4, <2>1, <2>2 DEF Edit
<1>5. ASSUME NEW v \in Workspaces, CleanWorkspace(v) PROVE cand'[w] = cand[w]
  BY <1>1, <1>5, NoneIsNoDispatcher DEF CleanWorkspace
<1>6. ASSUME \/ \E e \in Dispatchers : Context(e) \/ Crash(e)
             \/ \E a \in Attempts : Cancel(a) \/ ChildTampers(a) \/ OrphanExits(a)
             \/ \E v \in Workspaces : RemoveStaleLease(v)
             \/ RemoveStaleJournalLock \/ UNCHANGED vars
      PROVE  UNCHANGED cand
  BY <1>6 DEF Context, WatchCancel, Deadline, ContextEnds, Cancel, ChildTampers,
     OrphanExits, RemoveStaleLease, RemoveStaleJournalLock, Crash, outside,
     workspace, vars
<1> QED
  BY <1>3, <1>4, <1>5, <1>6, DispatcherReads DEF Next, Environment

(* A child is started, or its end seen, by the dispatcher it belongs to.   *)
LEMMA VerifierStays ==
  ASSUME TypeOK, Ownership, [Next]_vars, NEW d \in Dispatchers,
         pc[d] \in Owning, ~Dispatcher(d),
         NEW a \in Attempts, a = Attempt(d)
  PROVE  /\ judged'[a] = judged[a]
         /\ pc[d] = "verifying" => child'[a] = child[a]
<1> USE DEF TypeOK, WorldTypeOK, ControlTypeOK
<1>1. ASSUME NEW e \in Dispatchers, Dispatcher(e)
      PROVE  judged'[a] = judged[a] /\ child'[a] = child[a]
  <2>1. CASE pc[e] \in Owning
    <3>1. Attempt(e) # a
      BY <1>1, <2>1 DEF Ownership, OneOwner
    <3> QED
      BY <1>1, <3>1 DEF Dispatcher, Admission, Invoke, Replay, RefuseDeadline,
         ReserveBudget, PersistReservation, PersistRequest, BindKey,
         RecordDispatched, RecordRunning, Execution, ClaimLease, Preflight,
         WriteSnapshot, SpawnDelegate, DelegateReturns, CheckCanceled,
         CheckBeforeVerifier, StartVerifier, VerifierReturns, RecheckCanceled,
         CheckAfterVerifier, LastCheck, Finalization, LockForResult,
         RecordResult, PublishResult, ReleaseLease, outside, history
  <2>2. CASE pc[e] \notin Owning
    <3>1. UNCHANGED <<judged, child>>
      BY <1>1, <2>2 DEF Dispatcher, Admission, Invoke, Replay, RefuseDeadline,
         ReserveBudget, PersistReservation, PersistRequest, BindKey,
         RecordDispatched, RecordRunning, Execution, ClaimLease, Preflight,
         WriteSnapshot, SpawnDelegate, DelegateReturns, CheckCanceled,
         CheckBeforeVerifier, StartVerifier, VerifierReturns, RecheckCanceled,
         CheckAfterVerifier, LastCheck, Finalization, LockForResult,
         RecordResult, PublishResult, ReleaseLease, outside, history, Owning, Leased
    <3> QED
      BY <3>1
  <2> QED
    BY <2>1, <2>2
<1>2. ASSUME \/ \E e \in Dispatchers : Context(e)
             \/ \E b \in Attempts : Cancel(b)
             \/ Environment
             \/ UNCHANGED vars
      PROVE  judged'[a] = judged[a]
  BY <1>2, OthersLeave
<1>3. ASSUME \/ \E e \in Dispatchers : Context(e) \/ Crash(e)
             \/ \E b \in Attempts : Cancel(b) \/ ChildWrites(b) \/ ChildTampers(b)
             \/ \E v \in Workspaces : Edit(v) \/ CleanWorkspace(v) \/ RemoveStaleLease(v)
             \/ RemoveStaleJournalLock \/ UNCHANGED vars
      PROVE  UNCHANGED child
  BY <1>3 DEF Context, WatchCancel, Deadline, ContextEnds, Cancel,
     ChildWrites, ChildTampers, Edit, EditCandidate, EditCovered, CleanWorkspace, RemoveStaleLease,
     RemoveStaleJournalLock, Crash, outside, vars
<1>4. ASSUME NEW b \in Attempts, OrphanExits(b), pc[d] = "verifying"
      PROVE  child'[a] = child[a]
  <2>1. lease[Workspace(d)] = d /\ request[a] = req[d] /\ d \notin Crashed
    BY <1>4 DEF Ownership, LeaseHeld, OwnRequest, Leased, Crashed
  <2>2. a # b
    BY <1>4, <2>1 DEF OrphanExits, WorkspaceOfAttempt, Workspace
  <2> QED
    BY <1>4, <2>2 DEF OrphanExits
<1> QED
  BY <1>1, <1>2, <1>3, <1>4 DEF Next, Environment

(* A dispatcher's own step from the verifier's start to the verdict.       *)
LEMMA StepJudged ==
  ASSUME TypeOK, AllJudged, NEW d \in Dispatchers, Dispatcher(d)
  PROVE  JudgedHere(d)'
<1> USE DEF TypeOK, WorldTypeOK, ControlTypeOK, Finalizing, Verified, Blocked, Failed
<1>1. JudgedHere(d)
  BY DEF AllJudged
<1>2. ASSUME pc'[d] \notin {"verifying", "vexited", "integrity2", "lastCheck"} \cup Finalizing
      PROVE  JudgedHere(d)'
  BY <1>2 DEF JudgedHere
<1>3. CASE Admission(d)
  <2>1. pc'[d] \in Admitting \cup {"lease", "idle"}
    BY <1>3 DEF Admission, Invoke, Replay, RefuseDeadline, ReserveBudget,
       PersistReservation, PersistRequest, BindKey, RecordDispatched,
       RecordRunning, Created, Abort, Goto, Return, Admitting
  <2> QED
    BY <1>2, <2>1 DEF Admitting
<1>4. CASE Execution(d)
  <2>1. CASE StartVerifier(d)
    <3>1. Attempt(d) \in Attempts /\ pc[d] = "verify"
      BY <2>1, RequestTyped DEF StartVerifier
    <3>2. CASE Goto(d, "verifying")
      <4>1. /\ pc'[d] = "verifying" /\ UNCHANGED <<req, cand>>
            /\ cand[Workspace(d)] # None
            /\ child' = [child EXCEPT ![Attempt(d)] = "verifier"]
            /\ judged' = [judged EXCEPT ![Attempt(d)] = cand[Workspace(d)]]
        BY <2>1, <3>1, <3>2, RequestTyped, NoneIsNew DEF StartVerifier, Goto,
           ExitWith, Finalize, workspace
      <4>2. child'[Attempt(d)] = "verifier" /\ judged'[Attempt(d)] = cand[Workspace(d)]
        BY <3>1, <4>1
      <4> QED
        BY <4>1, <4>2 DEF JudgedHere, Attempt, Workspace
    <3>3. CASE ~Goto(d, "verifying")
      BY <2>1, <3>1, <3>3 DEF StartVerifier, ExitWith, Finalize, JudgedHere
    <3> QED
      BY <3>2, <3>3
  <2>2. CASE VerifierReturns(d)
    <3>1. Attempt(d) \in Attempts /\ Workspace(d) \in Workspaces /\ pc[d] = "verifying"
      BY <2>2, RequestTyped DEF VerifierReturns
    <3>2. /\ writes'[d] = judged[Attempt(d)] \/ Attempt(d) \in rewritten
          /\ judged[Attempt(d)] # None
      BY <1>1, <2>2, <3>1 DEF VerifierReturns, JudgedHere
    <3>3. pc'[d] = "vexited" /\ UNCHANGED <<req, judged, rewritten>>
      BY <2>2 DEF VerifierReturns, history
    <3> QED
      BY <3>2, <3>3 DEF JudgedHere, Attempt
  <2>3. CASE RecheckCanceled(d) \/ CheckAfterVerifier(d) \/ LastCheck(d)
    <3>1. UNCHANGED <<req, writes, judged, rewritten>>
      BY <2>3 DEF RecheckCanceled, CheckAfterVerifier, LastCheck, Goto, Finalize,
         outside, history
    <3>2. ASSUME \/ pc'[d] \in {"vexited", "integrity2"} /\ code'[d] = "ok"
                 \/ pc'[d] = "lastCheck"
                 \/ pc'[d] \in Finalizing /\ verdict'[d] = Verified
          PROVE  /\ judged[Attempt(d)] # None
                 /\ writes[d] = judged[Attempt(d)] \/ Attempt(d) \in rewritten
      BY <1>1, <2>3, <3>2 DEF RecheckCanceled, CheckAfterVerifier, LastCheck, Goto,
         Finalize, JudgedHere
    <3>3. pc'[d] # "verifying"
      BY <2>3 DEF RecheckCanceled, CheckAfterVerifier, LastCheck, Goto, Finalize
    <3> QED
      BY <3>1, <3>2, <3>3 DEF JudgedHere, Attempt
  <2>4. CASE \/ ClaimLease(d) \/ Preflight(d) \/ WriteSnapshot(d) \/ SpawnDelegate(d)
             \/ DelegateReturns(d) \/ CheckCanceled(d) \/ CheckBeforeVerifier(d)
    <3>1. /\ pc'[d] \notin {"verifying", "vexited", "integrity2", "lastCheck", "record", "publish"}
          /\ pc'[d] = "finalize" => verdict'[d] # Verified
      BY <2>4 DEF ClaimLease, Preflight, WriteSnapshot, SpawnDelegate,
         DelegateReturns, CheckCanceled, CheckBeforeVerifier, Goto, Finalize, ExitWith
    <3> QED
      BY <3>1 DEF JudgedHere
  <2> QED
    BY <1>4, <2>1, <2>2, <2>3, <2>4 DEF Execution
<1>5. CASE Finalization(d)
  <2>1. CASE ReleaseLease(d)
    BY <1>2, <2>1 DEF ReleaseLease, Return
  <2>2. CASE ~ReleaseLease(d)
    <3>1. /\ pc[d] \in Finalizing /\ pc'[d] \in {"record", "publish", "release"}
          /\ UNCHANGED <<req, verdict, writes, judged, rewritten>>
      BY <1>5, <2>2 DEF Finalization, LockForResult, RecordResult, PublishResult,
         Goto, outside, history
    <3> QED
      BY <1>1, <3>1 DEF JudgedHere, Attempt
  <2> QED
    BY <2>1, <2>2
<1> QED
  BY <1>3, <1>4, <1>5 DEF Dispatcher

LEMMA NextJudged ==
  ASSUME TypeOK, Ownership, AllJudged, [Next]_vars
  PROVE  AllJudged'
<1> USE DEF TypeOK, ControlTypeOK
<1>1. ASSUME NEW d \in Dispatchers, ~Dispatcher(d) PROVE JudgedHere(d)'
  <2>1. CASE pc'[d] \notin {"verifying", "vexited", "integrity2", "lastCheck"} \cup Finalizing
    BY <2>1 DEF JudgedHere, Finalizing
  <2>2. CASE pc'[d] \in {"verifying", "vexited", "integrity2", "lastCheck"} \cup Finalizing
    <3>1. /\ pc'[d] = pc[d] /\ req'[d] = req[d] /\ code'[d] = code[d]
          /\ verdict'[d] = verdict[d] /\ writes'[d] = writes[d]
      <4>1. ASSUME NEW e \in Dispatchers, Dispatcher(e)
            PROVE  /\ pc'[d] = pc[d] /\ req'[d] = req[d] /\ code'[d] = code[d]
                   /\ verdict'[d] = verdict[d] /\ writes'[d] = writes[d]
        <5>1. e # d
          BY <1>1, <4>1
        <5> QED
          BY <4>1, <5>1 DEF Dispatcher, Admission, Invoke, Replay, RefuseDeadline,
             ReserveBudget, PersistReservation, PersistRequest, BindKey,
             RecordDispatched, RecordRunning, Execution, ClaimLease, Preflight,
             WriteSnapshot, SpawnDelegate, DelegateReturns, CheckCanceled,
             CheckBeforeVerifier, StartVerifier, VerifierReturns, RecheckCanceled,
             CheckAfterVerifier, LastCheck, Finalization, LockForResult,
             RecordResult, PublishResult, ReleaseLease, Created, Abort, Goto,
             Return, Finalize, ExitWith
      <4>2. ASSUME \/ \E e \in Dispatchers : Context(e)
                   \/ \E b \in Attempts : Cancel(b)
                   \/ Environment
                   \/ UNCHANGED vars
            PROVE  /\ pc'[d] = pc[d] /\ req'[d] = req[d] /\ code'[d] = code[d]
                   /\ verdict'[d] = verdict[d] /\ writes'[d] = writes[d]
        BY <2>2, <4>2, OthersLeave DEF Finalizing
      <4> QED
        BY <4>1, <4>2 DEF Next
    <3>2. pc[d] \in Owning /\ pc[d] # "idle"
      BY <2>2, <3>1 DEF Owning, Leased, Finalizing
    <3>3. Attempt(d) \in Attempts
      BY <3>2, RequestTyped
    <3>4. /\ judged'[Attempt(d)] = judged[Attempt(d)]
          /\ pc[d] = "verifying" => child'[Attempt(d)] = child[Attempt(d)]
      BY <1>1, <3>2, <3>3, VerifierStays
    <3>5. /\ pc[d] = "verifying" =>
               cand'[Workspace(d)] = cand[Workspace(d)] \/ Attempt(d) \in rewritten'
          /\ Attempt(d) \in rewritten => Attempt(d) \in rewritten'
      BY CandidateStays, RewritingRemembered
    <3>6. JudgedHere(d)
      BY DEF AllJudged
    <3> QED
      BY <3>1, <3>4, <3>5, <3>6 DEF JudgedHere, Attempt, Workspace
  <2> QED
    BY <2>1, <2>2
<1>2. ASSUME NEW d \in Dispatchers, Dispatcher(d) PROVE JudgedHere(d)'
  BY <1>2, StepJudged
<1> QED
  BY <1>1, <1>2 DEF AllJudged

(* The verdict once recorded: its attempt is never judged again.           *)
LEMMA NextVerdict ==
  ASSUME TypeOK, Ownership, Stages, AllJudged, VerifiedRan, VerifiedMeansJudged,
         [Next]_vars
  PROVE  VerifiedMeansJudged'
<1> USE DEF TypeOK, ControlTypeOK, JournalTypeOK, WorldTypeOK
<1>1. ASSUME NEW a \in Attempts, result[a] # None PROVE judged'[a] = judged[a]
  <2>1. ASSUME NEW d \in Dispatchers, StartVerifier(d) PROVE judged'[a] = judged[a]
    <3>1. pc[d] = "verify" /\ Attempt(d) # a
      BY <1>1, <2>1 DEF StartVerifier, Stages, Staged, Leased
    <3> QED
      BY <2>1, <3>1 DEF StartVerifier
  <2>2. ASSUME NEW d \in Dispatchers, Dispatcher(d), ~StartVerifier(d)
        PROVE  UNCHANGED judged
    BY <2>2 DEF Dispatcher, Admission, Invoke, Replay, RefuseDeadline,
       ReserveBudget, PersistReservation, PersistRequest, BindKey, RecordDispatched,
       RecordRunning, Execution, ClaimLease, Preflight, WriteSnapshot,
       SpawnDelegate, DelegateReturns, CheckCanceled, CheckBeforeVerifier,
       VerifierReturns, RecheckCanceled, CheckAfterVerifier, LastCheck,
       Finalization, LockForResult, RecordResult, PublishResult, ReleaseLease,
       outside, history
  <2> QED
    BY <2>1, <2>2, OthersLeave DEF Next
<1>2. VerifiedRan'
  BY NextRan
<1>3. ASSUME NEW a \in Attempts, result'[a] # None, result'[a].state = Verified
      PROVE  /\ a \in executed' /\ judged'[a] # None
             /\ result'[a].writes = judged'[a] \/ a \in rewritten'
  <2>1. a \in executed'
    BY <1>2, <1>3 DEF VerifiedRan
  <2>2. CASE result'[a] = result[a]
    BY <1>1, <1>3, <2>1, <2>2, RewritingRemembered DEF VerifiedMeansJudged
  <2>3. CASE result'[a] # result[a]
    <3>1. PICK d \in Dispatchers :
            /\ a = Attempt(d) /\ pc[d] = "record" /\ UNCHANGED judged
            /\ result'[a] = [state |-> verdict[d], writes |-> writes[d]]
      BY <2>3, ResultWritten
    <3>2. judged[a] # None /\ (writes[d] = judged[a] \/ a \in rewritten)
      BY <1>3, <3>1 DEF AllJudged, JudgedHere, Finalizing
    <3> QED
      BY <2>1, <3>1, <3>2, RewritingRemembered
  <2> QED
    BY <2>2, <2>3
<1> QED
  BY <1>3 DEF VerifiedMeansJudged

(* The records of the attempts, in every run of the dispatchers.           *)
LEMMA InitStages == Init => Stages /\ VerifiedRan /\ TrustHeld /\ EventChain
<1> SUFFICES ASSUME Init PROVE Stages /\ VerifiedRan /\ TrustHeld /\ EventChain
  OBVIOUS
<1>1. Stages
  BY DEF Init, JournalInit, Stages, Staged, Told, Recorded, StateAfter, Leased,
     Final, Reviewed
<1>2. VerifiedRan /\ TrustHeld
  BY DEF Init, JournalInit, VerifiedRan, TrustHeld, Ran, Trusting, Finalizing
<1>3. EventChain
  BY DEF Init, JournalInit, EventChain, Chained
<1> QED
  BY <1>1, <1>2, <1>3

(* A verified verdict is about bytes its verifier ran on, whatever orphans *)
(* of killed dispatchers, other attempts, delegates of its own, operators  *)
(* and editors do, and whenever: only the verifier itself or an editor     *)
(* beneath it makes the recorded bytes differ from the judged ones.        *)
THEOREM VerdictJudged == Spec => []VerifiedMeansJudged
<1>1. Init => AllJudged /\ VerifiedMeansJudged
  BY DEF Init, JournalInit, AllJudged, JudgedHere, VerifiedMeansJudged, Finalizing
<1>2. ASSUME TypeOK, Ownership, Stages, AllJudged, VerifiedRan, VerifiedMeansJudged,
             [Next]_vars
      PROVE  AllJudged' /\ VerifiedMeansJudged'
  BY <1>2, NextJudged, NextVerdict
<1> QED
  BY <1>1, <1>2, InitStages, NextStages, NextRan, TypeCorrect, OwnershipHolds,
     AccountedHolds, PTL DEF Spec

-----------------------------------------------------------------------------
(* Dispatchers and reviewers together. A step of the system is a step of   *)
(* the dispatchers' world or of one reviewer.                              *)

LEMMA SystemSteps ==
  ASSUME [SystemNext]_allVars
  PROVE  \/ [Next]_vars /\ UNCHANGED reviewVars
         \/ \E v \in Reviewers : Reviewer(v)
BY DEF SystemNext, allVars

(* A reviewer touches the lock, and appends at most one event.             *)
LEMMA ReviewerLeaves ==
  ASSUME NEW v \in Reviewers, Reviewer(v)
  PROVE  /\ UNCHANGED <<records, control, outside>>
         /\ \/ UNCHANGED events
            \/ AppendReview(v) /\ AppendEvent(review[v].attempt, review[v].from, review[v].to)
         /\ jlock' = jlock \/ jlock \in {None, v}
BY DEF Reviewer, BeginReview, RecheckEvidence, AppendReview, CrashReview,
   RemoveStaleReviewLock, EndReview, Lock, Unlock, journal, records

LEMMA ReviewersAreNoDispatchers ==
  /\ \A v \in Reviewers : v \in Processes /\ v \notin Dispatchers /\ v # None
  /\ None \notin Dispatchers
BY ReviewConstants, NoneIsNew, DispatchConstants

(* Where a reviewer stands with the attempt it reviews.                    *)
ReviewUnderWay ==
  \A v \in Reviewers : rpc[v] \in {"recheck", "append"} =>
    LET a == review[v].attempt IN
    /\ review[v] \in Reviews
    /\ result[a] # None
    /\ Recorded(a) = review[v].from
    /\ review[v].from \in {Verified, Blocked}
    /\ review[v].to = "accepted" => review[v].from = Verified
    /\ rpc[v] = "append" /\ review[v].to = "accepted" => rechecked[a] # None

(* What the evidence check of an acceptance compared.                      *)
EvidenceKept ==
  \A a \in Attempts : rechecked[a] # None => result[a] # None /\ rechecked[a] = result[a].writes

AcceptedRechecked == \A a \in Attempts : Recorded(a) = "accepted" => rechecked[a] # None

ReviewKept == ReviewUnderWay /\ EvidenceKept /\ AcceptedRechecked

(* A state without a result is not reviewed, and one with a result has     *)
(* events that say so.                                                     *)
LEMMA ObservedRecorded ==
  ASSUME Stages, NEW a \in Attempts, result[a] # None
  PROVE  Observed(a) = Recorded(a) /\ request[a] # None
BY DEF Stages, Told, Observed, Recorded, StateAfter, Final, Reviewed

(* Types.                                                                  *)
LEMMA SystemTyped ==
  ASSUME ReviewTypeOK, Stages, ReviewUnderWay, [SystemNext]_allVars
  PROVE  ReviewTypeOK'
<1> USE DEF ReviewTypeOK
<1>1. ASSUME [Next]_vars, UNCHANGED reviewVars PROVE ReviewTypeOK'
  BY <1>1, NextTyped DEF reviewVars
<1>2. ASSUME NEW v \in Reviewers, Reviewer(v) PROVE ReviewTypeOK'
  <2>1. TypeOK'
    <3>1. UNCHANGED <<records, control, outside>>
      BY <1>2, ReviewerLeaves
    <3>2. jlock' \in Processes \cup {None}
      BY <1>2, ReviewersAreNoDispatchers DEF Reviewer, BeginReview,
         RecheckEvidence, AppendReview, CrashReview, RemoveStaleReviewLock,
         EndReview, Lock, Unlock, journal, TypeOK, JournalTypeOK
    <3>3. events' \in [Attempts -> Seq(Events)]
      <4>1. CASE UNCHANGED events
        BY <4>1 DEF TypeOK, JournalTypeOK
      <4>2. CASE /\ AppendReview(v)
                 /\ AppendEvent(review[v].attempt, review[v].from, review[v].to)
        <5>1. review[v] \in Reviews
          BY <4>2 DEF AppendReview, ReviewUnderWay
        <5> QED
          BY <4>2, <5>1, AppendEventTyped DEF TypeOK, JournalTypeOK, Reviews, States
      <4> QED
        BY <1>2, <4>1, <4>2, ReviewerLeaves
    <3> QED
      BY <3>1, <3>2, <3>3 DEF records, control, outside, workspace, history, TypeOK,
         JournalTypeOK, ControlTypeOK, WorldTypeOK
  <2>2. ASSUME NEW a \in Attempts, NEW to \in Reviewed, NEW kind,
               BeginReview(v, a, to, kind)
        PROVE  ReviewTypeOK'
    <3>1. result[a] # None /\ Observed(a) \in States
      BY <2>2 DEF BeginReview, Reviewable, Verified, Blocked, States, Final
    <3>2. [attempt |-> a, from |-> Observed(a), to |-> to] \in Reviews
      BY <3>1 DEF Reviews
    <3> QED
      BY <2>1, <2>2, <3>2 DEF BeginReview
  <2>3. CASE RecheckEvidence(v)
    <3>1. review[v] \in Reviews /\ result[review[v].attempt] # None
      BY <2>3 DEF RecheckEvidence, ReviewUnderWay
    <3>2. WorkspaceOfAttempt(review[v].attempt) \in Workspaces
      BY <3>1, ObservedRecorded, RequestFields DEF WorkspaceOfAttempt, Reviews, TypeOK,
         JournalTypeOK
    <3>3. cand[WorkspaceOfAttempt(review[v].attempt)] \in Contents
      BY <3>2 DEF TypeOK, WorldTypeOK
    <3> QED
      BY <2>1, <2>3, <3>1, <3>3 DEF RecheckEvidence, EndReview
  <2>4. CASE AppendReview(v) \/ CrashReview(v) \/ RemoveStaleReviewLock(v)
    BY <2>1, <2>4 DEF AppendReview, CrashReview, RemoveStaleReviewLock, EndReview,
       reviewVars
  <2> QED
    BY <1>2, <2>2, <2>3, <2>4 DEF Reviewer
<1> QED
  BY <1>1, <1>2, SystemSteps

(* Exclusion. A dispatcher's step does not take the lock from a reviewer.  *)
LEMMA JournalUndisturbed ==
  ASSUME TypeOK, JournalExclusive, [Next]_vars, jlock \notin Dispatchers, jlock # None
  PROVE  UNCHANGED journal
<1> USE DEF TypeOK, ControlTypeOK
<1>1. \A d \in Dispatchers : pc[d] \notin InJournal
  BY DEF JournalExclusive
<1>2. ASSUME NEW d \in Dispatchers, Dispatcher(d) PROVE UNCHANGED journal
  BY <1>1, <1>2 DEF Dispatcher, Admission, Invoke, Replay, RefuseDeadline,
     ReserveBudget, PersistReservation, PersistRequest, BindKey, RecordDispatched,
     RecordRunning, Execution, ClaimLease, Preflight, WriteSnapshot,
     SpawnDelegate, DelegateReturns, CheckCanceled, CheckBeforeVerifier,
     StartVerifier, VerifierReturns, RecheckCanceled, CheckAfterVerifier,
     LastCheck, Finalization, LockForResult, RecordResult, PublishResult,
     ReleaseLease, Lock, InJournal, Admitting, journal
<1>3. ASSUME \/ \E d \in Dispatchers : Context(d)
             \/ \E a \in Attempts : Cancel(a)
             \/ Environment
             \/ UNCHANGED vars
      PROVE  UNCHANGED journal
  BY <1>3 DEF Context, WatchCancel, Deadline, ContextEnds, Cancel, Environment,
     ChildWrites, ChildTampers, OrphanExits, Edit, EditCandidate, EditCovered, CleanWorkspace,
     RemoveStaleLease, RemoveStaleJournalLock, Crash, Crashed, journal, vars
<1> QED
  BY <1>2, <1>3 DEF Next

LEMMA SystemExcludes ==
  ASSUME ReviewTypeOK, SystemExclusive, [SystemNext]_allVars
  PROVE  SystemExclusive'
<1> USE DEF ReviewTypeOK, SystemExclusive
<1>1. ASSUME [Next]_vars, UNCHANGED reviewVars PROVE SystemExclusive'
  <2>1. JournalExclusive'
    BY <1>1, NextExclusive
  <2>2. ASSUME NEW v \in Reviewers, rpc[v] \in {"recheck", "append"} PROVE jlock' = v
    BY <1>1, <2>2, JournalUndisturbed, ReviewersAreNoDispatchers DEF journal
  <2> QED
    BY <1>1, <2>1, <2>2 DEF reviewVars
<1>2. ASSUME NEW v \in Reviewers, Reviewer(v) PROVE SystemExclusive'
  <2>1. UNCHANGED pc /\ (jlock' = jlock \/ jlock \in {None, v})
    BY <1>2, ReviewerLeaves DEF control
  <2>2. JournalExclusive'
    BY <2>1, ReviewersAreNoDispatchers DEF JournalExclusive
  <2>3. ASSUME NEW u \in Reviewers, u # v, rpc'[u] \in {"recheck", "append"}
        PROVE  jlock' = u
    <3>1. rpc'[u] = rpc[u]
      BY <1>2, <2>3 DEF Reviewer, BeginReview, RecheckEvidence, AppendReview,
         CrashReview, RemoveStaleReviewLock, EndReview, reviewVars
    <3> QED
      BY <2>1, <2>3, <3>1, ReviewersAreNoDispatchers
  <2>4. rpc'[v] \in {"recheck", "append"} => jlock' = v
    BY <1>2 DEF Reviewer, BeginReview, RecheckEvidence, AppendReview, CrashReview,
       RemoveStaleReviewLock, EndReview, Lock, reviewVars
  <2> QED
    BY <2>2, <2>3, <2>4
<1> QED
  BY <1>1, <1>2, SystemSteps

(* The event of a review, under the lock, from the state it observed.      *)
LEMMA ReviewAppends ==
  ASSUME ReviewTypeOK, SystemExclusive, Stages, ReviewKept, EventChain,
         NEW v \in Reviewers, AppendReview(v),
         AppendEvent(review[v].attempt, review[v].from, review[v].to)
  PROVE  \E b \in Attempts, to \in Reviewed :
           /\ b = review[v].attempt /\ to = review[v].to
           /\ result[b] # None /\ request[b] # None
           /\ Recorded(b) = review[v].from /\ Recorded(b) \in {Verified, Blocked}
           /\ to = "accepted" => Recorded(b) = Verified /\ rechecked[b] # None
           /\ TransitionAllowed(Recorded(b), to)
           /\ StateAfter(events'[b]) = to
           /\ \A a \in Attempts : a # b => events'[a] = events[a]
           /\ EventChain'
           /\ jlock = v
<1> USE DEF ReviewTypeOK
<1> DEFINE r == review[v]
<1>1. rpc[v] = "append"
  BY DEF AppendReview
<1>2. /\ r \in Reviews /\ result[r.attempt] # None /\ Recorded(r.attempt) = r.from
      /\ r.from \in {Verified, Blocked}
      /\ r.to = "accepted" => r.from = Verified /\ rechecked[r.attempt] # None
  BY <1>1 DEF ReviewKept, ReviewUnderWay
<1>3. r \in Reviews /\ r.attempt \in Attempts /\ r.to \in Reviewed /\ r.from \in States
  BY <1>2 DEF Reviews
<1>4. /\ TransitionAllowed(r.from, r.to) /\ StateAfter(events'[r.attempt]) = r.to
      /\ \A a \in Attempts : a # r.attempt => events'[a] = events[a]
  BY <1>3, AppendMoves DEF States
<1>5. EventChain'
  BY <1>2, <1>3, MoveChains DEF Moved, States
<1>6. jlock = v
  BY <1>1 DEF SystemExclusive
<1>7. request[r.attempt] # None
  BY <1>2, <1>3, ObservedRecorded
<1> QED
  BY <1>2, <1>3, <1>4, <1>5, <1>6, <1>7

Records == Ownership /\ Accounted /\ Stages /\ VerifiedRan /\ TrustHeld /\ EventChain

LEMMA ReviewerKeepsRecords ==
  ASSUME ReviewTypeOK, SystemExclusive, Records, ReviewKept,
         NEW v \in Reviewers, Reviewer(v)
  PROVE  Records'
<1> USE DEF ReviewTypeOK, Records
<1>1. UNCHANGED <<records, control, outside>>
  BY ReviewerLeaves
<1>2. Ownership' /\ VerifiedRan' /\ TrustHeld'
  <2>1. Ownership'
    BY <1>1 DEF records, control, outside, history, Ownership, RequestsMatch,
       OwnRequest, OneOwner, FirstExecution, LeaseHeld, ChildrenOwned, Attempt, Workspace
  <2>2. VerifiedRan'
    BY <1>1 DEF records, control, outside, history, VerifiedRan, Ran, Attempt
  <2>3. TrustHeld'
    BY <1>1 DEF control, outside, workspace, history, TrustHeld, Trusting, Workspace
  <2> QED
    BY <2>1, <2>2, <2>3
<1>3. CASE UNCHANGED events
  <2>1. Accounted'
    BY <1>1, <1>3 DEF records, control, Accounted, AccountedFor, Attempt, Begun
  <2>2. Stages'
    BY <1>1, <1>3 DEF records, control, Stages, Staged, Told, Attempt, Recorded
  <2>3. EventChain'
    BY <1>3 DEF EventChain
  <2> QED
    BY <1>2, <2>1, <2>2, <2>3
<1>4. CASE AppendReview(v) /\ AppendEvent(review[v].attempt, review[v].from, review[v].to)
  <2>1. PICK b \in Attempts, to \in Reviewed :
           /\ b = review[v].attempt
           /\ result[b] # None /\ request[b] # None
           /\ Recorded(b) \in {Verified, Blocked}
           /\ to = "accepted" => Recorded(b) = Verified
           /\ StateAfter(events'[b]) = to
           /\ \A a \in Attempts : a # b => events'[a] = events[a]
           /\ EventChain'
           /\ jlock = v
    BY <1>4, ReviewAppends
  <2>2. \A d \in Dispatchers : pc[d] \notin InJournal
    BY <2>1, ReviewersAreNoDispatchers DEF SystemExclusive, JournalExclusive
  <2>3. ASSUME NEW d \in Dispatchers,
               pc[d] \in {"lease", "finalize"} \cup Leased
        PROVE  Attempt(d) # b /\ Attempt(d) \in Attempts
    <3>1. Recorded(Attempt(d)) = "running"
      BY <2>3 DEF Stages, Staged
    <3> QED
      BY <2>1, <2>3, <3>1, RequestTyped DEF Verified, Blocked, TypeOK, Leased
  <2>4. ASSUME NEW d \in Dispatchers PROVE Staged(d)'
    <3>1. CASE pc[d] \in {"lease", "finalize"} \cup Leased
      <4>1. events'[Attempt(d)] = events[Attempt(d)]
        BY <2>1, <2>3, <3>1
      <4> QED
        BY <1>1, <3>1, <4>1 DEF records, control, Stages, Staged, Attempt, Recorded, Leased
    <3>2. CASE pc[d] \notin {"lease", "finalize"} \cup Leased
      BY <1>1, <2>2, <3>2 DEF control, Staged, InJournal, Admitting
    <3> QED
      BY <3>1, <3>2
  <2>5. ASSUME NEW a \in Attempts PROVE Told(a)'
    <3>1. CASE a # b
      BY <1>1, <2>1, <3>1 DEF records, Stages, Told, Recorded
    <3>2. CASE a = b
      <4>1. Told(b)
        BY DEF Stages
      <4> QED
        BY <1>1, <2>1, <3>2, <4>1 DEF records, Told, Recorded, Final, Reviewed, Verified
    <3> QED
      BY <3>1, <3>2
  <2>6. \A a \in Attempts : \/ events'[a] = events[a]
                            \/ \E e \in Events : events'[a] = Append(events[a], e)
    <3>1. review[v] \in Reviews
      BY <1>4 DEF AppendReview, ReviewKept, ReviewUnderWay
    <3> QED
      BY <1>4, <3>1, EventsGrow DEF Reviews, States
  <2>7. ASSUME NEW d \in Dispatchers PROVE AccountedFor(d)'
    <3>1. pc[d] \in Owning \ Admitting => Begun(Attempt(d))'
      <4>1. ASSUME NEW a \in Attempts, Begun(a) PROVE Begun(a)'
        BY <2>6, <4>1, BegunStays
      <4>2. ASSUME pc[d] \in Owning \ Admitting
            PROVE  Attempt(d) \in Attempts /\ Begun(Attempt(d)) /\ Attempt(d)' = Attempt(d)
        BY <1>1, <4>2, RequestTyped DEF control, Accounted, AccountedFor, Attempt,
           TypeOK, Owning, Leased, Finalizing
      <4>3. \A a \in Attempts : Begun(a) => Len(events'[a]) >= 2 /\ events'[a][2].to = "running"
        BY <4>1 DEF Begun
      <4> QED
        BY <4>2, <4>3 DEF Begun
    <3>2. AccountedFor(d)
      BY DEF Accounted
    <3> QED
      BY <1>1, <2>2, <3>1, <3>2 DEF records, control, AccountedFor, Attempt, InJournal,
         Admitting
  <2>8. ASSUME NEW a \in Attempts, request'[a] = None PROVE events'[a] = <<>>
    BY <1>1, <2>1, <2>8 DEF records, Accounted
  <2> QED
    BY <1>2, <2>1, <2>4, <2>5, <2>7, <2>8 DEF Stages, Accounted
<1> QED
  BY <1>3, <1>4, ReviewerLeaves

LEMMA SystemKeepsRecords ==
  ASSUME ReviewTypeOK, SystemExclusive, Records, ReviewKept, [SystemNext]_allVars
  PROVE  Records'
<1>1. ASSUME [Next]_vars PROVE Records'
  BY <1>1, NextOwns, NextAccounts, NextStages, NextRan, NextTrust, NextChains
     DEF ReviewTypeOK, Records
<1> QED
  BY <1>1, SystemSteps, ReviewerKeepsRecords

(* The dispatchers leave what a reviewer decided on as it is.              *)
LEMMA NextKeepsReviews ==
  ASSUME ReviewTypeOK, SystemExclusive, Records, ReviewKept, [Next]_vars,
         UNCHANGED reviewVars
  PROVE  ReviewKept'
<1> USE DEF ReviewTypeOK, ReviewKept, Records
<1>1. ReviewUnderWay'
  <2>1. ASSUME NEW v \in Reviewers, rpc[v] \in {"recheck", "append"}
        PROVE  UNCHANGED <<result, events>>
    <3>1. jlock \notin Dispatchers /\ jlock # None
      BY <2>1, ReviewersAreNoDispatchers DEF SystemExclusive
    <3> QED
      BY <3>1, JournalUndisturbed DEF SystemExclusive, journal
  <2> QED
    BY <2>1 DEF ReviewUnderWay, Recorded, reviewVars
<1>2. EvidenceKept'
  <2>1. Kept(result, result')
    BY NextGrows DEF Grows, Kept, vars, journal
  <2> QED
    BY <2>1 DEF EvidenceKept, Kept, TypeOK, JournalTypeOK, reviewVars
<1>3. AcceptedRechecked'
  <2>1. ASSUME NEW a \in Attempts, Recorded(a) # "accepted"
        PROVE  StateAfter(events'[a]) # "accepted"
    <3>1. CASE UNCHANGED events
      BY <2>1, <3>1 DEF Recorded
    <3>2. ASSUME NEW b \in Attempts, NEW from \in States, NEW to \in States,
                 Moved(b, from, to), to # "accepted"
          PROVE  StateAfter(events'[a]) # "accepted"
      BY <2>1, <3>2, AppendMoves DEF Moved, Recorded
    <3>3. ASSUME NEW d \in Dispatchers, PublishResult(d)
          PROVE  verdict[d] \in States /\ verdict[d] # "accepted"
      BY <3>3 DEF PublishResult, TypeOK, ControlTypeOK, Finalizing, States, Final
    <3> QED
      BY <3>1, <3>2, <3>3, NextMoves DEF States
  <2> QED
    BY <2>1 DEF AcceptedRechecked, Recorded, reviewVars
<1> QED
  BY <1>1, <1>2, <1>3

LEMMA ReviewerKeepsReviews ==
  ASSUME ReviewTypeOK, SystemExclusive, Records, ReviewKept, NEW v \in Reviewers,
         Reviewer(v)
  PROVE  ReviewKept'
<1> USE DEF ReviewTypeOK, Records
<1>1. UNCHANGED result /\ UNCHANGED <<request, cand>>
  BY ReviewerLeaves DEF records, outside, workspace
<1>2. ASSUME NEW a \in Attempts, result[a] # None
      PROVE  /\ Observed(a) = Recorded(a)
             /\ WorkspaceOfAttempt(a) \in Workspaces
             /\ cand[WorkspaceOfAttempt(a)] \in Contents
             /\ cand[WorkspaceOfAttempt(a)] # None
  <2>1. Observed(a) = Recorded(a) /\ request[a] \in Requests
    BY <1>2, ObservedRecorded DEF TypeOK, JournalTypeOK
  <2> QED
    BY <2>1, RequestFields, NoneIsNew DEF WorkspaceOfAttempt, TypeOK, WorldTypeOK
<1>3. ASSUME NEW u \in Reviewers, u # v, rpc'[u] \in {"recheck", "append"}
      PROVE  /\ rpc[u] \in {"recheck", "append"} /\ rpc'[u] = rpc[u]
             /\ review'[u] = review[u] /\ UNCHANGED events
  <2>1. rpc'[u] = rpc[u] /\ review'[u] = review[u]
    BY <1>3 DEF Reviewer, BeginReview, RecheckEvidence, AppendReview, CrashReview,
       RemoveStaleReviewLock, EndReview, reviewVars
  <2>2. UNCHANGED events
    BY <1>3, <2>1 DEF SystemExclusive, Reviewer, BeginReview, RecheckEvidence,
       AppendReview, CrashReview, RemoveStaleReviewLock, journal
  <2> QED
    BY <1>3, <2>1, <2>2
<1>4. ASSUME NEW a \in Attempts, rechecked'[a] # rechecked[a]
      PROVE  result[a] # None /\ rechecked'[a] = result[a].writes /\ rechecked'[a] # None
  <2>1. RecheckEvidence(v) /\ a = review[v].attempt /\ EvidenceMatches(a)
        /\ rechecked'[a] = cand[WorkspaceOfAttempt(a)]
    BY <1>4 DEF Reviewer, BeginReview, RecheckEvidence, AppendReview, CrashReview,
       RemoveStaleReviewLock, reviewVars
  <2>2. result[a] # None
    BY <2>1 DEF RecheckEvidence, ReviewKept, ReviewUnderWay
  <2> QED
    BY <1>2, <2>1, <2>2 DEF EvidenceMatches
<1>5. EvidenceKept'
  BY <1>1, <1>4 DEF ReviewKept, EvidenceKept
<1>6. AcceptedRechecked'
  <2>1. ASSUME NEW a \in Attempts, StateAfter(events'[a]) = "accepted"
        PROVE  rechecked[a] # None
    <3>1. CASE UNCHANGED events
      BY <2>1, <3>1 DEF ReviewKept, AcceptedRechecked, Recorded
    <3>2. CASE /\ AppendReview(v)
               /\ AppendEvent(review[v].attempt, review[v].from, review[v].to)
      <4>1. PICK b \in Attempts, to \in Reviewed :
              /\ to = "accepted" => rechecked[b] # None
              /\ StateAfter(events'[b]) = to
              /\ \A c \in Attempts : c # b => events'[c] = events[c]
        BY <3>2, ReviewAppends
      <4> QED
        BY <2>1, <4>1 DEF ReviewKept, AcceptedRechecked, Recorded
    <3> QED
      BY <3>1, <3>2, ReviewerLeaves
  <2> QED
    BY <1>4, <2>1 DEF AcceptedRechecked, Recorded
<1>7. ReviewUnderWay'
  <2> DEFINE Sound(r) ==
        /\ r \in Reviews /\ result[r.attempt] # None
        /\ Recorded(r.attempt) = r.from /\ r.from \in {Verified, Blocked}
        /\ r.to = "accepted" => r.from = Verified
  <2>1. ASSUME NEW u \in Reviewers, rpc[u] \in {"recheck", "append"}
        PROVE  /\ Sound(review[u])
               /\ review[u] \in Reviews
               /\ rpc[u] = "append" /\ review[u].to = "accepted"
                    => rechecked[review[u].attempt] # None
    BY <2>1 DEF ReviewKept, ReviewUnderWay
  <2>2. ASSUME NEW u \in Reviewers, rpc'[u] \in {"recheck", "append"}
        PROVE  /\ Sound(review'[u]) /\ UNCHANGED events
               /\ rpc'[u] = "append" /\ review'[u].to = "accepted"
                    => rechecked'[review'[u].attempt] # None
    <3>1. CASE u # v
      <4>1. /\ rpc[u] \in {"recheck", "append"} /\ rpc'[u] = rpc[u]
            /\ review'[u] = review[u] /\ UNCHANGED events
        BY <1>3, <2>2, <3>1
      <4>2. review[u].attempt \in Attempts
        BY <2>1, <4>1 DEF Reviews
      <4> QED
        BY <1>4, <2>1, <4>1, <4>2
    <3>2. ASSUME NEW a \in Attempts, NEW to \in Reviewed, NEW kind,
                 BeginReview(v, a, to, kind)
          PROVE  /\ UNCHANGED events
                 /\ Sound(review'[v])
                 /\ ~(rpc'[v] = "append" /\ review'[v].to = "accepted")
      <4>1. /\ review'[v] = [attempt |-> a, from |-> Observed(a), to |-> to]
            /\ rpc'[v] = IF to = "accepted" THEN "recheck" ELSE "append"
            /\ UNCHANGED events /\ Reviewable(a, to, kind)
        BY <3>2 DEF BeginReview
      <4>2. /\ result[a] # None /\ Observed(a) = Recorded(a)
            /\ Observed(a) \in {Verified, Blocked}
            /\ to = "accepted" => Observed(a) = Verified
        BY <1>2, <4>1 DEF Reviewable
      <4>3. [attempt |-> a, from |-> Observed(a), to |-> to] \in Reviews
        BY <4>2 DEF Reviews, States, Final, Verified, Blocked
      <4> QED
        BY <4>1, <4>2, <4>3
    <3>3. CASE u = v /\ RecheckEvidence(v)
      <4>1. /\ rpc[v] = "recheck" /\ UNCHANGED <<events, review>>
            /\ rechecked' = [rechecked EXCEPT ![review[v].attempt] =
                               cand[WorkspaceOfAttempt(review[v].attempt)]]
        BY <2>2, <3>3 DEF RecheckEvidence, EndReview
      <4>2. Sound(review[v]) /\ review[v].attempt \in Attempts
        BY <2>1, <4>1 DEF Reviews
      <4>3. rechecked'[review[v].attempt] # None
        BY <1>2, <4>1, <4>2
      <4> QED
        BY <3>3, <4>1, <4>2, <4>3
    <3>4. CASE u = v /\ (AppendReview(v) \/ CrashReview(v) \/ RemoveStaleReviewLock(v))
      BY <2>2, <3>4 DEF AppendReview, CrashReview, RemoveStaleReviewLock, EndReview,
         reviewVars
    <3> QED
      BY <2>2, <3>1, <3>2, <3>3, <3>4 DEF Reviewer
  <2> QED
    BY <1>1, <2>2 DEF ReviewUnderWay, Recorded
<1> QED
  BY <1>5, <1>6, <1>7 DEF ReviewKept

(* The inductive invariant of the system.                                  *)
SystemInv == ReviewTypeOK /\ SystemExclusive /\ Records /\ ReviewKept

LEMMA SystemInvHolds == System => []SystemInv
<1>1. ASSUME ReviewInit PROVE SystemInv
  <2>1. TypeOK
    BY <1>1, InitTyped DEF ReviewInit
  <2>2. ReviewTypeOK
    BY <1>1, <2>1 DEF ReviewInit, ReviewTypeOK
  <2>3. SystemExclusive
    BY <1>1 DEF ReviewInit, Init, SystemExclusive, JournalExclusive, InJournal, Admitting
  <2>4. Ownership /\ Accounted
    BY <1>1 DEF ReviewInit, Init, JournalInit, Ownership, RequestsMatch, OwnRequest,
       OneOwner, FirstExecution, LeaseHeld, ChildrenOwned, Owning, Unspawned, Leased,
       Finalizing, Accounted, AccountedFor
  <2>5. Stages /\ VerifiedRan /\ TrustHeld /\ EventChain
    BY <1>1, InitStages DEF ReviewInit
  <2>6. ReviewKept
    BY <1>1 DEF ReviewInit, Init, JournalInit, ReviewKept, ReviewUnderWay,
       EvidenceKept, AcceptedRechecked, Recorded, StateAfter
  <2> QED
    BY <2>2, <2>3, <2>4, <2>5, <2>6 DEF SystemInv, Records
<1>2. ASSUME SystemInv, [SystemNext]_allVars PROVE SystemInv'
  <2>1. ReviewTypeOK'
    BY <1>2, SystemTyped DEF SystemInv, Records, ReviewKept
  <2>2. SystemExclusive' /\ Records'
    BY <1>2, SystemExcludes, SystemKeepsRecords DEF SystemInv
  <2>3. ReviewKept'
    BY <1>2, SystemSteps, NextKeepsReviews, ReviewerKeepsReviews DEF SystemInv
  <2> QED
    BY <2>1, <2>2, <2>3 DEF SystemInv
<1> QED
  BY <1>1, <1>2, PTL DEF System

(* A recorded review rests on a journal nobody else was in, on the state   *)
(* it is appended to, and, if it accepts, on a verified verdict whose      *)
(* write paths the workspace still had, whatever editors, operators and    *)
(* later attempts do to that workspace meanwhile.                          *)
THEOREM ReviewsAreSound == System => []ReviewSound
<1>1. ASSUME SystemInv PROVE ReviewSound
  <2> USE <1>1 DEF SystemInv, ReviewKept, Records, ReviewTypeOK
  <2>1. ReviewObservesCurrent
    <3>1. ASSUME NEW v \in Reviewers, rpc[v] = "append"
          PROVE  Observed(review[v].attempt) = review[v].from
      <4>1. /\ review[v].attempt \in Attempts /\ result[review[v].attempt] # None
            /\ Recorded(review[v].attempt) = review[v].from
        BY <3>1 DEF ReviewUnderWay, Reviews
      <4> QED
        BY <4>1, ObservedRecorded
    <3> QED
      BY <3>1 DEF ReviewObservesCurrent
  <2>2. AcceptedMatchesEvidence
    BY DEF AcceptedMatchesEvidence, AcceptedRechecked, EvidenceKept, Stages, Told
  <2> QED
    BY <2>1, <2>2 DEF ReviewSound
<1> QED
  BY <1>1, SystemInvHolds, PTL

(* Every event of an attempt continues the one before, although three      *)
(* transactions of two kinds of process write them and hard-code the state *)
(* they leave.                                                             *)
THEOREM EventsChained == System => []EventChain
<1>1. ASSUME SystemInv PROVE EventChain
  BY <1>1 DEF SystemInv, Records
<1> QED
  BY <1>1, SystemInvHolds, PTL

(* From its last integrity check to its publication a verified verdict is  *)
(* of a workspace where nothing that check covers was disturbed, unless by *)
(* an editor outside Fanisi after the check.                               *)
THEOREM VerdictStaysIntact == System => []VerdictIntact
<1>1. ASSUME SystemInv PROVE VerdictIntact
  BY <1>1 DEF SystemInv, Records, TrustHeld, Trusting, VerdictIntact
<1> QED
  BY <1>1, SystemInvHolds, PTL

(* A verifier is started by the owner of its attempt, on a workspace that  *)
(* still passes the integrity check, with the same exception.              *)
THEOREM VerifierStartsIntact == System => VerifierInputsIntact
<1>1. ASSUME SystemInv, [SystemNext]_allVars, NEW a \in Attempts,
             child[a] # "verifier", child'[a] = "verifier"
      PROVE  WorkspaceOfAttempt(a) \in intact \cup slipped
  <2> USE DEF SystemInv, ReviewTypeOK, Records, TypeOK, WorldTypeOK
  <2>1. [Next]_vars
    <3>1. ASSUME NEW v \in Reviewers, Reviewer(v) PROVE FALSE
      BY <1>1, <3>1, ReviewerLeaves DEF outside
    <3> QED
      BY <1>1, <3>1, SystemSteps
  <2>2. ASSUME NEW d \in Dispatchers, Dispatcher(d), ~StartVerifier(d) PROVE FALSE
    BY <1>1, <2>2 DEF Dispatcher, Admission, Invoke, Replay, RefuseDeadline,
       ReserveBudget, PersistReservation, PersistRequest, BindKey,
       RecordDispatched, RecordRunning, Execution, ClaimLease, Preflight,
       WriteSnapshot, SpawnDelegate, DelegateReturns, CheckCanceled,
       CheckBeforeVerifier, VerifierReturns, RecheckCanceled, CheckAfterVerifier,
       LastCheck, Finalization, LockForResult, RecordResult, PublishResult,
       ReleaseLease, outside
  <2>3. ASSUME \/ \E d \in Dispatchers : Context(d)
               \/ \E b \in Attempts : Cancel(b)
               \/ Environment
               \/ UNCHANGED vars
        PROVE  FALSE
    BY <1>1, <2>3 DEF Context, WatchCancel, Deadline, ContextEnds, Cancel,
       Environment, ChildWrites, ChildTampers, OrphanExits, Edit, EditCandidate, EditCovered,
       CleanWorkspace, RemoveStaleLease, RemoveStaleJournalLock, Crash, outside, vars
  <2>4. PICK d \in Dispatchers : StartVerifier(d)
    BY <2>1, <2>2, <2>3 DEF Next
  <2>5. a = Attempt(d) /\ pc[d] = "verify"
    BY <1>1, <2>4 DEF StartVerifier
  <2>6. Workspace(d) \in intact \cup slipped
    BY <1>1, <2>5 DEF TrustHeld, Trusting
  <2>7. request[a] = req[d]
    BY <1>1, <2>5 DEF Ownership, OwnRequest, Owning, Leased
  <2> QED
    BY <2>6, <2>7 DEF WorkspaceOfAttempt, Workspace
<1>2. ASSUME SystemInv, [SystemNext]_allVars
      PROVE  [\A a \in Attempts :
                child[a] # "verifier" /\ child'[a] = "verifier"
                  => WorkspaceOfAttempt(a) \in intact \cup slipped]_vars
  BY <1>1, <1>2
<1> QED
  BY <1>2, SystemInvHolds, PTL DEF System, VerifierInputsIntact

(* A review adds at most one event to an attempt, after what is recorded.  *)
LEMMA ReviewerGrows ==
  ASSUME SystemInv, NEW v \in Reviewers, Reviewer(v)
  PROVE  \A a \in Attempts : \/ events'[a] = events[a]
                            \/ \E e \in Events : events'[a] = Append(events[a], e)
<1> USE DEF SystemInv, ReviewTypeOK
<1>1. AppendReview(v) => review[v] \in Reviews
  BY DEF AppendReview, ReviewKept, ReviewUnderWay
<1>2. \/ UNCHANGED events
      \/ \E b \in Attempts : \E from, to \in States : AppendEvent(b, from, to)
  BY <1>1, ReviewerLeaves DEF Reviews, States
<1> QED
  BY <1>2, EventsGrow

(* What the dispatchers keep among themselves they keep with reviewers in  *)
(* the journal: one child process per workspace, the budgets of attempts   *)
(* and USD, and the records of every executed attempt.                     *)
THEOREM DispatchKept ==
  System => []( /\ OneWriterPerWorkspace /\ ExecutionIsJournaled
                /\ AttemptsWithinBudget /\ USDWithinBudget )
<1>1. ASSUME SystemInv PROVE OneWriterPerWorkspace
  BY <1>1, HolderWrites DEF SystemInv, ReviewTypeOK, Records
<1> DEFINE Inv == /\ ExecutionIsJournaled
                  /\ AttemptsWithinBudget /\ USDWithinBudget /\ BudgetHeld
<1>2. ReviewInit => Inv
  BY InitBudget DEF ReviewInit, Init, ExecutionIsJournaled
<1>3. ASSUME SystemInv, Inv, [SystemNext]_allVars PROVE Inv'
  <2> USE DEF SystemInv, ReviewTypeOK, SystemExclusive, Records
  <2>1. CASE [Next]_vars
    BY <1>3, <2>1, NextJournals, NextBudget
  <2>2. ASSUME NEW v \in Reviewers, Reviewer(v) PROVE Inv'
    <3>1. UNCHANGED <<records, control, outside>>
      BY <2>2, ReviewerLeaves
    <3>2. AttemptsWithinBudget' /\ USDWithinBudget' /\ BudgetHeld'
      BY <1>3, <3>1, BudgetUndisturbed DEF records, control
    <3>3. ASSUME NEW a \in executed PROVE Begun(a)'
      <4>1. a \in Attempts /\ Begun(a)
        BY <1>3 DEF ExecutionIsJournaled, Begun, TypeOK, WorldTypeOK
      <4>2. \A b \in Attempts : \/ events'[b] = events[b]
                                \/ \E e \in Events : events'[b] = Append(events[b], e)
        BY <1>3, <2>2, ReviewerGrows
      <4> QED
        BY <1>3, <4>1, <4>2, BegunStays
    <3>4. ExecutionIsJournaled'
      BY <1>3, <3>1, <3>3 DEF ExecutionIsJournaled, Begun, records, outside, history
    <3> QED
      BY <3>2, <3>4
  <2> QED
    BY <1>3, <2>1, <2>2, SystemSteps
<1> QED
  BY <1>1, <1>2, <1>3, SystemInvHolds, PTL DEF System

(* A reviewer among the writers of the journal rewrites nothing either:    *)
(* what any dispatcher or reviewer recorded stays, and no review, failed   *)
(* or killed, brings the delegate of an attempt to life a second time.     *)
THEOREM HistoryKept == System => JournalAppendOnly /\ ExecutedOnce
<1> USE DEF SystemInv, ReviewTypeOK, Records
<1>1. ASSUME SystemInv, [SystemNext]_allVars
      PROVE  /\ [/\ Kept(frozen, frozen') /\ Kept(request, request')
                 /\ Kept(idem, idem') /\ Kept(result, result')
                 /\ reservations \subseteq reservations'
                 /\ cancelFile \subseteq cancelFile' /\ pre \subseteq pre'
                 /\ \A a \in Attempts :
                      \/ events'[a] = events[a]
                      \/ \E e \in Events : events'[a] = Append(events[a], e)]_vars
             /\ [\A a \in Attempts :
                   child[a] # "delegate" /\ child'[a] = "delegate" => a \notin executed]_vars
  <2>1. CASE [Next]_vars
    BY <1>1, <2>1, NextKeeps, NextSpawns
  <2>2. ASSUME NEW v \in Reviewers, Reviewer(v)
        PROVE  /\ /\ Kept(frozen, frozen') /\ Kept(request, request')
                  /\ Kept(idem, idem') /\ Kept(result, result')
                  /\ reservations \subseteq reservations'
                  /\ cancelFile \subseteq cancelFile' /\ pre \subseteq pre'
               /\ UNCHANGED child
    BY <2>2, ReviewerLeaves DEF records, control, outside, Kept
  <2> QED
    BY <1>1, <2>1, <2>2, ReviewerGrows, SystemSteps
<1> QED
  BY <1>1, SystemInvHolds, PTL DEF System, JournalAppendOnly, ExecutedOnce

-----------------------------------------------------------------------------
(* Every attempt lives the life of AttemptLifecycle.                       *)

(* One event of attempt b, or its result, as the abstract life sees it.    *)
LEMMA StateMoves ==
  ASSUME NEW b \in Attempts, NEW to, StateAfter(events'[b]) = to,
         \A a \in Attempts : a # b => events'[a] = events[a],
         UNCHANGED <<result, executed>>
  PROVE  /\ [a \in Attempts |-> Recorded(a)]'
              = [[a \in Attempts |-> Recorded(a)] EXCEPT ![b] = to]
         /\ UNCHANGED [a \in Attempts |-> IF result[a] = None THEN None ELSE result[a].state]
         /\ [a \in Attempts |-> Recorded(a)][b] = Recorded(b)
BY DEF Recorded

LEMMA LifecycleSteps ==
  ASSUME SystemInv, [SystemNext]_allVars
  PROVE  [Lifecycle!Next]_(Lifecycle!vars)
<1> USE DEF SystemInv, ReviewTypeOK, Records, TypeOK
<1>1. ASSUME UNCHANGED <<events, result, executed>> PROVE UNCHANGED Lifecycle!vars
  BY <1>1 DEF Lifecycle!vars, Recorded
<1>2. ASSUME NEW b \in Attempts, NEW from, NEW to, from = Recorded(b),
             StateAfter(events'[b]) = to,
             \A a \in Attempts : a # b => events'[a] = events[a],
             UNCHANGED <<result, executed>>,
             \/ from = "validated" /\ to = "dispatched"
             \/ from = "dispatched" /\ to = "running"
             \/ from = "running" /\ result[b] # None /\ to = result[b].state
             \/ /\ from \in Final /\ to \in Reviewed /\ TransitionAllowed(from, to)
                /\ result[b] # None /\ result[b].state = from
      PROVE  Lifecycle!Next
  <2>1. /\ [a \in Attempts |-> Recorded(a)]'
              = [[a \in Attempts |-> Recorded(a)] EXCEPT ![b] = to]
        /\ UNCHANGED [a \in Attempts |-> IF result[a] = None THEN None ELSE result[a].state]
        /\ [a \in Attempts |-> Recorded(a)][b] = from
    BY <1>2, StateMoves
  <2>2. CASE from = "validated" /\ to = "dispatched"
    BY <1>2, <2>1, <2>2 DEF Lifecycle!Next, Lifecycle!Dispatch
  <2>3. CASE from = "dispatched" /\ to = "running"
    BY <1>2, <2>1, <2>3 DEF Lifecycle!Next, Lifecycle!Begin
  <2>4. CASE from = "running" /\ result[b] # None /\ to = result[b].state
    <3>1. Lifecycle!Publish(b)
      BY <1>2, <2>1, <2>4, NoneIsNew DEF Lifecycle!Publish, JournalTypeOK, Results, Final, States
    <3> QED
      BY <3>1 DEF Lifecycle!Next
  <2>5. CASE /\ from \in Final /\ to \in Reviewed /\ TransitionAllowed(from, to)
             /\ result[b] # None /\ result[b].state = from
    <3>1. Lifecycle!TransitionAllowed(from, to)
      BY <2>5 DEF Lifecycle!TransitionAllowed, Lifecycle!Final, Lifecycle!Reviewed,
         TransitionAllowed, Final, Reviewed
    <3>2. [a \in Attempts |-> IF result[a] = None THEN None ELSE result[a].state][b] = from
      BY <2>5
    <3>3. Lifecycle!Review(b, to)
      BY <1>2, <2>1, <3>1, <3>2 DEF Lifecycle!Review
    <3> QED
      BY <2>5, <3>3 DEF Lifecycle!Next, Lifecycle!Reviewed, Reviewed
  <2> QED
    BY <1>2, <2>2, <2>3, <2>4, <2>5
<1>3. ASSUME NEW b \in Attempts, NEW v \in Final, UNCHANGED <<events, executed>>,
             result[b] = None, result'[b] # None, result'[b].state = v,
             \A a \in Attempts : a # b => result'[a] = result[a],
             Recorded(b) = "running", v = Verified => b \in executed
      PROVE  Lifecycle!Next
  <2>1. [a \in Attempts |-> IF result[a] = None THEN None ELSE result[a].state]'
          = [[a \in Attempts |-> IF result[a] = None THEN None ELSE result[a].state]
               EXCEPT ![b] = v]
    BY <1>3
  <2>2. UNCHANGED [a \in Attempts |-> Recorded(a)]
    BY <1>3 DEF Recorded
  <2>3. Lifecycle!Conclude(b, v)
    BY <1>3, <2>1, <2>2 DEF Lifecycle!Conclude, Verified
  <2> QED
    BY <2>3 DEF Lifecycle!Next, Lifecycle!Final, Final
<1>4. ASSUME [Next]_vars, ~UNCHANGED events PROVE Lifecycle!Next
  <2> DEFINE Event(d, b) ==
        \/ RecordDispatched(d) /\ Moved(b, "validated", "dispatched")
        \/ RecordRunning(d) /\ Moved(b, "dispatched", "running")
        \/ PublishResult(d) /\ Moved(b, "running", verdict[d])
  <2>1. PICK d \in Dispatchers : Attempt(d) \in Attempts /\ Event(d, Attempt(d))
    BY <1>4, NextMoves
  <2>2. UNCHANGED <<result, executed>>
    BY <2>1 DEF RecordDispatched, RecordRunning, PublishResult, outside, history
  <2>3. PublishResult(d) => /\ verdict[d] \in States /\ result[Attempt(d)] # None
                            /\ verdict[d] = result[Attempt(d)].state
    BY DEF PublishResult, ControlTypeOK, Finalizing, States, Stages, Staged
  <2>4. ASSUME NEW b \in Attempts, NEW from \in States, NEW to \in States,
               Moved(b, from, to),
               \/ from = "validated" /\ to = "dispatched"
               \/ from = "dispatched" /\ to = "running"
               \/ from = "running" /\ result[b] # None /\ to = result[b].state
        PROVE  Lifecycle!Next
    <3>1. /\ from = Recorded(b) /\ StateAfter(events'[b]) = to
          /\ \A a \in Attempts : a # b => events'[a] = events[a]
      BY <2>4, AppendMoves DEF Moved
    <3> QED
      BY <1>2, <2>2, <2>4, <3>1
  <2> QED
    BY <2>1, <2>3, <2>4 DEF States
<1>5. ASSUME [Next]_vars, UNCHANGED events, NEW b \in Attempts, result'[b] # result[b]
      PROVE  Lifecycle!Next
  <2>1. PICK d \in Dispatchers :
          /\ RecordResult(d) /\ b = Attempt(d) /\ pc[d] = "record"
          /\ result'[b] = [state |-> verdict[d], writes |-> writes[d]]
          /\ UNCHANGED <<events, executed>>
    BY <1>5, ResultWritten
  <2>2. verdict[d] \in Final /\ Recorded(b) = "running" /\ result[b] = None
    BY <2>1 DEF ControlTypeOK, Finalizing, Stages, Staged
  <2>3. verdict[d] = Verified => b \in executed
    BY <2>1 DEF VerifiedRan, Ran, Finalizing
  <2>4. \A a \in Attempts : a # b => result'[a] = result[a]
    BY <2>1 DEF RecordResult, JournalTypeOK
  <2>5. result'[b] # None
    BY <1>5, <2>2
  <2> QED
    BY <1>3, <2>1, <2>2, <2>3, <2>4, <2>5
<1>6. ASSUME [Next]_vars, UNCHANGED <<events, result>>, ~UNCHANGED executed
      PROVE  Lifecycle!Next
  <2>1. ASSUME NEW d \in Dispatchers, Dispatcher(d), ~SpawnDelegate(d)
        PROVE  UNCHANGED executed
    BY <2>1 DEF Dispatcher, Admission, Invoke, Replay, RefuseDeadline,
       ReserveBudget, PersistReservation, PersistRequest, BindKey,
       RecordDispatched, RecordRunning, Execution, ClaimLease, Preflight,
       WriteSnapshot, DelegateReturns, CheckCanceled, CheckBeforeVerifier,
       StartVerifier, VerifierReturns, RecheckCanceled, CheckAfterVerifier,
       LastCheck, Finalization, LockForResult, RecordResult, PublishResult,
       ReleaseLease, outside, history
  <2>2. PICK d \in Dispatchers : SpawnDelegate(d)
    BY <1>6, <2>1, OthersLeave DEF Next
  <2>3. /\ pc[d] = "spawn" /\ Attempt(d) \in Attempts
        /\ executed' = executed \cup {Attempt(d)}
    BY <1>6, <2>2, RequestTyped DEF SpawnDelegate
  <2>4. /\ Recorded(Attempt(d)) = "running" /\ result[Attempt(d)] = None
        /\ Attempt(d) \notin executed
    BY <2>3 DEF Stages, Staged, Leased, Ownership, FirstExecution, Unspawned
  <2>5. /\ UNCHANGED [a \in Attempts |-> Recorded(a)]
        /\ UNCHANGED [a \in Attempts |-> IF result[a] = None THEN None ELSE result[a].state]
    BY <1>6 DEF Recorded
  <2>6. Lifecycle!Execute(Attempt(d))
    BY <2>3, <2>4, <2>5 DEF Lifecycle!Execute
  <2> QED
    BY <2>3, <2>6 DEF Lifecycle!Next
<1>7. ASSUME NEW v \in Reviewers, Reviewer(v) PROVE [Lifecycle!Next]_(Lifecycle!vars)
  <2>1. UNCHANGED <<result, executed>>
    BY <1>7, ReviewerLeaves DEF records, outside, history
  <2>2. CASE UNCHANGED events
    BY <1>1, <2>1, <2>2
  <2>3. CASE /\ AppendReview(v)
             /\ AppendEvent(review[v].attempt, review[v].from, review[v].to)
    <3>1. PICK b \in Attempts, to \in Reviewed :
            /\ result[b] # None
            /\ Recorded(b) \in {Verified, Blocked}
            /\ TransitionAllowed(Recorded(b), to)
            /\ StateAfter(events'[b]) = to
            /\ \A a \in Attempts : a # b => events'[a] = events[a]
      BY <2>3, ReviewAppends
    <3>2. Recorded(b) \in Final /\ result[b].state = Recorded(b)
      BY <3>1 DEF Verified, Blocked, Final, Stages, Told
    <3> QED
      BY <1>2, <2>1, <3>1, <3>2
  <2> QED
    BY <1>7, <2>2, <2>3, ReviewerLeaves
<1>8. ASSUME [Next]_vars, \A b \in Attempts : result'[b] = result[b]
      PROVE  UNCHANGED result
  <2>1. TypeOK'
    BY <1>8, NextTyped
  <2> QED
    BY <1>8, <2>1 DEF JournalTypeOK
<1> QED
  BY <1>1, <1>4, <1>5, <1>6, <1>7, <1>8, SystemSteps

(* Dispatchers and reviewers, their locks, crashes and failed writes       *)
(* included, implement the abstract life of an attempt.                    *)
THEOREM LifecycleRefined == System => RefinesLifecycle
<1>1. ReviewInit => Lifecycle!Init
  BY DEF ReviewInit, Init, JournalInit, Lifecycle!Init, Recorded, StateAfter
<1> QED
  BY <1>1, LifecycleSteps, SystemInvHolds, PTL DEF System, RefinesLifecycle, Lifecycle!Spec

-----------------------------------------------------------------------------
(* What a human accepts is what the verifier judged, or what was written   *)
(* beneath it: the evidence check compared the recorded content again.     *)
AcceptedMeansJudged ==
  \A a \in Attempts : Recorded(a) = "accepted" =>
    /\ a \in executed /\ judged[a] # None
    /\ rechecked[a] = result[a].writes
    /\ rechecked[a] = judged[a] \/ a \in rewritten

(* From the delegate to the acceptance, with any number of dispatchers and *)
(* reviewers, attempts that use the workspace in between and editors that  *)
(* strike at any time: a verified result and an acceptance are about bytes *)
(* that were judged, unless the verifier or an editor beneath it rewrote   *)
(* them while it ran.                                                      *)
THEOREM AcceptanceJudged == System => [](VerifiedMeansJudged /\ AcceptedMeansJudged)
<1>1. ReviewInit => AllJudged /\ VerifiedMeansJudged
  BY DEF ReviewInit, Init, JournalInit, AllJudged, JudgedHere, VerifiedMeansJudged, Finalizing
<1>2. ASSUME SystemInv, AllJudged, VerifiedMeansJudged, [SystemNext]_allVars
      PROVE  AllJudged' /\ VerifiedMeansJudged'
  <2>1. CASE [Next]_vars
    BY <1>2, <2>1, NextJudged, NextVerdict DEF SystemInv, ReviewTypeOK, Records
  <2>2. ASSUME NEW v \in Reviewers, Reviewer(v) PROVE AllJudged' /\ VerifiedMeansJudged'
    <3>1. UNCHANGED <<records, control, outside>>
      BY <2>2, ReviewerLeaves
    <3>2. UNCHANGED <<pc, req, code, verdict, writes, child, judged, rewritten, cand,
                      result, executed>>
      BY <3>1 DEF records, control, outside, workspace, history
    <3>3. AllJudged /\ VerifiedMeansJudged
      BY <1>2
    <3> QED
      BY <3>2, <3>3, ZenonT(30) DEF AllJudged, JudgedHere, VerifiedMeansJudged,
         Attempt, Workspace
  <2> QED
    BY <1>2, <2>1, <2>2, SystemSteps
<1>3. ASSUME SystemInv, VerifiedMeansJudged PROVE AcceptedMeansJudged
  <2> SUFFICES ASSUME NEW a \in Attempts, Recorded(a) = "accepted"
               PROVE  /\ a \in executed /\ judged[a] # None
                      /\ rechecked[a] = result[a].writes
                      /\ rechecked[a] = judged[a] \/ a \in rewritten
    BY DEF AcceptedMeansJudged
  <2>1. result[a] # None /\ result[a].state = Verified
    BY <1>3 DEF SystemInv, Records, Stages, Told, Reviewed
  <2>2. rechecked[a] = result[a].writes
    BY <1>3 DEF SystemInv, ReviewKept, AcceptedRechecked, EvidenceKept
  <2> QED
    BY <1>3, <2>1, <2>2 DEF VerifiedMeansJudged
<1> QED
  BY <1>1, <1>2, <1>3, SystemInvHolds, PTL DEF System
=============================================================================
