-------------------------- MODULE ComposeDispatch --------------------------
(***************************************************************************)
(* `fanisi compose dispatch` (dispatchComposition) as a process: the       *)
(* admission transaction, the workspace lease, the delegate and verifier   *)
(* it spawns, its cancellation checks, and composeFinalizeAttempt; with    *)
(* `compose cancel`, and the delegates, editors, crashes and the operator  *)
(* who clears a stale lock around it.                                      *)
(*                                                                         *)
(* A workspace is abstracted to the content of its write paths and to      *)
(* whether anything else an integrity check covers (protected and          *)
(* read-only files, HEAD, the index, undeclared paths) was disturbed.      *)
(***************************************************************************)
EXTENDS ComposeJournal

CONSTANTS
  Dispatchers,  \* processes that run `compose dispatch`
  Base,         \* the committed content of the write paths
  Crashes,      \* how many dispatchers may be killed
  IOFailures,   \* may a write to the journal or the output directory fail?
  LockTimeouts, \* may a wait for the journal lock exhaust its budget?
  Tampering,    \* may delegates and verifiers disturb what they must not?
  MaxEdits      \* how often an editor outside Fanisi changes a workspace

ASSUME DispatchConstants ==
  /\ Dispatchers \subseteq Processes
  /\ Base \in Contents
  /\ Crashes \in Nat /\ MaxEdits \in Nat
  /\ {IOFailures, LockTimeouts, Tampering} \subseteq BOOLEAN

VARIABLES
  pc,        \* where each dispatcher is in dispatchComposition
  req,       \* the request it was called with
  ctxDone,   \* is its attempt context canceled or past its deadline?
  canceled,  \* its local `canceled`: the answer of composeAttemptCanceled
  code,      \* exit of its delegate, later of its verifier
  verdict,   \* the state it is about to record
  writes,    \* FinalWriteHashes as its verifier run returned them
  lease,     \* owner of <workspace>/.fanisi-lock, or None
  child,     \* child[a]: the live child process of attempt a
  cand,      \* cand[w]: content of the write paths of workspace w
  intact,    \* workspaces where nothing else changed since the commit
  edits,     \* edits made so far by editors outside Fanisi
  \* History, which no action reads:
  executed,  \* attempts whose delegate was started
  judged,    \* judged[a]: the content a's verifier was started on
  rewritten, \* attempts whose write paths their own verifier, or an editor
             \* outside Fanisi, changed while that verifier ran
  slipped    \* workspaces such an editor disturbed behind a passed check

control == <<pc, req, ctxDone, canceled, code, verdict, writes>>
workspace == <<cand, intact>>
history == <<executed, judged, rewritten, slipped>>
vars == <<journal, control, lease, child, workspace, edits, history>>

Admitting == {"lookup", "reserve", "request", "bind", "dispatched", "running"}
Leased == {"preflight", "snapshot", "spawn", "delegate", "exited",
           "integrity1", "verify", "verifying", "vexited", "integrity2",
           "lastCheck"}
Finalizing == {"finalize", "record", "publish"}

(* The pcs at which a dispatcher holds the journal lock.                   *)
InJournal == Admitting \cup {"record", "publish"}

PCs == {"idle", "lease", "release", "crashed"}
         \cup Admitting \cup Leased \cup Finalizing

Codes == {"none", "ok", "fail", "error", "timeout"}

(* A dispatcher has a request from its call to its return, and a verdict   *)
(* when it finalizes.                                                      *)
ControlTypeOK ==
  /\ pc \in [Dispatchers -> PCs]
  /\ req \in [Dispatchers -> Requests \cup {None}]
  /\ ctxDone \in SUBSET Dispatchers
  /\ canceled \in SUBSET Dispatchers
  /\ code \in [Dispatchers -> Codes]
  /\ verdict \in [Dispatchers -> Final \cup {None}]
  /\ writes \in [Dispatchers -> Contents \cup {None}]
  /\ \A d \in Dispatchers : /\ pc[d] # "idle" <=> req[d] # None
                            /\ pc[d] \in Finalizing => verdict[d] \in Final

WorldTypeOK ==
  /\ lease \in [Workspaces -> Dispatchers \cup {None}]
  /\ child \in [Attempts -> {"none", "delegate", "verifier"}]
  /\ cand \in [Workspaces -> Contents]
  /\ intact \in SUBSET Workspaces
  /\ edits \in 0..MaxEdits
  /\ executed \in SUBSET Attempts
  /\ judged \in [Attempts -> Contents \cup {None}]
  /\ rewritten \in SUBSET Attempts
  /\ slipped \in SUBSET Workspaces

TypeOK == JournalTypeOK /\ ControlTypeOK /\ WorldTypeOK

Init ==
  /\ JournalInit
  /\ pc = [d \in Dispatchers |-> "idle"]
  /\ req = [d \in Dispatchers |-> None]
  /\ ctxDone = {}
  /\ canceled = {}
  /\ code = [d \in Dispatchers |-> "none"]
  /\ verdict = [d \in Dispatchers |-> None]
  /\ writes = [d \in Dispatchers |-> None]
  /\ lease = [w \in Workspaces |-> None]
  /\ child = [a \in Attempts |-> "none"]
  /\ cand = [w \in Workspaces |-> Base]
  /\ intact = Workspaces
  /\ edits = 0
  /\ executed = {}
  /\ judged = [a \in Attempts |-> None]
  /\ rewritten = {}
  /\ slipped = {}

-----------------------------------------------------------------------------
(* Control.                                                                *)

Attempt(d) == AttemptOf[req[d]]
Workspace(d) == WorkspaceOf[req[d]]

Goto(d, at) ==
  /\ pc' = [pc EXCEPT ![d] = at]
  /\ UNCHANGED <<req, ctxDone, canceled, code, verdict, writes>>

(* dispatchComposition returns: its locals and its context are gone.       *)
Return(d) ==
  /\ pc' = [pc EXCEPT ![d] = "idle"]
  /\ req' = [req EXCEPT ![d] = None]
  /\ ctxDone' = ctxDone \ {d}
  /\ canceled' = canceled \ {d}
  /\ code' = [code EXCEPT ![d] = "none"]
  /\ verdict' = [verdict EXCEPT ![d] = None]
  /\ writes' = [writes EXCEPT ![d] = None]

(* Every `return composeFinalizeAttempt(...)`: the verdict is fixed here,  *)
(* and the context and the exit code are not read again.                   *)
Finalize(d, v) ==
  /\ pc' = [pc EXCEPT ![d] = "finalize"]
  /\ verdict' = [verdict EXCEPT ![d] = v]
  /\ ctxDone' = ctxDone \ {d}
  /\ canceled' = canceled \ {d}
  /\ code' = [code EXCEPT ![d] = "none"]
  /\ UNCHANGED <<req, writes>>

outside == <<lease, child, workspace, edits, history>>

-----------------------------------------------------------------------------
(* The admission transaction: every step is taken under the journal lock,  *)
(* and every error unlocks, returns, and leaves the earlier records.       *)

Abort(d) == Unlock(d) /\ Return(d)

(* composeWriteNewJSON created the record: go on, unless the sync of its   *)
(* directory fails although the record exists.                             *)
Created(d, next) ==
  \/ Goto(d, next) /\ UNCHANGED jlock
  \/ IOFailures /\ Abort(d)

(* dispatchComposition was called with a valid bundle and got the lock.    *)
Invoke(d, r) ==
  /\ pc[d] = "idle"
  /\ Lock(d)
  /\ pc' = [pc EXCEPT ![d] = "lookup"]
  /\ req' = [req EXCEPT ![d] = r]
  /\ UNCHANGED <<ctxDone, canceled, code, verdict, writes, frozen, reservations,
                 request, idem, events, result, cancelFile, pre, outside>>

(* Seeded fault: one return path that forgets the unlock.                  *)
ReplayKeepsLock(d) ==
  /\ pc[d] = "lookup"
  /\ idem[KeyOf[req[d]]] # None
  /\ Return(d)
  /\ UNCHANGED <<journal, outside>>

(* A known key is answered from the journal: the same payload observes the *)
(* stored state, another payload is a conflict. Nothing runs either way.   *)
Replay(d) ==
  /\ pc[d] = "lookup"
  /\ idem[KeyOf[req[d]]] # None
  /\ Abort(d)
  /\ UNCHANGED <<frozen, reservations, request, idem, events, result,
                 cancelFile, pre, outside>>

(* The deadline and duration gates refuse before anything is written.      *)
RefuseDeadline(d) ==
  /\ pc[d] = "lookup"
  /\ idem[KeyOf[req[d]]] = None
  /\ Abort(d)
  /\ UNCHANGED <<frozen, reservations, request, idem, events, result,
                 cancelFile, pre, outside>>

(* reserveBudget: a refusal still leaves the budget frozen.                *)
ReserveBudget(d) ==
  /\ pc[d] = "lookup"
  /\ idem[KeyOf[req[d]]] = None
  /\ FreezeBudget(req[d])
  /\ IF BudgetAdmits(req[d], frozen'[ParentOf[req[d]]])
     THEN Created(d, "reserve")
     ELSE Abort(d)
  /\ UNCHANGED <<reservations, request, idem, events, result, cancelFile, pre,
                 outside>>

PersistReservation(d) ==
  /\ pc[d] = "reserve"
  /\ \/ /\ ~ReservationExists(req[d])
        /\ reservations' = reservations \cup {req[d]}
        /\ Created(d, "request")
     \/ /\ ReservationExists(req[d]) \/ IOFailures
        /\ UNCHANGED reservations
        /\ Abort(d)
  /\ UNCHANGED <<frozen, request, idem, events, result, cancelFile, pre, outside>>

(* Seeded fault: O_TRUNC for O_EXCL.                                       *)
PersistRequestOverwrites(d) ==
  /\ pc[d] = "request"
  /\ request' = [request EXCEPT ![Attempt(d)] = req[d]]
  /\ Created(d, "bind")
  /\ UNCHANGED <<frozen, reservations, idem, events, result, cancelFile, pre,
                 outside>>

(* Seeded fault: the idempotency record is left out.                       *)
PersistRequestOnly(d) ==
  /\ pc[d] = "request"
  /\ IF request[Attempt(d)] = None
     THEN /\ request' = [request EXCEPT ![Attempt(d)] = req[d]]
          /\ Created(d, "dispatched")
     ELSE Abort(d) /\ UNCHANGED request
  /\ UNCHANGED <<frozen, reservations, idem, events, result, cancelFile, pre,
                 outside>>

(* request.json; allocation.json, which nothing reads, goes with it.       *)
PersistRequest(d) ==
  /\ pc[d] = "request"
  /\ \/ /\ request[Attempt(d)] = None
        /\ request' = [request EXCEPT ![Attempt(d)] = req[d]]
        /\ Created(d, "bind")
     \/ /\ request[Attempt(d)] # None \/ IOFailures
        /\ UNCHANGED request
        /\ Abort(d)
  /\ UNCHANGED <<frozen, reservations, idem, events, result, cancelFile, pre,
                 outside>>

BindKey(d) ==
  /\ pc[d] = "bind"
  /\ \/ /\ idem[KeyOf[req[d]]] = None
        /\ idem' = [idem EXCEPT ![KeyOf[req[d]]] = req[d]]
        /\ Created(d, "dispatched")
     \/ /\ idem[KeyOf[req[d]]] # None \/ IOFailures
        /\ UNCHANGED idem
        /\ Abort(d)
  /\ UNCHANGED <<frozen, reservations, request, events, result, cancelFile, pre,
                 outside>>

RecordDispatched(d) ==
  /\ pc[d] = "dispatched"
  /\ \/ /\ AppendEvent(Attempt(d), "validated", "dispatched")
        /\ Created(d, "running")
     \/ /\ IOFailures
        /\ UNCHANGED events
        /\ Abort(d)
  /\ UNCHANGED <<frozen, reservations, request, idem, result, cancelFile, pre,
                 outside>>

(* The last record of the admission transaction, and its unlock.           *)
RecordRunning(d) ==
  /\ pc[d] = "running"
  /\ \/ /\ AppendEvent(Attempt(d), "dispatched", "running")
        /\ Unlock(d)
        /\ Goto(d, "lease") \/ (IOFailures /\ Return(d))
     \/ /\ IOFailures
        /\ UNCHANGED events
        /\ Abort(d)
  /\ UNCHANGED <<frozen, reservations, request, idem, result, cancelFile, pre,
                 outside>>

Admission(d) ==
  \/ \E r \in Requests : Invoke(d, r)
  \/ Replay(d) \/ RefuseDeadline(d) \/ ReserveBudget(d) \/ PersistReservation(d)
  \/ PersistRequest(d) \/ BindKey(d) \/ RecordDispatched(d) \/ RecordRunning(d)

-----------------------------------------------------------------------------
(* Execution: the workspace lease is held, the journal is not locked.      *)

Blocked == "blocked_uncertain"
Failed == "failed_terminal"
Verified == "verified_pending_review"

(* Seeded fault: only the context is asked.                                *)
ContextCanceled(d) == code[d] = "timeout" \/ d \in ctxDone

(* composeAttemptCanceled, read from the file system without the lock.     *)
AttemptCanceled(d) ==
  Attempt(d) \in cancelFile \/ code[d] = "timeout" \/ d \in ctxDone

(* Seeded fault: a lease that is present is taken over.                    *)
ClaimLeaseMkdirAll(d) ==
  /\ pc[d] = "lease"
  /\ lease' = [lease EXCEPT ![Workspace(d)] = d]
  /\ Goto(d, "preflight")
  /\ UNCHANGED <<journal, child, workspace, edits, history>>

ClaimLease(d) ==
  /\ pc[d] = "lease"
  /\ \/ /\ lease[Workspace(d)] = None
        /\ lease' = [lease EXCEPT ![Workspace(d)] = d]
        /\ Goto(d, "preflight")
     \/ /\ lease[Workspace(d)] # None \/ IOFailures
        /\ Finalize(d, Blocked)
        /\ UNCHANGED lease
  /\ UNCHANGED <<journal, child, workspace, edits, history>>

Clean(w) == w \in intact /\ cand[w] = Base

(* Git capture, the HEAD and clean-tree gates, and the frozen snapshots.   *)
(* A done context, or any command that fails, ends as uncertain.           *)
Preflight(d) ==
  /\ pc[d] = "preflight"
  /\ \/ d \notin ctxDone /\ Clean(Workspace(d)) /\ Goto(d, "snapshot")
     \/ d \notin ctxDone /\ ~Clean(Workspace(d)) /\ Finalize(d, Failed)
     \/ (d \in ctxDone \/ IOFailures) /\ Finalize(d, Blocked)
  /\ UNCHANGED <<journal, outside>>

(* pre.json, in a transaction of its own.                                  *)
WriteSnapshot(d) ==
  /\ pc[d] = "snapshot"
  /\ \/ /\ jlock = None
        /\ pre' = pre \cup {Attempt(d)}
        /\ Goto(d, "spawn") \/ (IOFailures /\ Finalize(d, Blocked))
     \/ /\ IOFailures \/ (LockTimeouts /\ jlock # None)
        /\ UNCHANGED pre
        /\ Finalize(d, Blocked)
  /\ UNCHANGED <<jlock, frozen, reservations, request, idem, events, result,
                 cancelFile, outside>>

ExitWith(d, next, c) ==
  /\ pc' = [pc EXCEPT ![d] = next]
  /\ code' = [code EXCEPT ![d] = c]
  /\ UNCHANGED <<req, ctxDone, canceled, verdict, writes>>

(* runDelegate: the watcher is running by now. A delegate that cannot be   *)
(* started, also because the context is done, is an error.                 *)
SpawnDelegate(d) ==
  /\ pc[d] = "spawn"
  /\ \/ /\ d \notin ctxDone
        /\ child' = [child EXCEPT ![Attempt(d)] = "delegate"]
        /\ executed' = executed \cup {Attempt(d)}
        /\ Goto(d, "delegate")
     \/ /\ d \in ctxDone \/ IOFailures
        /\ ExitWith(d, "exited", "error")
        /\ UNCHANGED <<child, executed>>
  /\ UNCHANGED <<journal, lease, workspace, edits, judged, rewritten, slipped>>

(* composeRunProcessGroup returns once the group is gone. A context that   *)
(* is done kills the group and overrides whatever the child exited with;   *)
(* a child may also exit with 124 of its own accord.                       *)
ExitCodes(d) == IF d \in ctxDone THEN {"timeout"} ELSE {"ok", "fail", "error", "timeout"}

DelegateReturns(d) ==
  /\ pc[d] = "delegate"
  /\ child' = [child EXCEPT ![Attempt(d)] = "none"]
  /\ \E c \in ExitCodes(d) : ExitWith(d, "exited", c)
  /\ UNCHANGED <<journal, lease, workspace, edits, history>>

(* The result is kept in a local: a cancel after this read is not in it.   *)
CheckCanceled(d) ==
  /\ pc[d] = "exited"
  /\ pc' = [pc EXCEPT ![d] = "integrity1"]
  /\ canceled' = IF AttemptCanceled(d) THEN canceled \cup {d} ELSE canceled \ {d}
  /\ UNCHANGED <<req, ctxDone, code, verdict, writes, journal, outside>>

(* Seeded fault: only the exit code decides whether the verifier runs.     *)
TrustDelegate(d) ==
  /\ pc[d] = "integrity1"
  /\ IF d \notin ctxDone \cup canceled /\ code[d] = "ok"
     THEN Goto(d, "verify") ELSE Finalize(d, Blocked)
  /\ UNCHANGED <<journal, outside>>

(* composeCheckIntegrity "before verifier", and the exit code after it.    *)
(* Its Git commands run under the attempt context and fail once it is done.*)
CheckBeforeVerifier(d) ==
  /\ pc[d] = "integrity1"
  /\ IF d \in ctxDone \cup canceled THEN Finalize(d, Blocked)
     ELSE \/ /\ Workspace(d) \notin intact \/ IOFailures
             /\ Finalize(d, Failed)
          \/ /\ Workspace(d) \in intact
             /\ \/ code[d] = "ok" /\ Goto(d, "verify")
                \/ code[d] = "fail" /\ Finalize(d, Failed)
                \/ code[d] \in {"error", "timeout"} /\ Finalize(d, Blocked)
  /\ UNCHANGED <<journal, outside>>

(* composeRunIndependentVerifier hashes the candidate and starts the       *)
(* command; one that cannot be started is an error.                        *)
StartVerifier(d) ==
  /\ pc[d] = "verify"
  /\ \/ /\ d \notin ctxDone
        /\ child' = [child EXCEPT ![Attempt(d)] = "verifier"]
        /\ judged' = [judged EXCEPT ![Attempt(d)] = cand[Workspace(d)]]
        /\ Goto(d, "verifying")
     \/ /\ d \in ctxDone \/ IOFailures
        /\ ExitWith(d, "vexited", "error")
        /\ UNCHANGED <<child, judged>>
     \/ /\ IOFailures \* the verifier cache cannot be created
        /\ Finalize(d, Blocked)
        /\ UNCHANGED <<child, judged>>
  /\ UNCHANGED <<journal, lease, workspace, edits, executed, rewritten, slipped>>

(* FinalWriteHashes are taken again after the run and replace the first.   *)
VerifierReturns(d) ==
  /\ pc[d] = "verifying"
  /\ child' = [child EXCEPT ![Attempt(d)] = "none"]
  /\ writes' = [writes EXCEPT ![d] = cand[Workspace(d)]]
  /\ \E c \in ExitCodes(d) : code' = [code EXCEPT ![d] = c]
  /\ pc' = [pc EXCEPT ![d] = "vexited"]
  /\ UNCHANGED <<req, ctxDone, canceled, verdict, journal, lease, workspace,
                 edits, history>>

RecheckCanceled(d) ==
  /\ pc[d] = "vexited"
  /\ IF AttemptCanceled(d) THEN Finalize(d, Blocked) ELSE Goto(d, "integrity2")
  /\ UNCHANGED <<journal, outside>>

(* Seeded fault: integrity is not checked again after the verifier.        *)
TrustVerifier(d) ==
  /\ pc[d] = "integrity2"
  /\ IF d \in ctxDone THEN Finalize(d, Blocked)
     ELSE IF code[d] = "ok" THEN Goto(d, "lastCheck") ELSE Finalize(d, Failed)
  /\ UNCHANGED <<journal, outside>>

(* composeCheckIntegrity "after verifier" reads the cancel file again when *)
(* it fails; then the hashes, and the verifier's own error and exit code.  *)
CheckAfterVerifier(d) ==
  /\ pc[d] = "integrity2"
  /\ IF d \in ctxDone THEN Finalize(d, Blocked)
     ELSE \/ /\ Workspace(d) \notin intact \/ IOFailures
             /\ Finalize(d, IF AttemptCanceled(d) THEN Blocked ELSE Failed)
          \/ /\ IOFailures \* composeCurrentHashes fails
             /\ Finalize(d, Blocked)
          \/ /\ Workspace(d) \in intact
             /\ IF code[d] = "ok" THEN Goto(d, "lastCheck") ELSE Finalize(d, Failed)
  /\ UNCHANGED <<journal, outside>>

(* Seeded fault: success accepts itself.                                   *)
LastCheckAccepts(d) ==
  /\ pc[d] = "lastCheck"
  /\ Finalize(d, IF AttemptCanceled(d) THEN Blocked ELSE "accepted")
  /\ UNCHANGED <<journal, outside>>

LastCheck(d) ==
  /\ pc[d] = "lastCheck"
  /\ Finalize(d, IF AttemptCanceled(d) THEN Blocked ELSE Verified)
  /\ UNCHANGED <<journal, outside>>

Execution(d) ==
  \/ ClaimLease(d) \/ Preflight(d) \/ WriteSnapshot(d) \/ SpawnDelegate(d)
  \/ DelegateReturns(d) \/ CheckCanceled(d) \/ CheckBeforeVerifier(d)
  \/ StartVerifier(d) \/ VerifierReturns(d) \/ RecheckCanceled(d)
  \/ CheckAfterVerifier(d) \/ LastCheck(d)

-----------------------------------------------------------------------------
(* composeFinalizeAttempt, and the deferred release of the lease.          *)

(* An exhausted wait for the lock returns without recording the verdict.   *)
LockForResult(d) ==
  /\ pc[d] = "finalize"
  /\ \/ Lock(d) /\ Goto(d, "record")
     \/ LockTimeouts /\ jlock # None /\ Goto(d, "release") /\ UNCHANGED jlock
  /\ UNCHANGED <<frozen, reservations, request, idem, events, result, cancelFile,
                 pre, outside>>

(* Seeded fault: a failed write of the result is not noticed.              *)
RecordResultUnchecked(d) ==
  /\ pc[d] = "record"
  /\ \/ /\ result[Attempt(d)] = None
        /\ result' = [result EXCEPT ![Attempt(d)] =
                        [state |-> verdict[d], writes |-> writes[d]]]
     \/ IOFailures /\ UNCHANGED result
  /\ Goto(d, "publish")
  /\ UNCHANGED <<jlock, frozen, reservations, request, idem, events, cancelFile,
                 pre, outside>>

RecordResult(d) ==
  /\ pc[d] = "record"
  /\ \/ /\ result[Attempt(d)] = None
        /\ result' = [result EXCEPT ![Attempt(d)] =
                        [state |-> verdict[d], writes |-> writes[d]]]
        /\ \/ Goto(d, "publish") /\ UNCHANGED jlock
           \/ IOFailures /\ Goto(d, "release") /\ Unlock(d)
     \/ /\ result[Attempt(d)] # None \/ IOFailures
        /\ UNCHANGED result
        /\ Goto(d, "release") /\ Unlock(d)
  /\ UNCHANGED <<frozen, reservations, request, idem, events, cancelFile, pre,
                 outside>>

PublishResult(d) ==
  /\ pc[d] = "publish"
  /\ \/ AppendEvent(Attempt(d), "running", verdict[d])
     \/ IOFailures /\ UNCHANGED events
  /\ Goto(d, "release") /\ Unlock(d)
  /\ UNCHANGED <<frozen, reservations, request, idem, result, cancelFile, pre,
                 outside>>

ReleaseLease(d) ==
  /\ pc[d] = "release"
  /\ lease' = [lease EXCEPT ![Workspace(d)] = IF @ = d THEN None ELSE @]
  /\ Return(d)
  /\ UNCHANGED <<journal, child, workspace, edits, history>>

Finalization(d) ==
  LockForResult(d) \/ RecordResult(d) \/ PublishResult(d) \/ ReleaseLease(d)

-----------------------------------------------------------------------------
(* Cancellation and deadlines.                                             *)

(* requestCompositionCancel, one transaction. A stale fence, an unknown    *)
(* attempt and an attempt already final are refused and change nothing.    *)
Cancel(a) ==
  /\ jlock = None
  /\ request[a] # None
  /\ Observed(a) \notin Final \cup Reviewed
  /\ a \notin cancelFile
  /\ cancelFile' = cancelFile \cup {a}
  /\ UNCHANGED <<jlock, frozen, reservations, request, idem, events, result, pre,
                 control, outside>>

Watched == {"delegate", "exited", "integrity1", "verify", "verifying",
            "vexited", "integrity2", "lastCheck"}

ContextEnds(d) ==
  /\ d \notin ctxDone
  /\ ctxDone' = ctxDone \cup {d}
  /\ UNCHANGED <<pc, req, canceled, code, verdict, writes, journal, outside>>

(* composeWatchCancel polls for the file and cancels the attempt context.  *)
WatchCancel(d) ==
  /\ pc[d] \in Watched
  /\ Attempt(d) \in cancelFile
  /\ ContextEnds(d)

Deadline(d) == pc[d] \in Leased \cup {"lease"} /\ ContextEnds(d)

-----------------------------------------------------------------------------
(* Child processes, editors, crashes, and the operator's recovery.         *)

Crashed == {d \in Dispatchers : pc[d] = "crashed"}

WorkspaceOfAttempt(a) == WorkspaceOf[request[a]]
ChildrenIn(w) == {a \in Attempts : child[a] # "none" /\ WorkspaceOfAttempt(a) = w}

(* A live child, delegate or verifier, changes the write paths. Nothing    *)
(* stops a verifier from it: its own hashes are simply taken again.        *)
ChildWrites(a) ==
  /\ child[a] # "none"
  /\ \E c \in Contents \ {cand[WorkspaceOfAttempt(a)]} :
       cand' = [cand EXCEPT ![WorkspaceOfAttempt(a)] = c]
  /\ rewritten' = rewritten \cup {b \in {a} : child[b] = "verifier"}
  /\ UNCHANGED <<journal, control, lease, child, intact, edits, executed, judged,
                 slipped>>

(* A delegate or a verifier changes a file outside the declared writes.    *)
ChildTampers(a) ==
  /\ Tampering
  /\ child[a] # "none"
  /\ intact' = intact \ {WorkspaceOfAttempt(a)}
  /\ UNCHANGED <<journal, control, lease, child, cand, edits, history>>

(* The child of a killed dispatcher survives in its own process group      *)
(* until it exits by itself.                                               *)
OrphanExits(a) ==
  /\ child[a] # "none"
  /\ lease[WorkspaceOfAttempt(a)] \in Crashed
  /\ child' = [child EXCEPT ![a] = "none"]
  /\ UNCHANGED <<journal, control, lease, workspace, edits, history>>

(* The pcs at which an integrity check has passed and the step it admits,  *)
(* the verifier's start or the published verdict, is still to come.        *)
Checked == {"verify", "lastCheck"} \cup Finalizing

(* "Other editors do not honor Fanisi's lock": at any time one changes the *)
(* write paths, or something else that the integrity checks cover.         *)
EditCandidate(w) ==
  /\ \E c \in Contents \ {cand[w]} : cand' = [cand EXCEPT ![w] = c]
  /\ rewritten' = rewritten \cup {a \in ChildrenIn(w) : child[a] = "verifier"}
  /\ UNCHANGED <<intact, slipped>>

EditCovered(w) ==
  /\ w \in intact
  /\ intact' = intact \ {w}
  /\ slipped' = slipped \cup
       {x \in {w} : \E d \in Dispatchers : lease[x] = d /\ pc[d] \in Checked}
  /\ UNCHANGED <<cand, rewritten>>

Edit(w) ==
  /\ edits < MaxEdits
  /\ edits' = edits + 1
  /\ EditCandidate(w) \/ EditCovered(w)
  /\ UNCHANGED <<journal, control, lease, child, executed, judged>>

(* The operator restores the committed tree between attempts.              *)
CleanWorkspace(w) ==
  /\ lease[w] = None /\ ChildrenIn(w) = {}
  /\ ~Clean(w)
  /\ cand' = [cand EXCEPT ![w] = Base]
  /\ intact' = intact \cup {w}
  /\ slipped' = slipped \ {w}
  /\ UNCHANGED <<journal, control, lease, child, edits, executed, judged, rewritten>>

(* SIGKILL: locks, lease, records and children stay as they are.           *)
Crash(d) ==
  /\ pc[d] \notin {"idle", "crashed"}
  /\ Cardinality(Crashed) < Crashes
  /\ pc' = [pc EXCEPT ![d] = "crashed"]
  /\ ctxDone' = ctxDone \ {d}
  /\ canceled' = canceled \ {d}
  /\ code' = [code EXCEPT ![d] = "none"]
  /\ verdict' = [verdict EXCEPT ![d] = None]
  /\ writes' = [writes EXCEPT ![d] = None]
  /\ UNCHANGED <<req, journal, outside>>

(* An operator who found the owner record's process dead removes the lock. *)
RemoveStaleJournalLock ==
  /\ jlock \in Crashed
  /\ jlock' = None
  /\ UNCHANGED <<frozen, reservations, request, idem, events, result, cancelFile,
                 pre, control, outside>>

(* For a lease he has also reconciled the orphans the dispatcher left.     *)
RemoveStaleLease(w) ==
  /\ lease[w] \in Crashed
  /\ ChildrenIn(w) = {}
  /\ lease' = [lease EXCEPT ![w] = None]
  /\ UNCHANGED <<journal, control, child, workspace, edits, history>>

Dispatcher(d) == Admission(d) \/ Execution(d) \/ Finalization(d)

Context(d) == WatchCancel(d) \/ Deadline(d)

Environment ==
  \/ \E a \in Attempts : ChildWrites(a) \/ ChildTampers(a) \/ OrphanExits(a)
  \/ \E w \in Workspaces : Edit(w) \/ CleanWorkspace(w) \/ RemoveStaleLease(w)
  \/ \E d \in Dispatchers : Crash(d)
  \/ RemoveStaleJournalLock

Next ==
  \/ \E d \in Dispatchers : Dispatcher(d) \/ Context(d)
  \/ \E a \in Attempts : Cancel(a)
  \/ Environment

Spec == Init /\ [][Next]_vars

(* What the scheduler and the clock owe a dispatcher that is not killed:   *)
(* its own code runs on; its polling of a lock that keeps coming free      *)
(* succeeds (the 20 ms retries, while the budget lasts); its deadline      *)
(* passes, its watcher polls, and a group killed with SIGKILL goes away. A *)
(* child that is not killed need never exit, and nobody need call Cancel.  *)
LocalStep(d) ==
  \/ Replay(d) \/ RefuseDeadline(d) \/ ReserveBudget(d) \/ PersistReservation(d)
  \/ PersistRequest(d) \/ BindKey(d) \/ RecordDispatched(d) \/ RecordRunning(d)
  \/ ClaimLease(d) \/ Preflight(d) \/ SpawnDelegate(d) \/ CheckCanceled(d)
  \/ CheckBeforeVerifier(d) \/ StartVerifier(d) \/ RecheckCanceled(d)
  \/ CheckAfterVerifier(d) \/ LastCheck(d)
  \/ RecordResult(d) \/ PublishResult(d) \/ ReleaseLease(d)

GroupDies(d) == d \in ctxDone /\ (DelegateReturns(d) \/ VerifierReturns(d))

Fairness ==
  \A d \in Dispatchers :
    /\ WF_vars(LocalStep(d))
    /\ SF_vars(WriteSnapshot(d)) /\ SF_vars(LockForResult(d))
    /\ WF_vars(GroupDies(d)) /\ WF_vars(WatchCancel(d)) /\ WF_vars(Deadline(d))

LiveSpec == Spec /\ Fairness

-----------------------------------------------------------------------------
(* Safety.                                                                 *)

(* Two processes are never inside journal transactions at once, also after *)
(* crashes and the removal of stale locks: whoever is between lock and     *)
(* unlock owns the lock directory.                                         *)
JournalExclusive ==
  \A d \in Dispatchers : pc[d] \in InJournal => jlock = d

(* Racing, failing, crashing and repeated dispatches never reserve more    *)
(* attempts than the budget the parent's first caller froze: the check and *)
(* the reservation it admits are two records, written one after the other. *)
AttemptsWithinBudget ==
  \A p \in Parents : ReservationsOf(p) # {} =>
    /\ frozen[p] # None
    /\ Cardinality(ReservationsOf(p)) <= frozen[p].maxAttempts

(* The same for the USD that the reservations of a parent add up to.       *)
USDWithinBudget ==
  \A p \in Parents : ReservationsOf(p) # {} => ReservedUSD(p) <= frozen[p].maxUSD

Kept(f, g) == \A x \in DOMAIN f : f[x] # None => g[x] = f[x]

(* No step rewrites or removes a journal record: budgets, reservations     *)
(* (also of failed attempts), requests, keys, results, snapshots, cancel   *)
(* requests and events are only ever added.                                *)
JournalAppendOnly ==
  [][/\ Kept(frozen, frozen') /\ Kept(request, request')
     /\ Kept(idem, idem') /\ Kept(result, result')
     /\ reservations \subseteq reservations'
     /\ cancelFile \subseteq cancelFile' /\ pre \subseteq pre'
     /\ \A a \in Attempts : \/ events'[a] = events[a]
                            \/ \E e \in Events : events'[a] = Append(events[a], e)]_vars

(* A delegate runs only for an attempt the journal already accounts for:   *)
(* reserved, requested, its idempotency key bound to exactly this payload, *)
(* recorded as dispatched and running, its snapshots stored. Two executed  *)
(* attempts hence never share a key, and a retry of a key never spawns.    *)
ExecutionIsJournaled ==
  \A a \in executed :
    /\ request[a] # None
    /\ request[a] \in reservations
    /\ idem[KeyOf[request[a]]] = request[a]
    /\ Len(events[a]) >= 2 /\ events[a][2].to = "running"
    /\ a \in pre

(* No retry, replay, clash of attempt ids or recovery starts the delegate  *)
(* of an attempt a second time.                                            *)
ExecutedOnce ==
  [][\A a \in Attempts :
       child[a] # "delegate" /\ child'[a] = "delegate" => a \notin executed]_vars

(* At most one child process, delegate or verifier, lives in a workspace,  *)
(* and the dispatcher that started it holds the lease: also when that      *)
(* dispatcher was killed and left the child behind.                        *)
OneWriterPerWorkspace ==
  \A w \in Workspaces : \A a \in ChildrenIn(w) :
    /\ ChildrenIn(w) = {a}
    /\ lease[w] # None
    /\ req[lease[w]] = request[a]

(* Why these hold. The dispatcher that created an attempt's request      *)
(* is the only one to go on with it, and has not executed it before it     *)
(* spawns; whoever executes holds the lease of its workspace; and a child  *)
(* belongs to the holder of the lease, which waits for it or was killed.   *)
Owning == {"bind", "dispatched", "running", "lease", "release"} \cup Leased \cup Finalizing
Unspawned == {"bind", "dispatched", "running", "lease", "preflight", "snapshot", "spawn"}
Waiting == {"delegate", "verifying", "crashed"}

RequestsMatch == \A a \in Attempts : request[a] # None => AttemptOf[request[a]] = a

OwnRequest == \A d \in Dispatchers : pc[d] \in Owning => request[Attempt(d)] = req[d]

OneOwner ==
  \A d, e \in Dispatchers :
    pc[d] \in Owning /\ pc[e] \in Owning /\ Attempt(d) = Attempt(e) => d = e

FirstExecution ==
  /\ \A d \in Dispatchers : pc[d] \in Unspawned => Attempt(d) \notin executed
  /\ \A a \in executed : request[a] # None

LeaseHeld == \A d \in Dispatchers : pc[d] \in Leased => lease[Workspace(d)] = d

ChildrenOwned ==
  \A a \in Attempts : child[a] # "none" => 
    \E d \in Dispatchers :
      /\ req[d] # None /\ req[d] = request[a]
      /\ lease[Workspace(d)] = d
      /\ pc[d] \in Waiting

(* What an attempt that goes on has in the journal, step by step.          *)
Begun(a) == Len(events[a]) >= 2 /\ events[a][2].to = "running"

AccountedFor(d) ==
  /\ pc[d] \in Owning \cup {"request"} => req[d] \in reservations
  /\ pc[d] \in Owning \ {"bind"} => idem[KeyOf[req[d]]] = req[d]
  /\ pc[d] \in {"bind", "dispatched"} => events[Attempt(d)] = <<>>
  /\ pc[d] = "running" => Len(events[Attempt(d)]) = 1
  /\ pc[d] \in Owning \ Admitting => Begun(Attempt(d))
  /\ pc[d] = "spawn" => Attempt(d) \in pre

Accounted ==
  /\ \A a \in Attempts : request[a] = None => events[a] = <<>>
  /\ \A d \in Dispatchers : AccountedFor(d)

(* The budget check still stands when the reservation is written.          *)
BudgetHeld ==
  \A d \in Dispatchers : pc[d] = "reserve" =>
    BudgetAdmits(req[d], frozen[ParentOf[req[d]]])

Ownership ==
  RequestsMatch /\ OwnRequest /\ OneOwner /\ FirstExecution /\ LeaseHeld /\ ChildrenOwned

(* The inductive invariant of all of them.                                 *)
Bookkeeping == Ownership /\ Accounted /\ BudgetHeld

(* A verifier is never started on a workspace whose protected inputs, HEAD,*)
(* index or undeclared paths were disturbed, by the delegate, an orphan or *)
(* anyone else, before the check that admits it. What an editor outside    *)
(* Fanisi does between that check and the start is the only exception.     *)
VerifierInputsIntact ==
  [][\A a \in Attempts :
       child[a] # "verifier" /\ child'[a] = "verifier"
         => WorkspaceOfAttempt(a) \in intact \cup slipped]_vars

(* A verified verdict is about bytes its own verifier ran on: no other     *)
(* attempt, no orphan of a killed dispatcher and no late delegate of its   *)
(* own changed the write paths between the verifier's start and the record,*)
(* and what an editor outside Fanisi wrote after the verifier's exit is    *)
(* not in it. The verifier's own rewriting, and an edit beneath it, are    *)
(* recorded as if they had been judged (CandidateRechecked).               *)
VerifiedMeansJudged ==
  \A a \in Attempts : result[a] # None /\ result[a].state = Verified =>
    /\ a \in executed /\ judged[a] # None
    /\ result[a].writes = judged[a] \/ a \in rewritten

(* While a verified verdict waits for the journal lock, and until it is    *)
(* published, nothing an integrity check covers has been disturbed, unless *)
(* by an editor outside Fanisi after the last check.                       *)
VerdictIntact ==
  \A d \in Dispatchers :
    verdict[d] = Verified /\ pc[d] \in Finalizing
      => Workspace(d) \in intact \cup slipped

Chained(s) ==
  \A i \in 1..Len(s) : s[i].from = IF i = 1 THEN "validated" ELSE s[i - 1].to

(* Every event continues the one before: the state an event claims to      *)
(* leave, which its writer hard-codes, is the state the last event entered.*)
EventChain == \A a \in Attempts : Chained(events[a])

(* The detailed dispatcher implements the abstract life of an attempt.     *)
Lifecycle ==
  INSTANCE AttemptLifecycle WITH
    state <- [a \in Attempts |-> Recorded(a)],
    verdict <- [a \in Attempts |-> IF result[a] = None THEN None ELSE result[a].state]

RefinesLifecycle == Lifecycle!Spec

-----------------------------------------------------------------------------
(* Liveness, under LiveSpec.                                               *)

(* An attempt recorded as running gets its verdict recorded, whatever its  *)
(* delegate does: deadlines end it and the journal lock is always freed.   *)
Concludes ==
  \A a \in Attempts : Recorded(a) = "running" ~> Recorded(a) \in Final

(* A cancel accepted while the delegate runs ends as blocked_uncertain,    *)
(* although the delegate may exit before the watcher sees the request.     *)
CancelEndsBlocked ==
  \A d \in Dispatchers, a \in Attempts :
    (pc[d] = "delegate" /\ a \in cancelFile /\ Attempt(d) = a)
      ~> (Recorded(a) = Blocked)

-----------------------------------------------------------------------------
(* Claims of the documentation that the code does not keep.                *)

(* README: "Cancel/timeout yields `blocked_uncertain`". The last check of  *)
(* the cancel file and the record of the verdict are separate steps.       *)
CanceledNeverVerified ==
  \A a \in cancelFile : result[a] # None => result[a].state # Verified

(* Plan: "Repeat scope, protected/read-only, HEAD/index, and candidate     *)
(* checks after verification". The candidate is hashed again but compared  *)
(* with nothing: a verifier that rewrites it verifies what it wrote last.  *)
CandidateRechecked ==
  \A a \in Attempts : result[a] # None /\ result[a].state = Verified =>
    result[a].writes = judged[a]

(* Contract: "Cancel/timeout/incomplete work stays `blocked_uncertain`": an*)
(* attempt does not stay `running` when its dispatcher has given up.       *)
NoAbandonedRunning ==
  \A a \in Attempts : Recorded(a) = "running" =>
    \E d \in Dispatchers : req[d] # None /\ req[d] = request[a] /\ pc[d] # "release"

=============================================================================
