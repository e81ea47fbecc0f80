# Fanisi in TLA+

Fanisi is a command-line harness for bounded, audited work by coding agents. It
has four ways to run one: `run` (a native turn loop against a provider), `eval`
(a frozen trial through one of several controllers), `compose` (dispatch of an
operator's delegate with an independent verifier and a shared journal) and the
import and reporting commands around them. There is no server: every command is
a process, and processes meet in the file system (lock directories made with
`mkdir`, records created with `O_EXCL`), through process groups they start and
kill, and through two loopback HTTP endpoints (the provider relay and the Kazi
supervisor). This directory models the protocols those processes follow.

## Inventory

| Component | State | Operations | Hard behaviour | Correct when |
|---|---|---|---|---|
| Dispatch and journal (`compose_dispatch.go`, `compose_journal.go`, `compose_delegate.go`) | journal lock, frozen budgets, reservations, requests, idempotency records, events, results, cancel requests, snapshots; workspace lease; the workspace | dispatch, cancel, status, stale-lock removal | processes racing for two locks, any write failing, SIGKILL with a surviving child, a deadline and a watcher against normal exits | nothing runs unaccounted, twice, over budget, or beside another writer; a verdict is about what was judged; an attempt concludes |
| Review (`compose_review.go`) | review events | accept, reject | no lease while the evidence is compared | one review per attempt, accepted only on matching evidence |
| Records, policy, decisions (`compose_validate.go`, `compose_policy.go`, `compose_decide.go`, `compose_backend.go`, `compose_catalog.go`, `compose_json.go`, `compose_hash.go`) | immutable records | validate, choose, hash, import a decision | a backend that times out or answers outside the choice | only a candidate that passes every hard policy is chosen; ties and unknowns escalate |
| Native run (`run.go`, `config.go`, `packet.go`, `search.go`, `profile.go`) | workspace claim, call and token counters, last verified hashes, request and response files, result | calls, tools, verify, profile | budgets at their limit, answers that are lost or repeat an identity, an edit after a verification, a hung command | verified means the final hashes were verified and differ from the start; spending stays within the budget; totals called complete are; the run returns |
| Evaluation (`eval.go`, `ledger.go`, `landing.go`, `delivery.go`, `workspace_audit.go`, `controller_artifacts.go`) | worktree, attempt record and patch, reviews, landing records, target branch | evaluate, repair, review, import and revoke landings, report | one phase of several failing; worker and verifier that write anywhere; four commands on the same files without a lock | verified, accepted and delivered all refer to what the verifier judged; nothing revoked or overtaken is counted; the ledger is append-only |
| Kazi supervisor (`kazi_eval.go`, `eval_bridge.go`, `claude.go`) | manifest of dispatches, active slot, registered worker, cancelled flag | start, worker, finish, cancel, final manifest | HTTP handlers, the deadline and the controller's exit interleave | at most one worker at a time, never more slots than allowed, no worker survives cancellation |
| Relay and receipts (`relay.go`, `claude_admission.go`, `stream_ids.go`, `receipts.go`, `dispatch_receipts.go`) | admission counters, one metadata file per request, provider ledger | admit, refuse, forward, observe ids, reconcile | concurrent handlers, streams cut anywhere, failing metadata writes | coverage is called complete only if every forwarded request has its receipt |
| Effort (`effort.go`, `coordinator.go`, `analyze.go`, `bridge.go`) | transcript, effort records, import lock | measure, import, report | a transcript that grows and is resumed, concurrent and repeated imports, a killed import | no token of a session is attributed twice, no two windows overlap |
| Command line, plugins, scripts | none | parse, package | none | not modelled |

## Modules

```
AttemptStates            states of an attempt, transitionAllowed
  AttemptLifecycle       abstract: what composition promises of one attempt
  ComposeJournal         the journal directory, its lock, its transactions' pieces
    ComposeDispatch      dispatch processes, children, cancel, crashes, operator
      ComposeReview      the same with review processes
        MCReview         TLC instance
      ComposeDispatchProofs  theorems
        ComposeReviewProofs  theorems about dispatchers and reviewers together
      MCDispatch         TLC instance
Relay                    the provider relay of a Claude run, and reconcile
  RelayProofs            theorems
  MCRelay                TLC instance
KaziSupervisor           the parent of a kazi-claude trial, its bridges and workers
  KaziProofs             theorems
  MCKazi                 TLC instance
NativeRun                a native run, its result, and profile
  NativeProofs           theorems
  MCNative               TLC instance
EvalAttempt              the attempts at a task: worktree, worker, verifier, record
  EvalDelivery           the same with reviews, landings and the report
    EvalProofs           theorems
    MCEvaluation         TLC instance
EffortImport             windows of a transcript, their import and their totals
  EffortProofs           theorems
  MCEffort               TLC instance
SetLemmas                lemmas on Min, Max and sums, for the proofs
```

The relay shares no state with composition (a delegate may be a `fanisi eval`,
but composition sees it only as a child that ends), so the two are not composed.
Neither are the supervisor and the relay: every worker has a relay of its own, and
all they have in common is the number of requests that the worker's slot reserves
(`Share`), which is the `Limit` of its relay. The worker of an evaluation is whichever
arm the study has: a native run, a Claude run behind a relay or a Kazi trial.
`EvalAttempt` grades what it leaves in the worktree whatever it was, and so does the
code, so a worker is any change of the worktree there.

**ComposeJournal.** One variable per kind of file: `frozen` (`budget.json`),
`reservations`, `request`, `idem`, `events`, `result`, `cancelFile`, `pre`
(`snapshots/pre.json`), and `jlock` for the lock directory. A record is `None`
until its file exists. `Lock`/`Unlock` are `Journal.lock` and its closure;
`FreezeBudget` and `BudgetAdmits` are `reserveBudget`; `AppendEvent` is
`appendEvent` with its check of the transition table; `Observed` is
`composeObservedAttemptState`. A request is an opaque element of `Requests` with
fields given by constant functions, so the payload digest is the request itself,
and requests that share an attempt id or a key and differ are just elements.

**ComposeDispatch.** `pc[d]` walks through `dispatchComposition`; one action is
the code between two points where another process can intervene or fail it:

| pc | action | code |
|---|---|---|
| idle | `Invoke` | call, validation, journal lock |
| lookup | `Replay`, `RefuseDeadline`, `ReserveBudget` | idempotency lookup, deadline gates, `reserveBudget` |
| reserve, request, bind, dispatched, running | `PersistReservation`, `PersistRequest`, `BindKey`, `RecordDispatched`, `RecordRunning` | one record each; the last one unlocks |
| lease | `ClaimLease` | `claimWorkspace` of the product workspace |
| preflight, snapshot | `Preflight`, `WriteSnapshot` | clean-tree gates, `pre.json` in its own transaction |
| spawn, delegate, exited | `SpawnDelegate`, `DelegateReturns`, `CheckCanceled` | `runDelegate`, first look at the cancel file |
| integrity1 | `CheckBeforeVerifier` | `composeCheckIntegrity` "before verifier", exit code |
| verify, verifying, vexited | `StartVerifier`, `VerifierReturns`, `RecheckCanceled` | `composeRunIndependentVerifier`, second look |
| integrity2, lastCheck | `CheckAfterVerifier`, `LastCheck` | integrity "after verifier", third look |
| finalize, record, publish, release | `LockForResult`, `RecordResult`, `PublishResult`, `ReleaseLease` | `composeFinalizeAttempt`, deferred lease release |

Every early return is a disjunct: `Abort` unlocks and leaves the earlier records,
`Finalize` fixes the verdict. `Created` is the outcome of `composeWriteNewJSON`
once the file exists: the directory sync may still fail, and then the caller sees
an error although the record is there. `Cancel` is `requestCompositionCancel`,
`WatchCancel` the polling goroutine, `Deadline` the attempt context. The
environment is explicit: `ChildWrites` (a live child, delegate or verifier, changes
the write paths), `ChildTampers` (it changes something else that a check covers),
`OrphanExits`, `Edit` (a program outside Fanisi does either, at any time),
`CleanWorkspace`, `Crash`, `RemoveStaleJournalLock`, `RemoveStaleLease`.

A workspace is the content of its write paths (`cand`) and whether everything
else an integrity check covers is undisturbed (`intact`). `executed`, `judged`,
`rewritten` and `slipped` are history variables: no action reads them. The last two
are the exceptions of the properties about verdicts, and what the code cannot
notice: an attempt whose write paths changed while its own verifier ran, and a
workspace that a program outside disturbed behind a check that had passed.

**ComposeReview.** `BeginReview` takes the lock and looks at the attempt,
`RecheckEvidence` compares the workspace, `AppendReview` appends the event.
Refused calls change nothing and are left out.

**AttemptLifecycle** is the abstract specification: an attempt moves along the
transition table, is executed at most once and only while recorded as running
without a verdict, gets at most one verdict, becomes final only by publishing it,
and is accepted only from a verified one. `RefinesLifecycle` maps the recorded
state, `executed` and the results onto it.

**Relay.** Each HTTP request is a handler `h`; `pc[h]` is between two points where
another handler can intervene, a write can fail or the process can end:

| pc | action | code |
|---|---|---|
| idle | `Refuse`, `Admit` | checks of the request, `requestAdmission.refuse` and `admit` under their mutex |
| admitted | `DrawNumber` | the atomic sequence number |
| numbered | `WriteRecord` | the first `relay-request-<n>.json`, before anything is forwarded |
| recorded, forwarded | `Forward`, `TransportError`, `Headers` | the reverse proxy with its `ErrorHandler` and `ModifyResponse` |
| streaming | `Start`, `Restart`, `Stop`, `Unreadable`, `TooMany`, `End` | `generationStream.capture`, by what a frame does to the record |

The process is `relay`: `Finish` is `requestAdmission.finish` after Claude ended,
`CloseServer` the server's close (handlers in flight go on), `Exit` and `Kill` end
it wherever the handlers are. `Reconcile` then reads what is left: the files, the
saved evidence (`stored`, which lags behind `admitted` when a save fails), Claude's
terminal record and its log. Both are chosen when Claude ends and the log is read
only here, and a process that has ended has no handlers and no memory left
(`ProcessEnds`). The provider may give one identity to several responses. A frame
reaches Claude before its record is written, so the log can
name a generation no file holds. `GenerationIDs`, `AdmissionCovers`, `RecordCovers`
and `LedgerComplete` are the decisions of `reconcile`; any lookup may fail.

The receipt of a request and its admission are one step: what comes between
touches nothing shared. Counters of refusals are left out, since no decision
reads them, but a refusal still saves the evidence, and so repairs an earlier
failed save. `forwarded`, `heard` and `lost` are history variables.

**KaziSupervisor.** Three kinds of processes. A bridge (`fanisi eval-bridge`) has a
place `pc[b]`:

| pc | action | code |
|---|---|---|
| idle | `AskSlot` | the controller starts it; `/start` is sent |
| starting | `Leave` | refused, answer lost, or timeout |
| admitted | `Launch` | `executeClaude` starts the worker, `/worker` is sent |
| admitted, registering, working | `EndDispatch`, `BridgeDies` | the worker's group is killed, `/finish` is sent; or the bridge is killed first |
| finishing | `Leave` | answered, or failed |

A request is an element of `inbox` from the moment it is sent. It is handled at any
later time, also when its bridge has left, or never: that is a lost request, and
a bridge that leaves before its request is handled is a lost answer or a client
timeout. Each handler is one critical section of the mutex, and each of its
outcomes an action: `/start` is `RefuseStart`, `AuditFails`, `ReserveFails` and
`Admit`; `/worker` is `RefuseWorker` and `RegisterWorker`; `/finish` is
`FinishSlot` and `RefuseFinish`. `runKazi` is `phase`: running, ended (the
controller's process is over), final (the last section holds the mutex), unlocked,
closed, and then the grader's decision in `evalRun`, graded or failed. Its
goroutine is `watcher`: watching, authority (it wants the mutex), grace, over.
`saved`, `onDisk` and `published` are the two JSON files and the digest of the
second; a failing write leaves the old file, a torn one or the new one.

Workers are named by their bridge, and `alive` holds those whose process group
lives, registered or not. Whether a workspace passes an audit is left open.

**NativeRun.** One process, in a workspace it has claimed (the claim is
`ClaimLease`). `pc` walks through `runWithClient` and `Harness.execute`:

| pc | action | code |
|---|---|---|
| start | `Prepare`, `PrepareFails` | packet, initial hashes |
| loop | `LimitReached`, `Call` | the limits, the two files of a request |
| sent | `Unanswered`, `Answer` | `Harness.complete`, identity, usage, checks of the reply |
| tool | `Look`, `Edit`, `StartCommand` | `Harness.execute`, by what a tool does to files and verification |
| command | `CommandExits`, `CommandKilled` | `runCommandWithEnv` |
| snapshot | `TakeSnapshot` | hashes after a passed verify command, `verified-files.json` |
| judge | `Judge` | the check after a batch |
| return | `WriteResult` | the deferred function |

A request is admitted at its estimate, its messages and the output it may have
(`Estimate`); nothing in the code compares the reply with it, so the provider reports
and charges up to `MaxOverrun` more, also for a request it never answers (`Charges`,
`Charged`). `overrun` is what the last request cost beyond its estimate. Metrics that cannot be written, a
wrong model or endpoint, a truncated answer and clashing tool identities are one
disjunct of `Answer`: they end the run after its usage was counted. `prose` is a
reply without tool calls, after which the controller runs the verifier itself.
`Usable`, `ProfileTotal` and `ProfileComplete` are what `profile` computes from the
files of a run that ended in any way. `judged`, `final` and `slipped` are history
variables: what the last verify command saw, what was accepted, and whether a
program outside wrote in between.

**EvalAttempt.** `stage[a]` walks through `evalRun`: new, prepare, worker, check,
verify, verifying, compare, inputs, audit, patch, status, record, done. A worktree
is what the write paths hold (`candidate`), whether the rest of the tree is as the
inventory says (`tree`), and whether the protected inputs have their hashes
(`inputs`); worker, verifier and programs outside (`Meddle`) may change all three.
`Check`, `Compare`, `CheckInputs` and `Audit` are the looks at it, each in a step of
its own, with `GradeFails` for a look that cannot be taken. `memory` is the `Attempt`
that `evalRun` fills in; `WriteRecord` is the deferred function that writes it.
A repair (`Parent`) starts from its parent's patch. `history` says what really
happened to the candidate, and no action reads it.

**EvalDelivery.** A review is a session that looks at the worktree in three steps,
is stamped with the time that names its file, and is written: `BeginReview`,
`AuditWorktree`, `CompareCandidate`, `HashInputs`, `Stamp`, `WriteReview`. An import
checks a landing record (`Lands`, or `Revokes`) and then creates its file
(`WriteLanding`). `MoveBranch` is the target branch outside Fanisi. A report lists
the attempts, tallies each (`Tally`), then reads each one's reviews (`ReadReviews`)
and after them its landings (`ReadLandings`), and verifies once more those that count
(`VerifyCounted`); a file it cannot read, or a counted landing that does not verify
any more, fails the whole report. `floor` and `revoked` remember what was on file
when it began, `spoiled` whose patch was not the recorded one then, and `landed` what
was on the branch at any time since; no action reads these. Of a review, `changed` is
what was written to the worktree behind its look at that very aspect.

**EffortImport.** `Observe` appends the cumulative counter of a session, which starts
again from 0 when the session is resumed. `Measure` is `coordinatorUsage`: the last
observation before the window and the last one within it. `TakeLock`, `Refuse`,
`Compare`, `Write` and `Leave` are `importEffortSource` under its lock directory.
`Attributed` is what a report adds up for a source. `spent` is what was really used.

## Runs

All composition instances have one workspace that everybody competes for, and the parents'
budgets are reachable: in `admission` the two requests of one parent exceed it in
number alone, those of the other in USD alone. Requests and attempt ids are
not symmetric, because they clash in different fields; dispatchers, and
reviewers, are.

| Run | Instance | Question |
|---|---|---|
| `admission` | 2 dispatchers, 4 requests: with each of two, another payload of its parent that has its key and the attempt id of the other; 1 crash, failing writes, delegates that write | Exclusion, budgets, accounting, single execution, one writer, verdicts about what was judged, records never rewritten |
| `review` | 1 dispatcher, 2 attempts in one workspace, 1 reviewer, every fault: 1 crash, failing writes, exhausted lock waits, tampering children, an editor while evidence is compared | A verified verdict rests on checks that still stand; events and reviews stay in step with the journal and the workspace; only matching evidence is accepted; refinement |
| `liveness` | 2 dispatchers, 2 requests, tampering children, 1 edit; no crash, failed write or exhausted wait | Every running attempt concludes; a cancel during the delegate ends blocked, also when the delegate exits before the watcher polls |
| `relay` | 2 handlers, 2 generations, 2 identities per response, also repeated in another; no allowance, one of 1, one of 2; every write may fail, the process may be killed | Allowance, one record per forwarded request, records only grow, complete ledgers are complete |
| `kazi` | 2 bridges; 1 slot or 2, 5 turns and 3 requests to share out, 2 states of the artifacts; every write may fail, the deadline passes at any step | One worker at a time, shares, what cancellation stops, only settled dispatches are graded, the trial returns |
| `native` | 2 calls, 10 tokens, replies up to 1 token over their estimate, batches of 2 tools, 2 states of the files, 1 edit from outside; every write may fail, a kill at any step | What is accepted was verified last, only the last reply can exceed the budget, complete totals are the provider's, the run returns |
| `evaluation` | an attempt and its repair, 3 contents, 1 reviewer, 1 importer, 2 landing records, 2 reviews, 1 move of the branch; 1 failing write or kill, 1 write from outside | Verified, accepted and delivered refer to what was judged; nothing overtaken, off the branch or with a spoiled patch is counted; files are only added |
| `effort` | 2 importers, 1 session of 4 observations, 3 identities | No token is attributed twice |
| `kazi_orphan` | the instance of `kazi` | A statement of the documentation that the code does not keep (below) |
| `cancel_race`, `lock_timeout`, `verifier_rewrites` | 2 dispatchers, 2 requests | Three statements of the documentation that the code does not keep (below) |

Why the bounds are enough: a key or attempt-id clash needs two requests, a
request that clashes with both needs three, and a fourth gives both parents two
requests; a lock or lease conflict needs two
processes; an orphan needs one crash and a second dispatcher; a stale verdict
needs two contents. A retry is a dispatcher that
calls again, and dispatchers call without bound. `review` does not check for
deadlock: when its only dispatcher has been killed the system may stop. Its editor
is bounded to the moments when a review compares the evidence, wherever the dispatcher
then is with the other attempt, and no candidate is rewritten under its verifier
(`EditsMeetReviews`). In `admission` nobody edits, a delegate writes its candidate once,
and no verifier rewrites one (`WrittenOnce`): there `VerifiedMeansJudged` makes its
exception, so nothing it says is cut away, and `verifier_rewrites` shows what the
exception is for. In `liveness` an edit comes behind the last check of an attempt
(`EditsMeetLastCheck`). The theorems below allow edits and rewriting at all times.

In `relay`, numbers, files and the allowance are contended by two handlers; with
allowance 1 the second is refused, with 2 both pass, without one the admission is
absent. A second generation lets a response announce another after its stop, and
two identities per response reach `TooMany`. Two handlers and two identities also
let both responses name the same one. It does not check for deadlock: once
the process has exited without a generation to reconcile nothing is left to do.

In `kazi` two bridges contend for one slot, or take the two that a trial may have
at most, and one bridge's late request meets the other's slot. Neither total
divides evenly by two, so a remainder is at stake. Two artifact states tell a
changed file from an unchanged one. A trial ends with the grader's decision, so
deadlock is not checked; that it gets there is `Returns`. `GradedIsSettled` makes
one exception, which is what the code does: when the last write of the manifest
fails, `runKazi` returns before refused launches are counted, and the result may
be graded although a launch was refused.

In `native` ten tokens make the token limit end some runs and the call limit others;
one token over the estimate tells a budget exceeded by the last reply from one
exceeded before; two tools in a batch are needed to edit after a verification, or to fail after one.
Deadlock is checked.

`evaluation` starts from three states that evaluations come to (`MCInit` in
`MCEvaluation`): an attempt is to be evaluated; the repair of a
rejected attempt is; a report begins on an attempt that was accepted and landed, was
perhaps rejected or revoked since, and whose worktree was used again, whose patch was
perhaps replaced and whose merge perhaps left the branch. From `Init` alone,
with these bounds, the runs to a report that counts something are out of reach.
Three contents tell the base, a candidate and an edit apart; two landing records are
a landing and its revocation. It does not check for deadlock, since attempts,
reviews and moves are bounded. A torn file and `None` are outside every set of data.

In `effort` three identities let two importers race while one retries; four
observations give two adjacent windows with their baselines. Counters go to 2 and
times to 4. One source is enough because nothing relates two.

### What the code does differently from its documentation

* `verifier_rewrites`: a verifier that rewrites the write paths while it runs (or a
  program outside that does) verifies what it wrote last. The hashes taken after the run
  replace those taken before (`compose_delegate.go:154`) and only the protected ones are
  compared, although docs/plan.md:82 has candidate checks repeated after verification.
  `VerifiedMeansJudged` is what remains: nothing else changes what was judged.
* `cancel_race`: a cancel accepted after the third look at the cancel file and
  before the result is recorded is followed by `verified_pending_review`.
* `lock_timeout`: when `composeFinalizeAttempt` cannot get the journal lock within
  its retry budget, the verdict is returned but never recorded; the attempt stays
  `running` with nobody working on it.
* `kazi_orphan`: a worker whose registration waits for the mutex while the last
  section runs is registered afterwards, and nobody kills it: the parent returns
  while it lives. The trial is not graded (`GradedIsSettled`), and after the
  deadline such a worker is killed (`AuthorityEnds`).

Two more differences have no run of their own. `CoverageSound` excepts a
generation whose record could not be written after an earlier stop of the same
response (`stream_ids.go:91`): nothing says so afterwards. And `coordinatorUsage` skips
an observation after the end of the window before it compares its time with its
predecessor's (`coordinator.go:84`, `Seen` in `EffortImport`), so a transcript in which
such an observation precedes one inside the window yields a receipt, although
docs/evaluation.md:171 has out-of-order observations fail. `NoDoubleAttribution` holds as
long as the clock of a session is not set back.

### Fairness

Of the composition, `LiveSpec` assumes, of a dispatcher that is not killed: its own code goes on
(weak fairness of `LocalStep`); its polling of a lock that comes free again and
again succeeds (strong fairness of the two lock waits: the retry every 20 ms within
the budget, and exhausting the budget is switched off in this run); its deadline
passes and its watcher polls; and a process group killed with SIGKILL goes away.
Nothing is assumed of delegates and verifiers that are not killed, of the callers
of dispatch and cancel, or of operators.

`LiveSpec` of the supervisor assumes only that the parent's own code goes on and
that its timers fire: the deadline and the five seconds after it. The controller may
hang, and requests, bridges and workers may do nothing for ever. Weak fairness is
enough for the goroutine that waits for the mutex, because only the last section
keeps it for more than a step, once.

`Spec` of the native run assumes that the controller's own code goes on, that a request
ends (the client gives up after six minutes: `Unanswered`), and that a command is
killed by its timeout (`CommandKilled`). A provider may never answer and a command
may never exit.

## Proofs

`ComposeDispatchProofs` proves for any number of dispatchers, requests, attempts, parents, keys and workspaces, and with crashes,
failing writes, lock timeouts, tampering, edits and stale-lock removal allowed:

1. `TypeCorrect`: `Spec => []TypeOK`. Beyond types it says that a dispatcher has
   a request exactly while it is in a call and a final verdict while it finalizes,
   which later steps need to know what `Attempt(d)` is.
2. `Exclusion`: `[]JournalExclusive`, inductive with `TypeOK`.
3. `RecordsKept`: `JournalAppendOnly`, action by action.
4. `OwnershipHolds`: the invariant `Ownership`. `OneWriterPerWorkspace` is not
   inductive: it needs that a child belongs to the request of the lease holder who
   waits for it or was killed (`ChildrenOwned`), which needs that executing
   dispatchers hold their lease (`LeaseHeld`), that the dispatcher which wrote an
   attempt's request is the only one to go on with it (`OwnRequest`, `OneOwner`;
   from `O_EXCL` and exclusion), and that it has not executed it before it spawns
   (`FirstExecution`). `SingleWriter` and `SingleExecution` follow.
5. `AccountedHolds`: what a dispatcher past each admission step has in the journal
   (`Accounted`), from which `ExecutionAccounted`.
6. `BudgetRespected`: `[]AttemptsWithinBudget`, from `BudgetHeld` (the check still
   stands when the reservation is written, because of exclusion) and the
   cardinality of a set with one element more; `USDRespected`: `[]USDWithinBudget`,
   the same with the sum over that set (`SumAdd` of `SetLemmas`).

`ComposeReviewProofs` proves the following of `System`, the dispatchers with any number
of review processes beside them, for the same constants and the same faults and also
for reviewers that are killed. Its inductive invariant `SystemInv` is the type
invariant and exclusion of all processes, what the dispatchers keep (`Records`) and
what the reviewers keep (`ReviewKept`). A reviewer changes no dispatcher, lease or
workspace (`ReviewerLeaves`) and appends at most one event, so most of `Records` is
proved once, for the dispatchers' steps.

* `EventsChained`: `[]EventChain`. Each writer hard-codes the state its event leaves. That
  it is the state the last event entered needs `Stages`: how far the record of an
  attempt is at each place of its one owner (`Staged`), and what its request, result and
  events say together (`Told`). An attempt somebody finalizes is still `running`,
  because only its owner could have concluded it and a review needs a result.
* `VerdictStaysIntact`: `[]VerdictIntact`, and `VerifierStartsIntact`: `VerifierInputsIntact`.
  `VerdictIntact` is not inductive: the look that found the workspace undisturbed came
  earlier, under the lease. `TrustHeld` says that a dispatcher between the look and what
  rests on it still has lease and workspace as they were, unless an editor outside
  disturbed it since the look; `Ownership` says whose children could have disturbed it.
* `ReviewsAreSound`: `[]ReviewSound`, from `ReviewUnderWay` (what a reviewer read when it
  took the lock is still so when it appends, because no result is written without the
  lock), `EvidenceKept` and `AcceptedRechecked`.
* `DispatchKept`: single writer, journaled execution and both budgets hold of `System` too.
* `HistoryKept`: `System => JournalAppendOnly /\ ExecutedOnce`, from the step lemmas `NextKeeps`
  and `NextSpawns` of `ComposeDispatchProofs` and from `ReviewerGrows`: a review adds at most
  one event.
* `LifecycleRefined`: `System => RefinesLifecycle`. The initial states map to the abstract
  initial state, and each step of a dispatcher or reviewer is one abstract step or none
  for every attempt: executing needs `Stages` (recorded as running, no result),
  publishing needs the result that was recorded, an acceptance needs `Told`.
* `VerdictJudged`: `Spec => []VerifiedMeansJudged`, from `AllJudged`: while a verifier runs,
  the write paths are what it was started on unless its attempt is `rewritten`, and from
  its exit to the publication the hashes its dispatcher holds are of what was judged, with
  the same exception. No edit, orphan or operator is excluded.
* `AcceptanceJudged`: `System => [](VerifiedMeansJudged /\ AcceptedMeansJudged)`, where an
  acceptance is about those bytes as well: the evidence check compared the stored content
  with the verified result (`EvidenceKept`), and the result names what was judged.

`RelayProofs` proves for any number of requests and generations and any allowance,
with failing writes and the process killed anywhere:

7. `RelayTypeCorrect`: `Spec => []TypeOK`; in particular that numbers stay within
   the files there can be, because `count` is how many handlers drew one.
8. `RecordsHold`: `NumberInv` and `FileInv`. Numbers are distinct, and `count` is
   how many were drawn; a file belongs to a handler that drew its number, is absent
   until that handler writes it, and equals the record it keeps as long as it
   writes. `EveryForwardedRecorded` and, action by action, `RecordsGrow` follow: a
   rewrite only adds because the handler's own record only grows and nobody else
   has its number.
9. `AllowanceHolds`: `AllowanceRespected`, from `AllowanceInv`: the handlers that
   hold an admission (`Holders`) are no more than `stored`, `stored <= admitted <=
   limit`. `forwarded` alone is not inductive, because a request is admitted steps
   before it is forwarded, and a save that fails lowers nothing.
10. `LedgerSound`: `CoverageSound`, from `LedgerInv` (a ledger exists only after the
   process has exited, when files no longer change) and what `RecordInv` says of a
   finished record: a generation heard is in the file, in a gap, or lost. Nothing is assumed of identities;
   that no two covered requests share one is what `AdmissionCovers` counts. Under an
   allowance the numbering argument is a cardinality argument: as many files as
   were admitted, numbered without a hole.

`KaziProofs` proves for any number of bridges and any totals, one slot or two:

11. `KaziTypeCorrect`: `Spec => []TypeOK`.
12. `DispatchHolds`: the invariant `DispatchInv`. That two workers never run needs to
    look at more than workers: a bridge is busy from the answer to `/start` until its
    worker is dead, also when it was killed meanwhile, and then its slot is the one in
    use (`HeldInv`); no two bridges ever get the same slot (`SlotInv`); no `/finish` of
    a busy bridge is under way, which is why a late or lost request cannot free its
    slot. The slot in use is in the file (`SavedInv`), and only a bridge past its
    launch is registered or about to be (`StoppedInv`). `OneWorkerHolds`,
    `ReservedHolds` and `AuthorityHolds` follow.
13. `KaziAllowanceHolds`: `AllowanceKept`, because each slot holds its share
    (`SharesInv`) and the shares add up to the total.
14. `ResultHolds`: `ArtifactsInv` and `ResultInv`. A result without an integrity error
    was made when no slot was in use, so when nobody was busy, and slots handed out
    afterwards have higher numbers. `GradedHolds` and `GradedArtifactsHolds` follow.

The steps are grouped first (`StepKinds`, `ResultSteps`), so that each invariant is
shown once for all steps that cannot disturb it.

`NativeProofs` proves for all limits, contents and batches:

15. `NativeTypeCorrect`: `Spec => []TypeOK`, with `Busy` (a batch being executed has a
    tool left), which keeps `todo` in its range.
16. `AcceptanceHolds`: `AcceptedIsJudged`, from `VerificationCurrent`: a remembered
    verification is of what the last verify command saw, and none is remembered while
    a command runs. `AcceptedIsJudged` is not inductive because the batch goes on
    after a verification, and the files may change before the acceptance.
17. `BudgetHolds`: `BilledWithinBudget`, from `ChargesKnown`: as long as every call is
    accounted for, the controller's total is the provider's; once one is not, the run
    is on its way out and the last charge is all that can be missing. A reply may cost more
    than its estimate, and then the next request is not admitted. `ResultSound`
    is the half of `UsageAccounted` about result.json; `UsageHolds` is all of it, from
    `ProfileKnown`: what `profile` would count of the responses is always the
    controller's total, and when the provider's differs, the last request is on file
    and its response is not one that counts.

`EvalProofs` proves for any attempts, repairs, contents, reviewers, importers, landing
records and bounds:

18. `EvalTypeCorrect`: `Spec => []TypeOK`, with `Stamped` (a session that writes has its
    time) and `Reading` (claims belong to an attempt).
19. `VerdictHolds` and `LedgerHolds`, from `AttemptInv`. `Graded` says stage by stage what
    is known of the candidate; each exception (a program outside wrote, the candidate
    changed after the verifier started) is a flag of `history`. `Files` says that a
    record is written once, by the deferred function, and is what was in memory.
20. `EvidenceHolds`: `EvidenceSound`, adding `Sights`: each aspect of the worktree a session
    has seen so far is still so, unless that aspect was written to since it was looked at.
21. `DeliveryHolds`: `DeliverySound`, from `Deliveries`: what a report counted was on file,
    backed by an acceptance and merged as judged when it looked, and files and
    judgements of attempts that are over do not change; and, for its part
    `LandedWhenCounted`, from `Present`: the second verification looked at the branch as it was then, and a patch
    that is not the recorded one stays so.
22. `CurrencyHolds`: `CountedIsCurrent`, from `Current`: the latest review never gets older
    (`LatestGrows`), so what the second pass reads is at least what was on file at the
    start, and a revocation on file at the start is on file when landings are read.

`EffortProofs` proves for any number of importers, sessions, observations and records:

23. `EffortTypeCorrect`: a window's observations exist, by `BoundedMax`.
24. `WindowsNeverOverlap`, from `WindowInv`: whoever is past the lock is alone there, and
    what it found free of conflicts still is when it writes. Clocks may be set back.
25. `NothingAttributedTwice`: `[]NoDoubleAttribution`. A receipt says nothing of the
    transcript once that has grown, so the invariant `LedgerInv` asks for a ledger of each
    session, a function from time to tokens that never falls and ends at most at what the
    session spent, which pays for every receipt there is, drafts included, and for
    every one that can still be measured (`Covers`). An observation is booked at its time
    and all later ones (`BookedLedger`, `BookedCovers`); a new receipt is paid for by
    `Covers` (`MeasuredIsPaid`). Windows that do not overlap then cost no more
    together than the ledger's end (`DisjointWindowsSum`, by the least time at
    which that would fail).

`SetLemmas` is what those proofs share: a bounded non-empty set of naturals has its maximum
and its minimum, as `Min` and `Max` are chosen; induction over the naturals and over
subsets of a finite set, stated for the set of those that satisfy the claim; and
`SumOver`, the fold of the community modules with weights from a function: any element
may be taken away first, so the sum does not depend on what `CHOOSE` picks.
The models use no recursion.

Assumptions: `KaziConstants` for the supervisor; `RelayConstants`, `AbsentIsNew` for
the relay; `RequestFields` (requests are finite and have their fields in the
constants' sets; budgets are positive), `NoneIsNew`, `DispatchConstants`,
`ReviewConstants`; `RunConstants` and `NoneIsNoResponse` (an absent file is not a
response), `EvalConstants`, `DeliveryConstants`, `EffortConstants`. TLC
evaluates them in every run.

Only model-checked: liveness (`Concludes`, `CancelEndsBlocked`, and `Returns` of the
supervisor and of the native run), which is out of the prover's reach, as are ENABLED and
theorems that take an operator as a parameter. Every safety invariant and action property
that a passing run checks is also a theorem, without a hypothesis on the behaviours.
The four runs that expect a violation are refutations, and nothing is proved about what
they state.

## Not modelled, and why

* Torn records: a crash inside a write leaves a record absent or complete. A torn
  event file makes every later look at the journal fail.
* `compose status` only reads. Cancel is one step: it is a single record, and its
  refusals change nothing.
* Failure to remove a lock directory on unlock (the code prints a warning or
  ignores it) is not distinguished from a crash.
* `fanisi reconcile` runs after the process of the run has exited, and no other
  reconcile at the same time. A kill between reading a frame and writing its record
  is a kill before the frame was read. `dispatch_receipts.go` sums up finished
  ledgers of several dispatches and reads only; so does the field inspection of
  `prepare`. The call count in a native run's result is not a terminal record.
* Paths, environments, argv resolution, hashing and record syntax.
* Of the supervisor: the setup before the controller starts; error texts and times in
  a dispatch's record; how an audit walks the workspace; the controller's own result;
  process ids that are used again. Of the grader only the decision to go on: whether
  some other protected input has changed is left open.
* Of the native run: the packet, the search and what tools return to the model; costs,
  which follow the tokens; the wall-clock fields of the files.
* Of the evaluation: the artifacts of a controller (`controller_artifacts.go` and the
  exemption of its files from an audit), the ledgers a report adds up and their
  deduplication, costs and durations. A report reads the reviews of an attempt before
  its landings, and a landing accepted in between by a review it has not read is left
  out of that report; `CountedIsCurrent` therefore speaks of what was on file at its
  start. A killed attempt leaves no attempt.json and is not listed, although its
  directory is still there; docs/evaluation.md says that every attempt contributes.
* Of effort accounting: effort that names no source, the syntax of a record, and
  `analyze.go` and `bridge.go`, which only read. One counter stands for four.
* Records, policy, decisions: sequential checks of single records (see the plan).
* The command line, plugins, scripts and examples: no protocol state.

## Plan

Left, most important first:

1. *Decisions*: the finite choice and the policy filter as operators, against a
   reference definition.
2. *Proofs* about what the other items add; that the decision over any finite set of
   candidates is one that passes every hard policy.
3. Torn records, status and the recovery they need.
4. The ledgers a report adds up and their deduplication by provider and generation.
