--------------------------- MODULE KaziSupervisor ---------------------------
(***************************************************************************)
(* The parent of a kazi-claude trial. It starts the Kazi controller, which *)
(* starts bridges (fanisi eval-bridge), each of which asks the parent over *)
(* HTTP for a slot, starts one Claude worker in a process group of its     *)
(* own, registers it and reports its end. The handlers of these requests,  *)
(* a goroutine that ends the authority at the deadline, and the parent's   *)
(* last section all work under one mutex.                                  *)
(*                                                                         *)
(* A worker is named by its bridge. The controller artifacts of the        *)
(* workspace are one of Artifacts; whether an audit accepts the rest of    *)
(* the workspace is left open.                                             *)
(***************************************************************************)
EXTENDS Integers, Sequences, FiniteSets

CONSTANTS
  Bridges,       \* bridge processes the controller may start
  Limits,        \* values of max_dispatches the trial may be configured with
  TotalTurns,    \* turns shared out to the slots
  TotalRequests, \* provider requests shared out, or 0: no admission configured
  Artifacts,     \* states of the controller artifacts
  NoArtifacts,   \* the one without any
  NoOne,         \* no worker registered
  Torn,          \* a file whose last write failed half-way
  Absent         \* no result yet

ASSUME KaziConstants ==
  /\ Limits \subseteq 1..2
  /\ TotalTurns \in Nat /\ TotalRequests \in Nat
  /\ NoArtifacts \in Artifacts
  /\ NoOne \notin Bridges

VARIABLES
  limit,     \* manifest.MaxDispatches
  phase,     \* where runKazi and, after it, the grader are
  watcher,   \* the goroutine that waits for the end of the authority
  expired,   \* the deadline has passed
  cancelled, \* evaluationSupervisor.cancelled
  slots,     \* manifest.Dispatches
  active,    \* the slot in use, or 0
  worker,    \* the worker registered, or NoOne
  refused,   \* manifest.Rejected > 0
  integrity, \* manifest.IntegrityError # ""
  saved,     \* slots in dispatch-manifest.json (0 without a file), or Torn
  artifacts, \* the controller artifacts in the workspace
  published, \* what artifactManifestSHA is the digest of
  onDisk,    \* controller-artifacts.json
  pc,        \* where each bridge is
  slot,      \* the slot a bridge was given, 0 before
  alive,     \* bridges whose worker's process group lives
  inbox,     \* requests sent and not handled
  result     \* what runKazi returned

parent == <<limit, phase, watcher, expired, cancelled>>
manifest == <<slots, active, worker, refused, integrity, saved>>
artifactVars == <<artifacts, published, onDisk>>
bridgeVars == <<pc, slot, alive, inbox>>
others == <<manifest, artifactVars, bridgeVars, result>>
vars == <<parent, others>>

Reservations == [turns : Nat, requests : Nat, artifacts : Artifacts]

Kinds == {"start", "worker", "finish"}

Executions == [integrity : BOOLEAN, refused : BOOLEAN, recorded : BOOLEAN,
               slots : Nat, artifacts : Artifacts, published : Artifacts]

TypeOK ==
  /\ limit \in Limits
  /\ phase \in {"running", "ended", "final", "unlocked", "closed", "graded",
               "failed"}
  /\ watcher \in {"watching", "authority", "grace", "over"}
  /\ expired \in BOOLEAN /\ cancelled \in BOOLEAN
  /\ slots \in Seq(Reservations)
  /\ active \in Nat
  /\ worker \in Bridges \cup {NoOne}
  /\ refused \in BOOLEAN /\ integrity \in BOOLEAN
  /\ saved \in Nat \cup {Torn}
  /\ artifacts \in Artifacts /\ published \in Artifacts
  /\ onDisk \in Artifacts \cup {Torn}
  /\ pc \in [Bridges -> {"idle", "starting", "admitted", "registering",
                        "working", "finishing", "done"}]
  /\ slot \in [Bridges -> Nat]
  /\ alive \subseteq Bridges
  /\ inbox \subseteq Kinds \X Bridges
  /\ result \in Executions \cup {Absent}

(* runKazi has published the empty artifact manifest and started Kazi.     *)
Init ==
  /\ limit \in Limits
  /\ phase = "running" /\ watcher = "watching"
  /\ expired = FALSE /\ cancelled = FALSE
  /\ slots = <<>> /\ active = 0 /\ worker = NoOne
  /\ refused = FALSE /\ integrity = FALSE
  /\ saved = 0
  /\ artifacts \in Artifacts
  /\ published = NoArtifacts /\ onDisk = NoArtifacts
  /\ pc = [b \in Bridges |-> "idle"]
  /\ slot = [b \in Bridges |-> 0]
  /\ alive = {} /\ inbox = {}
  /\ result = Absent

(* The parent's last section holds the mutex for more than a step.         *)
Free == phase # "final"
ServerOpen == phase \in {"running", "ended", "final", "unlocked"}

(* A write that fails leaves the old file, a torn one or the new one.      *)
Failed(old, new) == {old, new, Torn}

-----------------------------------------------------------------------------
(* Bridges and their workers.                                              *)

Goto(b, place) == pc' = [pc EXCEPT ![b] = place]

(* A request reaches the inbox while the server is open.                   *)
Send(kind, b) == inbox' = IF ServerOpen THEN inbox \cup {<<kind, b>>} ELSE inbox

(* The controller starts a bridge, which asks for a slot. It may outlive   *)
(* the controller.                                                         *)
AskSlot(b) ==
  /\ pc[b] = "idle" /\ ServerOpen
  /\ Goto(b, "starting")
  /\ Send("start", b)
  /\ UNCHANGED <<parent, manifest, artifactVars, slot, alive, result>>

(* executeClaude starts the worker unless the deadline has passed, and     *)
(* registers it.                                                           *)
Launch(b) ==
  /\ pc[b] = "admitted" /\ ~expired
  /\ Goto(b, "registering")
  /\ alive' = alive \cup {b}
  /\ Send("worker", b)
  /\ UNCHANGED <<parent, manifest, artifactVars, slot, result>>

(* The end of an admitted bridge: without a worker, with a worker whose    *)
(* registration failed, or after its work. The worker's group is killed,   *)
(* and then the slot is given back.                                        *)
EndDispatch(b) ==
  /\ pc[b] \in {"admitted", "registering", "working"}
  /\ Goto(b, "finishing")
  /\ alive' = alive \ {b}
  /\ Send("finish", b)
  /\ UNCHANGED <<parent, manifest, artifactVars, slot, result>>

(* A bridge leaves when /start is refused or fails and when /finish has    *)
(* been answered or has failed, or when it is killed. A lost answer and a  *)
(* timeout look the same, and the request may still be handled. A request  *)
(* that is lost is one that is never handled.                              *)
Leave(b) ==
  /\ pc[b] \in {"starting", "finishing"}
  /\ Goto(b, "done")
  /\ UNCHANGED <<parent, manifest, artifactVars, slot, alive, inbox, result>>

(* A bridge killed by the controller, or with it: its worker has a group   *)
(* of its own.                                                             *)
BridgeDies(b) ==
  /\ pc[b] \in {"admitted", "registering", "working"}
  /\ Goto(b, "done")
  /\ UNCHANGED <<parent, manifest, artifactVars, slot, alive, inbox, result>>

WorkerExits(b) ==
  /\ b \in alive
  /\ alive' = alive \ {b}
  /\ UNCHANGED <<parent, manifest, artifactVars, pc, slot, inbox, result>>

(* The controller writes its artifacts; a worker may change them and the   *)
(* artifact manifest.                                                      *)
ControllerWrites(a) ==
  /\ phase = "running"
  /\ artifacts' = a
  /\ UNCHANGED <<parent, manifest, published, onDisk, bridgeVars, result>>

WorkerTampers(a) ==
  /\ alive # {}
  /\ \/ artifacts' = a /\ UNCHANGED onDisk
     \/ onDisk' = Torn /\ UNCHANGED artifacts
  /\ UNCHANGED <<parent, manifest, published, bridgeVars, result>>

-----------------------------------------------------------------------------
(* The handlers, each in one critical section. They go on with a request   *)
(* they have received when the server is closed meanwhile.                 *)

Handle(kind, b) ==
  /\ Free
  /\ <<kind, b>> \in inbox
  /\ inbox' = inbox \ {<<kind, b>>}

(* Seeded fault: a slot in use does not stop another.                      *)
AdmissibleTwice ==
  /\ ~cancelled /\ ~expired /\ ~integrity
  /\ Len(slots) < limit

Admissible ==
  /\ ~cancelled /\ ~expired /\ ~integrity
  /\ active = 0
  /\ Len(slots) < limit

(* After cancellation a refusal is not counted; a bridge that cannot do    *)
(* request admission is refused before anything else is looked at.         *)
RefuseStart(b) ==
  /\ Handle("start", b)
  /\ \/ TotalRequests # 0 /\ refused' = TRUE
     \/ cancelled /\ UNCHANGED refused
     \/ ~cancelled /\ ~Admissible /\ refused' = TRUE
  /\ UNCHANGED <<parent, slots, active, worker, integrity, saved, artifactVars,
                 pc, slot, alive, result>>

(* The artifacts are not acceptable, cannot be published, or the workspace *)
(* fails its audit once they are.                                          *)
AuditFails(b) ==
  /\ Handle("start", b) /\ Admissible
  /\ refused' = TRUE
  /\ \/ integrity' = TRUE /\ UNCHANGED <<published, onDisk>>
     \/ onDisk' \in Failed(onDisk, artifacts)
        /\ UNCHANGED <<published, integrity>>
     \/ integrity' = TRUE /\ published' = artifacts /\ onDisk' = artifacts
  /\ UNCHANGED <<parent, slots, active, worker, saved, artifacts, pc, slot,
                 alive, result>>

(* Seeded fault: every slot gets the remainder.                            *)
GenerousShare(total, n) == (total \div limit) + (total % limit)

Share(total, n) ==
  (total \div limit) + IF n = limit THEN total % limit ELSE 0

(* The slot is taken before anything else that can fail.                   *)
Reserve(b) ==
  /\ Handle("start", b) /\ Admissible
  /\ published' = artifacts /\ onDisk' = artifacts
  /\ slots' = Append(slots, [turns |-> Share(TotalTurns, Len(slots) + 1),
                             requests |-> Share(TotalRequests, Len(slots) + 1),
                             artifacts |-> artifacts])
  /\ UNCHANGED <<parent, worker, refused, integrity, artifacts, alive, result>>

(* Neither directory nor manifest: nobody gets the slot.                   *)
ReserveFails(b) ==
  /\ Reserve(b)
  /\ saved' \in {saved} \cup Failed(saved, Len(slots'))
  /\ UNCHANGED <<active, pc, slot>>

(* Seeded fault: the answer does not wait for the manifest.                *)
SaveLater == saved' \in {saved, Len(slots')}

Save == saved' = Len(slots')

(* A bridge that has left does not get the answer, and the slot stays in   *)
(* use.                                                                    *)
Admit(b) ==
  /\ Reserve(b)
  /\ Save
  /\ active' = Len(slots')
  /\ IF pc[b] = "starting"
     THEN Goto(b, "admitted") /\ slot' = [slot EXCEPT ![b] = active']
     ELSE UNCHANGED <<pc, slot>>

Registrable(b) == active # 0 /\ slot[b] = active /\ worker = NoOne

(* Seeded fault: a worker that comes too late is not refused.              *)
RegistersLate(b) == Registrable(b)

Registers(b) == Registrable(b) /\ ~cancelled

(* A worker is also refused when its group cannot be inspected.            *)
RefuseWorker(b) ==
  /\ Handle("worker", b)
  /\ \/ ~(Registrable(b) /\ cancelled) /\ UNCHANGED alive
     \/ Registrable(b) /\ cancelled /\ alive' = alive \ {b}
  /\ UNCHANGED <<parent, manifest, artifactVars, pc, slot, result>>

RegisterWorker(b) ==
  /\ Handle("worker", b)
  /\ Registers(b)
  /\ worker' = b
  /\ pc' = [pc EXCEPT ![b] = IF @ = "registering" THEN "working" ELSE @]
  /\ UNCHANGED <<parent, slots, active, refused, integrity, saved, artifactVars,
                 slot, alive, result>>

(* The slot's artifacts and the artifact manifest are compared with what   *)
(* they were at its start; the bridge sees an error if they differ or the  *)
(* manifest cannot be saved.                                               *)
FinishSlot(b) ==
  /\ Handle("finish", b)
  /\ slot[b] >= 1 /\ slot[b] = active
  /\ active' = 0 /\ worker' = NoOne
  /\ \E acceptable \in BOOLEAN :
       integrity' = \/ integrity
                    \/ ~acceptable
                    \/ onDisk # published
                    \/ artifacts # slots[active].artifacts
  /\ saved' \in Failed(saved, Len(slots))
  /\ UNCHANGED <<parent, slots, refused, artifactVars, pc, slot, alive, result>>

RefuseFinish(b) ==
  /\ Handle("finish", b)
  /\ slot[b] < 1 \/ slot[b] # active
  /\ UNCHANGED <<parent, manifest, artifactVars, pc, slot, alive, result>>

-----------------------------------------------------------------------------
(* The end of the authority, and of the trial.                             *)

Expire ==
  /\ ~expired
  /\ expired' = TRUE
  /\ UNCHANGED <<limit, phase, watcher, cancelled, others>>

(* The deadline, or a cancellation by the caller.                          *)
StopAuthority ==
  /\ watcher = "watching"
  /\ watcher' = "authority"
  /\ UNCHANGED <<limit, phase, expired, cancelled, others>>

CancelWork ==
  /\ Free /\ watcher = "authority"
  /\ watcher' = "grace"
  /\ cancelled' = TRUE
  /\ alive' = alive \ {worker}
  /\ UNCHANGED <<limit, phase, expired, manifest, artifactVars, pc, slot, inbox,
                 result>>

(* Five seconds later the controller is killed, if it still runs.          *)
GraceEnds ==
  /\ watcher = "grace"
  /\ watcher' = "over"
  /\ phase' = IF phase = "running" THEN "ended" ELSE phase
  /\ UNCHANGED <<limit, expired, cancelled, others>>

ControllerEnds ==
  /\ phase = "running"
  /\ phase' = "ended"
  /\ UNCHANGED <<limit, watcher, expired, cancelled, others>>

(* Seeded fault: an unfinished dispatch is overlooked.                     *)
Overlooked == FALSE

Unfinished == active # 0

(* Seeded fault: the artifacts are taken from the file.                    *)
ArtifactsFromDisk == onDisk

LastArtifacts ==
  IF slots = <<>> THEN NoArtifacts ELSE slots[Len(slots)].artifacts

(* Refused launches count against the result only after the manifest has   *)
(* been written.                                                           *)
FinalSection ==
  /\ phase = "ended" /\ phase' = "final"
  /\ alive' = alive \ {worker}
  /\ integrity' = (integrity \/ Unfinished)
  /\ \E recorded \in BOOLEAN :
       /\ IF recorded THEN saved' = Len(slots)
                      ELSE saved' \in Failed(saved, Len(slots))
       /\ result' = [integrity |-> integrity' \/ (recorded /\ refused),
                     refused |-> refused, recorded |-> recorded,
                     slots |-> Len(slots), published |-> published,
                     artifacts |-> LastArtifacts]
  /\ UNCHANGED <<limit, watcher, expired, cancelled, slots, active, worker,
                 refused, artifactVars, pc, slot, inbox>>

(* Seeded fault: the goroutine is awaited before the mutex is released.    *)
UnlockLast ==
  /\ phase = "final" /\ watcher = "over"
  /\ phase' = "unlocked"
  /\ UNCHANGED <<limit, watcher, expired, cancelled, others>>

(* The mutex is released first of the deferred calls; then the goroutine   *)
(* is told to stop, and awaited.                                           *)
Unlock ==
  /\ phase = "final"
  /\ phase' = "unlocked"
  /\ UNCHANGED <<limit, watcher, expired, cancelled, others>>

WatcherStops ==
  /\ phase = "unlocked" /\ watcher \in {"watching", "grace"}
  /\ watcher' = "over"
  /\ UNCHANGED <<limit, phase, expired, cancelled, others>>

CloseServer ==
  /\ phase = "unlocked" /\ watcher = "over"
  /\ phase' = "closed"
  /\ UNCHANGED <<limit, watcher, expired, cancelled, others>>

(* Seeded fault: the grader takes the artifact manifest as it finds it.    *)
ManifestTrusted == TRUE

ManifestIntact == onDisk = result.published

(* evalRun goes on to audit and verify the candidate, or fails: also when  *)
(* some other protected input has changed.                                 *)
Grade ==
  /\ phase = "closed"
  /\ \/ ~result.integrity /\ ManifestIntact /\ phase' = "graded"
     \/ phase' = "failed"
  /\ UNCHANGED <<limit, watcher, expired, cancelled, others>>

-----------------------------------------------------------------------------
Bridge(b) ==
  \/ AskSlot(b) \/ Launch(b) \/ EndDispatch(b) \/ Leave(b)
  \/ BridgeDies(b) \/ WorkerExits(b)

Handler(b) ==
  \/ RefuseStart(b) \/ AuditFails(b) \/ ReserveFails(b) \/ Admit(b)
  \/ RefuseWorker(b) \/ RegisterWorker(b)
  \/ FinishSlot(b) \/ RefuseFinish(b)

Parent ==
  \/ Expire \/ StopAuthority \/ CancelWork \/ GraceEnds \/ ControllerEnds
  \/ FinalSection \/ Unlock \/ WatcherStops \/ CloseServer \/ Grade

(* The model ends where the grader goes on or gives up.                    *)
Decided == phase \in {"graded", "failed"}

Steps ==
  \/ \E b \in Bridges : Bridge(b) \/ Handler(b)
  \/ \E a \in Artifacts : ControllerWrites(a) \/ WorkerTampers(a)
  \/ Parent

Next == ~Decided /\ Steps

Spec == Init /\ [][Next]_vars

(* The parent's own code goes on, and its timers fire. Nothing is assumed  *)
(* of the controller, bridges, workers and requests.                       *)
Fairness ==
  /\ WF_vars(expired /\ StopAuthority)
  /\ WF_vars(CancelWork)
  /\ WF_vars(GraceEnds)
  /\ WF_vars(FinalSection)
  /\ WF_vars(Unlock)
  /\ WF_vars(WatcherStops)
  /\ WF_vars(CloseServer)
  /\ WF_vars(Grade)

LiveSpec == Spec /\ Fairness

-----------------------------------------------------------------------------
(* At no time do two workers run, registered or not, whatever requests are *)
(* lost, late or handled after their bridge has died.                      *)
OneWorker == \A b, c \in alive : b = c

Reserved(n) ==
  IF n <= Len(slots) THEN slots[n] ELSE [turns |-> 0, requests |-> 0]

(* Slots are never refunded, so failed and lost dispatches count: together *)
(* they reserve no more than the one direct session gets.                  *)
AllowanceKept ==
  /\ Len(slots) <= limit
  /\ Reserved(1).turns + Reserved(2).turns <= TotalTurns
  /\ Reserved(1).requests + Reserved(2).requests <= TotalRequests

(* The slot of a worker is in dispatch-manifest.json before it is started, *)
(* unless a later write tore that file.                                    *)
ReservedBeforeLaunch ==
  \A b \in alive : slot[b] >= 1 /\ (saved = Torn \/ slot[b] <= saved)

(* Once the authority has ended no registered worker lives, also one that  *)
(* registers afterwards, and no slot is taken.                             *)
AuthorityEnds ==
  [][/\ cancelled' => worker' \notin alive'
     /\ cancelled => slots' = slots]_vars

(* A result that is graded comes from dispatches all over: none of their   *)
(* workers lives or will be started. No launch was refused, unless the     *)
(* refusal was lost with a failed write of the manifest.                   *)
GradedIsSettled == phase = "graded" =>
  /\ \A b \in Bridges : slot[b] \in 1..result.slots =>
       b \notin alive /\ pc[b] \notin {"admitted", "registering", "working"}
  /\ result.recorded => ~result.refused

(* The grader's artifact manifest is that of the last slot in the result.  *)
GradedArtifacts ==
  [][phase' = "graded" /\ phase # "graded" => onDisk = result.artifacts]_vars

(* When the deadline has passed the trial ends, whoever holds the mutex    *)
(* and whatever the controller, its bridges and workers do.                *)
Returns == expired ~> Decided

(* docs/evaluation.md:274-275: the parent kills active worker groups on    *)
(* controller termination. The code breaks this when a registration waits  *)
(* for the mutex while the last section runs.                              *)
NoWorkerOutlivesParent == phase = "closed" => worker \notin alive

=============================================================================
