----------------------------- MODULE KaziProofs -----------------------------
(***************************************************************************)
(* The Kazi supervisor for any number of bridges and either number of      *)
(* slots: its types, the one worker, its allowance, what cancellation      *)
(* stops, and what a graded result comes from.                             *)
(***************************************************************************)
EXTENDS KaziSupervisor, TLAPS

LEMMA ShareType ==
  ASSUME limit \in Limits, NEW total \in Nat, NEW n \in Nat
  PROVE  Share(total, n) \in Nat
<1>1. CASE limit = 1
  BY <1>1 DEF Share
<1>2. CASE limit = 2
  BY <1>2 DEF Share
<1> QED
  BY <1>1, <1>2, KaziConstants

(* A handler's step that takes a slot.                                     *)
LEMMA ReserveType ==
  ASSUME TypeOK, NEW b \in Bridges, Reserve(b)
  PROVE  /\ slots' \in Seq(Reservations)
         /\ Len(slots') = Len(slots) + 1
         /\ Len(slots') \in Nat
         /\ slots'[Len(slots')].artifacts = artifacts
<1> DEFINE r == [turns |-> Share(TotalTurns, Len(slots) + 1),
                 requests |-> Share(TotalRequests, Len(slots) + 1),
                 artifacts |-> artifacts]
<1>1. r \in Reservations
  <2>1. Len(slots) + 1 \in Nat /\ artifacts \in Artifacts /\ limit \in Limits
    BY DEF TypeOK
  <2> QED
    BY <2>1, ShareType, KaziConstants DEF Reservations
<1>2. slots' = Append(slots, r) /\ slots \in Seq(Reservations)
  BY DEF Reserve, TypeOK
<1>3. r.artifacts = artifacts
  OBVIOUS
<1> HIDE DEF r
<1>4. /\ slots' \in Seq(Reservations) /\ Len(slots') = Len(slots) + 1
      /\ Len(slots) \in Nat /\ slots'[Len(slots) + 1] = r
  BY <1>1, <1>2
<1> QED
  BY <1>3, <1>4

LEMMA LastArtifactsType ==
  ASSUME TypeOK
  PROVE  LastArtifacts \in Artifacts
<1>1. slots # <<>> => slots[Len(slots)] \in Reservations
  BY DEF TypeOK
<1> QED
  BY <1>1, KaziConstants DEF LastArtifacts, Reservations

(* Every variable of the supervisor, its bridges and workers keeps its     *)
(* type.                                                                   *)
THEOREM KaziTypeCorrect == Spec => []TypeOK
<1>1. Init => TypeOK
  <2> SUFFICES ASSUME Init PROVE TypeOK
    OBVIOUS
  <2>1. slots \in Seq(Reservations)
    BY DEF Init
  <2> QED
    BY <2>1, KaziConstants DEF Init, TypeOK
<1>2. TypeOK /\ [Next]_vars => TypeOK'
  <2> SUFFICES ASSUME TypeOK, [Next]_vars PROVE TypeOK'
    OBVIOUS
  <2> USE DEF parent, manifest, artifactVars, bridgeVars, others
  <2>1. ASSUME NEW b \in Bridges, Bridge(b) PROVE TypeOK'
    <3> USE DEF Goto, Send, Kinds
    <3>1. CASE AskSlot(b)
      BY <3>1 DEF AskSlot, TypeOK
    <3>2. CASE Launch(b)
      BY <3>2 DEF Launch, TypeOK
    <3>3. CASE EndDispatch(b)
      BY <3>3 DEF EndDispatch, TypeOK
    <3>4. CASE Leave(b)
      BY <3>4 DEF Leave, TypeOK
    <3>5. CASE BridgeDies(b)
      BY <3>5 DEF BridgeDies, TypeOK
    <3>6. CASE WorkerExits(b)
      BY <3>6 DEF WorkerExits, TypeOK
    <3> QED
      BY <2>1, <3>1, <3>2, <3>3, <3>4, <3>5, <3>6 DEF Bridge
  <2>2. ASSUME NEW b \in Bridges, Handler(b) PROVE TypeOK'
    <3> USE DEF Handle, Failed
    <3>1. CASE RefuseStart(b)
      <4>1. refused' \in BOOLEAN
        BY <3>1 DEF RefuseStart, TypeOK
      <4> QED
        BY <3>1, <4>1 DEF RefuseStart, TypeOK
    <3>2. CASE AuditFails(b)
      <4>1. refused' \in BOOLEAN /\ integrity' \in BOOLEAN
        BY <3>2 DEF AuditFails, TypeOK
      <4>2. published' \in Artifacts /\ onDisk' \in Artifacts \cup {Torn}
        BY <3>2 DEF AuditFails, TypeOK
      <4> QED
        BY <3>2, <4>1, <4>2 DEF AuditFails, TypeOK
    <3>3. CASE ReserveFails(b)
      <4>1. Reserve(b)
        BY <3>3 DEF ReserveFails
      <4> QED
        BY <3>3, <4>1, ReserveType DEF ReserveFails, Reserve, TypeOK
    <3>4. CASE Admit(b)
      <4>1. Reserve(b)
        BY <3>4 DEF Admit
      <4>2. active' \in Nat /\ saved' \in Nat
        BY <3>4, <4>1, ReserveType DEF Admit, Save
      <4>3. /\ pc' \in [Bridges -> {"idle", "starting", "admitted", "registering",
                                    "working", "finishing", "done"}]
            /\ slot' \in [Bridges -> Nat]
        BY <3>4, <4>2 DEF Admit, Goto, TypeOK
      <4>4. slots' \in Seq(Reservations)
        BY <4>1, ReserveType
      <4>5. inbox' \subseteq Kinds \X Bridges
        BY <4>1 DEF Reserve, TypeOK
      <4> QED
        BY <4>1, <4>2, <4>3, <4>4, <4>5 DEF Reserve, TypeOK
    <3>5. CASE RefuseWorker(b)
      BY <3>5 DEF RefuseWorker, TypeOK
    <3>6. CASE RegisterWorker(b)
      BY <3>6 DEF RegisterWorker, TypeOK
    <3>7. CASE FinishSlot(b)
      BY <3>7 DEF FinishSlot, TypeOK
    <3>8. CASE RefuseFinish(b)
      BY <3>8 DEF RefuseFinish, TypeOK
    <3> QED
      BY <2>2, <3>1, <3>2, <3>3, <3>4, <3>5, <3>6, <3>7, <3>8 DEF Handler
  <2>3. ASSUME NEW a \in Artifacts, ControllerWrites(a) \/ WorkerTampers(a)
        PROVE  TypeOK'
    BY <2>3 DEF ControllerWrites, WorkerTampers, TypeOK
  <2>4. CASE Parent
    <3>1. CASE FinalSection
      <4>1. LastArtifacts \in Artifacts
        BY LastArtifactsType
      <4>2. /\ Len(slots) \in Nat
            /\ alive' \subseteq Bridges
            /\ saved' \in Nat \cup {Torn}
        BY <3>1 DEF FinalSection, Failed, TypeOK
      <4>3. integrity' \in BOOLEAN
        BY <3>1 DEF FinalSection
      <4>4. result' \in Executions
        BY <3>1, <4>1, <4>2 DEF FinalSection, Executions, TypeOK
      <4> QED
        BY <3>1, <4>2, <4>3, <4>4 DEF FinalSection, TypeOK
    <3>2. CASE Expire \/ StopAuthority \/ CancelWork \/ GraceEnds \/ ControllerEnds
      BY <3>2 DEF Expire, StopAuthority, CancelWork, GraceEnds, ControllerEnds, TypeOK
    <3>3. CASE Unlock \/ WatcherStops \/ CloseServer \/ Grade
      BY <3>3 DEF Unlock, WatcherStops, CloseServer, Grade, TypeOK
    <3> QED
      BY <2>4, <3>1, <3>2, <3>3 DEF Parent
  <2>5. CASE UNCHANGED vars
    BY <2>5 DEF vars, TypeOK
  <2> QED
    BY <2>1, <2>2, <2>3, <2>4, <2>5 DEF Next, Steps
<1> QED
  BY <1>1, <1>2, PTL DEF Spec

-----------------------------------------------------------------------------
(* A bridge that has a slot to use: it will start a worker, waits for one, *)
(* or has left one behind.                                                 *)
Busy(b) == b \in alive \/ pc[b] \in {"admitted", "registering", "working"}

(* Slots are handed out once, and the one in use is that of whoever is     *)
(* busy, for which no /finish is under way.                                *)
SlotInv ==
  /\ active <= Len(slots)
  /\ \A b \in Bridges : slot[b] <= Len(slots)
  /\ \A b, c \in Bridges : b # c /\ slot[b] # 0 => slot[b] # slot[c]

HeldInv == \A b \in Bridges :
  /\ Busy(b) => active # 0 /\ slot[b] = active
  /\ Busy(b) \/ pc[b] \in {"idle", "starting"} => <<"finish", b>> \notin inbox

SavedInv == saved = Torn \/ active <= saved

StoppedInv ==
  /\ cancelled => worker \notin alive
  /\ \A b \in Bridges : worker = b \/ <<"worker", b>> \in inbox =>
       pc[b] \notin {"idle", "starting", "admitted"}

DispatchInv == SlotInv /\ HeldInv /\ SavedInv /\ StoppedInv

(* A step that gives nothing to any bridge.                                *)
Calm ==
  /\ UNCHANGED <<limit, slots, active, worker, pc, slot>>
  /\ alive' \subseteq alive
  /\ inbox' \subseteq inbox
  /\ saved' \in {saved, Torn, Len(slots)}
  /\ cancelled' => cancelled \/ worker \notin alive'

(* The other steps, each by a bridge or for one.                           *)
Moves(b) ==
  \/ AskSlot(b) \/ Launch(b) \/ EndDispatch(b) \/ Leave(b) \/ BridgeDies(b)
  \/ ReserveFails(b) \/ Admit(b) \/ RegisterWorker(b) \/ FinishSlot(b)

LEMMA StepKinds ==
  ASSUME [Next]_vars
  PROVE  Calm \/ \E b \in Bridges : Moves(b)
<1> USE DEF parent, manifest, artifactVars, bridgeVars, others, Calm
<1>1. ASSUME NEW b \in Bridges, Bridge(b) PROVE Calm \/ Moves(b)
  BY <1>1 DEF Bridge, WorkerExits, Moves
<1>2. ASSUME NEW b \in Bridges, Handler(b) PROVE Calm \/ Moves(b)
  BY <1>2 DEF Handler, Moves, Handle, RefuseStart, AuditFails, RefuseWorker, RefuseFinish
<1>3. ASSUME NEW a \in Artifacts, ControllerWrites(a) \/ WorkerTampers(a) PROVE Calm
  BY <1>3 DEF ControllerWrites, WorkerTampers
<1>4. CASE Parent
  <2>1. CASE FinalSection
    BY <2>1 DEF FinalSection, Failed
  <2>2. CASE Expire \/ StopAuthority \/ CancelWork \/ GraceEnds \/ ControllerEnds
    BY <2>2 DEF Expire, StopAuthority, CancelWork, GraceEnds, ControllerEnds
  <2>3. CASE Unlock \/ WatcherStops \/ CloseServer \/ Grade
    BY <2>3 DEF Unlock, WatcherStops, CloseServer, Grade
  <2> QED
    BY <1>4, <2>1, <2>2, <2>3 DEF Parent
<1>5. CASE UNCHANGED vars
  BY <1>5 DEF vars
<1> QED
  BY <1>1, <1>2, <1>3, <1>4, <1>5 DEF Next, Steps

LEMMA DispatchInductive ==
  ASSUME TypeOK, TypeOK', DispatchInv, [Next]_vars
  PROVE  DispatchInv'
<1> USE DEF DispatchInv
<1>1. CASE Calm
  <2>1. SlotInv'
    BY <1>1 DEF Calm, SlotInv
  <2>2. HeldInv'
    BY <1>1 DEF Calm, HeldInv, Busy
  <2>3. SavedInv'
    BY <1>1 DEF Calm, SavedInv, SlotInv
  <2>4. StoppedInv'
    BY <1>1 DEF Calm, StoppedInv
  <2> QED
    BY <2>1, <2>2, <2>3, <2>4
<1>2. ASSUME NEW b \in Bridges, Moves(b) PROVE DispatchInv'
  <2> USE DEF parent, manifest, artifactVars, bridgeVars, Goto, Send
  <2>1. CASE AskSlot(b) \/ Leave(b) \/ BridgeDies(b)
    <3>1. /\ UNCHANGED <<slots, active, worker, slot, alive, saved, cancelled>>
          /\ inbox' \subseteq inbox \cup {<<"start", b>>}
          /\ pc' \in {[pc EXCEPT ![b] = "starting"], [pc EXCEPT ![b] = "done"]}
          /\ pc[b] = "idle" \/ pc'[b] = "done"
      BY <2>1 DEF AskSlot, Leave, BridgeDies, TypeOK
    <3>2. SlotInv' /\ SavedInv'
      BY <3>1 DEF SlotInv, SavedInv
    <3>3. HeldInv'
      BY <3>1 DEF HeldInv, Busy, TypeOK
    <3>4. StoppedInv'
      BY <3>1 DEF StoppedInv, TypeOK
    <3> QED
      BY <3>2, <3>3, <3>4
  <2>2. CASE Launch(b)
    <3>1. SlotInv' /\ SavedInv'
      BY <2>2 DEF Launch, SlotInv, SavedInv
    <3>2. HeldInv'
      BY <2>2 DEF Launch, HeldInv, Busy, TypeOK
    <3>3. StoppedInv'
      BY <2>2 DEF Launch, StoppedInv, TypeOK
    <3> QED
      BY <3>1, <3>2, <3>3
  <2>3. CASE EndDispatch(b)
    <3>1. SlotInv' /\ SavedInv'
      BY <2>3 DEF EndDispatch, SlotInv, SavedInv
    <3>2. HeldInv'
      BY <2>3 DEF EndDispatch, HeldInv, Busy, TypeOK
    <3>3. StoppedInv'
      BY <2>3 DEF EndDispatch, StoppedInv, TypeOK
    <3> QED
      BY <3>1, <3>2, <3>3
  <2>4. CASE ReserveFails(b)
    <3>1. /\ Reserve(b) /\ Len(slots') = Len(slots) + 1 /\ Len(slots) \in Nat
          /\ active = 0
      BY <2>4, ReserveType DEF ReserveFails, Reserve, Admissible, TypeOK
    <3>2. SlotInv'
      BY <2>4, <3>1 DEF ReserveFails, Reserve, SlotInv, TypeOK
    <3>3. HeldInv' /\ StoppedInv'
      BY <2>4, <3>1 DEF ReserveFails, Reserve, Handle, HeldInv, Busy, StoppedInv
    <3>4. SavedInv'
      BY <2>4, <3>1 DEF ReserveFails, SavedInv, Failed, TypeOK
    <3> QED
      BY <3>2, <3>3, <3>4
  <2>5. CASE Admit(b)
    <3>1. /\ Reserve(b) /\ Len(slots') = Len(slots) + 1 /\ Len(slots) \in Nat
          /\ active = 0 /\ active' = Len(slots) + 1
      BY <2>5, ReserveType DEF Admit, Reserve, Admissible, TypeOK
    <3>2. \/ /\ pc[b] = "starting"
             /\ pc' = [pc EXCEPT ![b] = "admitted"]
             /\ slot' = [slot EXCEPT ![b] = Len(slots) + 1]
          \/ UNCHANGED <<pc, slot>>
      BY <2>5, <3>1 DEF Admit
    <3>3. SlotInv'
      <4>1. active' <= Len(slots')
        BY <3>1
      <4>2. \A c \in Bridges : /\ slot[c] \in Nat /\ slot[c] <= Len(slots)
                                /\ slot'[c] \in {slot[c], Len(slots) + 1}
        BY <3>2 DEF SlotInv, TypeOK
      <4>3. ASSUME NEW c \in Bridges PROVE slot'[c] <= Len(slots')
        <5>1. CASE slot'[c] = slot[c]
          BY <3>1, <4>2, <5>1
        <5>2. CASE slot'[c] = Len(slots) + 1
          BY <3>1, <5>2
        <5> QED
          BY <4>2, <5>1, <5>2
      <4>4. \A c, d \in Bridges : c # d /\ slot'[c] # 0 => slot'[c] # slot'[d]
        <5>1. CASE UNCHANGED slot
          BY <5>1 DEF SlotInv
        <5>2. CASE slot' = [slot EXCEPT ![b] = Len(slots) + 1]
          <6>1. \A c \in Bridges : slot[c] \in Nat /\ slot[c] # Len(slots) + 1
            BY <3>1, <4>2 DEF TypeOK
          <6>2. /\ slot'[b] = Len(slots) + 1
                /\ \A c \in Bridges : c # b => slot'[c] = slot[c]
            BY <5>2 DEF TypeOK
          <6> QED
            BY <6>1, <6>2 DEF SlotInv
        <5> QED
          BY <3>2, <5>1, <5>2
      <4> QED
        BY <4>1, <4>3, <4>4 DEF SlotInv
    <3>4. \A c \in Bridges : ~Busy(c)
      BY <3>1 DEF HeldInv
    <3>5. alive' = alive /\ inbox' \subseteq inbox
      BY <3>1 DEF Reserve, Handle
    <3>6. HeldInv'
      <4>1. ASSUME NEW c \in Bridges, Busy(c)'
            PROVE  c = b /\ pc[b] = "starting" /\ slot'[b] = active' /\ active' # 0
        BY <3>1, <3>2, <3>4, <3>5, <4>1 DEF Busy, TypeOK
      <4>2. ASSUME NEW c \in Bridges, pc'[c] \in {"idle", "starting"}
            PROVE  pc[c] \in {"idle", "starting"}
        BY <3>2, <4>2 DEF TypeOK
      <4> QED
        BY <3>5, <4>1, <4>2 DEF HeldInv
    <3>7. SavedInv'
      BY <2>5, <3>1 DEF Admit, Save, SavedInv
    <3>8. StoppedInv'
      BY <3>1, <3>2, <3>5 DEF Reserve, Admissible, StoppedInv, TypeOK
    <3> QED
      BY <3>3, <3>6, <3>7, <3>8
  <2>6. CASE RegisterWorker(b)
    <3>1. SlotInv' /\ SavedInv'
      BY <2>6 DEF RegisterWorker, SlotInv, SavedInv
    <3>2. HeldInv'
      BY <2>6 DEF RegisterWorker, Handle, HeldInv, Busy, TypeOK
    <3>3. StoppedInv'
      BY <2>6 DEF RegisterWorker, Registers, Handle, StoppedInv, TypeOK
    <3> QED
      BY <3>1, <3>2, <3>3
  <2>7. CASE FinishSlot(b)
    <3>1. \A c \in Bridges : ~Busy(c)
      BY <2>7 DEF FinishSlot, Handle, HeldInv, SlotInv, TypeOK
    <3>2. SlotInv' /\ HeldInv'
      BY <2>7, <3>1 DEF FinishSlot, Handle, SlotInv, HeldInv, Busy, TypeOK
    <3>3. SavedInv'
      BY <2>7 DEF FinishSlot, Failed, SavedInv, TypeOK
    <3>4. StoppedInv'
      BY <2>7, KaziConstants DEF FinishSlot, Handle, StoppedInv, TypeOK
    <3> QED
      BY <3>2, <3>3, <3>4
  <2> QED
    BY <1>2, <2>1, <2>2, <2>3, <2>4, <2>5, <2>6, <2>7 DEF Moves
<1> QED
  BY <1>1, <1>2, StepKinds

(* What slots, bridges, workers and requests have to do with one another.  *)
THEOREM DispatchHolds == Spec => []DispatchInv
<1>1. Init => DispatchInv
  BY KaziConstants DEF Init, DispatchInv, SlotInv, HeldInv, Busy, SavedInv, StoppedInv
<1>2. TypeOK /\ TypeOK' /\ DispatchInv /\ [Next]_vars => DispatchInv'
  BY DispatchInductive
<1> QED
  BY <1>1, <1>2, KaziTypeCorrect, PTL DEF Spec

(* No two workers run at a time (start, finish and /worker under the mutex *)
(* of evaluationSupervisor).                                               *)
THEOREM OneWorkerHolds == Spec => []OneWorker
<1>1. TypeOK /\ DispatchInv => OneWorker
  <2> SUFFICES ASSUME TypeOK, DispatchInv, NEW b \in alive, NEW c \in alive
               PROVE  b = c
    BY DEF OneWorker
  <2> QED
    BY DEF DispatchInv, SlotInv, HeldInv, Busy, TypeOK
<1> QED
  BY <1>1, KaziTypeCorrect, DispatchHolds, PTL

(* dispatch-manifest.json has a worker's slot before the worker starts.    *)
THEOREM ReservedHolds == Spec => []ReservedBeforeLaunch
<1>1. TypeOK /\ DispatchInv => ReservedBeforeLaunch
  <2> SUFFICES ASSUME TypeOK, DispatchInv, NEW b \in alive
               PROVE  slot[b] >= 1 /\ (saved = Torn \/ slot[b] <= saved)
    BY DEF ReservedBeforeLaunch
  <2>1. b \in Bridges /\ Busy(b) /\ slot[b] \in Nat
    BY DEF DispatchInv, HeldInv, Busy, TypeOK
  <2>2. slot[b] = active /\ active # 0
    BY <2>1 DEF DispatchInv, HeldInv
  <2> QED
    BY <2>1, <2>2 DEF DispatchInv, SavedInv
<1> QED
  BY <1>1, KaziTypeCorrect, DispatchHolds, PTL

(* Cancellation stops every registered worker, now and later, and admits   *)
(* nobody.                                                                 *)
THEOREM AuthorityHolds == Spec => AuthorityEnds
<1>1. ASSUME [Next]_vars, cancelled PROVE slots' = slots
  <2>1. CASE Calm
    BY <2>1 DEF Calm
  <2>2. ASSUME NEW b \in Bridges, Moves(b) PROVE slots' = slots
    <3>1. ~ReserveFails(b) /\ ~Admit(b)
      BY <1>1 DEF ReserveFails, Admit, Reserve, Admissible
    <3> QED
      BY <2>2, <3>1 DEF Moves, AskSlot, Launch, EndDispatch, Leave, BridgeDies,
         RegisterWorker, FinishSlot, manifest
  <2> QED
    BY <1>1, <2>1, <2>2, StepKinds
<1>2. DispatchInv' /\ [Next]_vars =>
        [/\ cancelled' => worker' \notin alive'
         /\ cancelled => slots' = slots]_vars
  BY <1>1 DEF DispatchInv, StoppedInv
<1> QED
  BY <1>2, DispatchHolds, PTL DEF Spec, AuthorityEnds

-----------------------------------------------------------------------------
(* Each slot holds its share.                                              *)
SharesInv ==
  /\ Len(slots) <= limit
  /\ \A n \in 1..Len(slots) : /\ slots[n].turns = Share(TotalTurns, n)
                              /\ slots[n].requests = Share(TotalRequests, n)

LEMMA SharesSum ==
  ASSUME limit \in Limits, NEW total \in Nat
  PROVE  /\ limit = 1 => Share(total, 1) = total
         /\ limit = 2 => Share(total, 1) + Share(total, 2) = total
         /\ Share(total, 1) \in Nat /\ Share(total, 1) <= total
<1>1. CASE limit = 1
  BY <1>1 DEF Share
<1>2. CASE limit = 2
  BY <1>2 DEF Share
<1> QED
  BY <1>1, <1>2, KaziConstants

(* The dispatches of one trial reserve no more slots, turns and provider   *)
(* requests than it has (evaluationSupervisor.start).                      *)
THEOREM KaziAllowanceHolds == Spec => []AllowanceKept
<1>1. Init => SharesInv
  <2> SUFFICES ASSUME Init PROVE SharesInv
    OBVIOUS
  <2>1. limit \in {1, 2} /\ Len(slots) = 0
    BY KaziConstants DEF Init
  <2> QED
    BY <2>1 DEF SharesInv
<1>2. TypeOK /\ SharesInv /\ [Next]_vars => SharesInv'
  <2> SUFFICES ASSUME TypeOK, SharesInv, [Next]_vars PROVE SharesInv'
    OBVIOUS
  <2>1. CASE UNCHANGED <<limit, slots>>
    BY <2>1 DEF SharesInv, Share
  <2>2. ASSUME NEW b \in Bridges, Reserve(b) PROVE SharesInv'
    <3> DEFINE r == [turns |-> Share(TotalTurns, Len(slots) + 1),
                     requests |-> Share(TotalRequests, Len(slots) + 1),
                     artifacts |-> artifacts]
    <3>1. /\ slots' = Append(slots, r) /\ slots \in Seq(Reservations)
          /\ Len(slots) < limit /\ limit' = limit /\ limit \in Nat
      BY <2>2, KaziConstants DEF Reserve, Admissible, parent, TypeOK
    <3>2. /\ r.turns = Share(TotalTurns, Len(slots) + 1)
          /\ r.requests = Share(TotalRequests, Len(slots) + 1)
      OBVIOUS
    <3> HIDE DEF r
    <3>3. /\ Len(slots') = Len(slots) + 1 /\ Len(slots) \in Nat
          /\ slots'[Len(slots) + 1] = r
          /\ \A n \in 1..Len(slots) : slots'[n] = slots[n]
      BY <3>1
    <3>4. \A n \in 1..Len(slots') : n \in 1..Len(slots) \/ n = Len(slots) + 1
      BY <3>3
    <3>5. \A t, n : Share(t, n)' = Share(t, n)
      BY <3>1 DEF Share
    <3> QED
      BY <3>1, <3>2, <3>3, <3>4, <3>5 DEF SharesInv
  <2>3. ASSUME NEW b \in Bridges, Moves(b)
        PROVE  UNCHANGED <<limit, slots>> \/ Reserve(b)
    BY <2>3 DEF Moves, AskSlot, Launch, EndDispatch, Leave, BridgeDies, ReserveFails,
       Admit, RegisterWorker, FinishSlot, parent, manifest
  <2> QED
    BY <2>1, <2>2, <2>3, StepKinds DEF Calm
<1>3. TypeOK /\ SharesInv => AllowanceKept
  <2> SUFFICES ASSUME TypeOK, SharesInv PROVE AllowanceKept
    OBVIOUS
  <2>1. /\ limit \in Limits /\ limit \in {1, 2} /\ Len(slots) \in Nat
        /\ TotalTurns \in Nat /\ TotalRequests \in Nat
    BY KaziConstants DEF TypeOK
  <2>2. CASE Len(slots) = 0
    BY <2>1, <2>2 DEF AllowanceKept, Reserved
  <2>3. CASE Len(slots) = 1
    <3>1. /\ slots[1].turns = Share(TotalTurns, 1)
          /\ slots[1].requests = Share(TotalRequests, 1)
      BY <2>3 DEF SharesInv
    <3>2. /\ Reserved(1).turns = Share(TotalTurns, 1) /\ Reserved(2).turns = 0
          /\ Reserved(1).requests = Share(TotalRequests, 1) /\ Reserved(2).requests = 0
      BY <2>3, <3>1 DEF Reserved
    <3> QED
      BY <2>1, <2>3, <3>2, SharesSum DEF AllowanceKept, SharesInv
  <2>4. CASE Len(slots) = 2
    <3>1. limit = 2
      BY <2>1, <2>4 DEF SharesInv
    <3>2. /\ slots[1].turns = Share(TotalTurns, 1)
          /\ slots[1].requests = Share(TotalRequests, 1)
          /\ slots[2].turns = Share(TotalTurns, 2)
          /\ slots[2].requests = Share(TotalRequests, 2)
      BY <2>4 DEF SharesInv
    <3>3. /\ Reserved(1).turns + Reserved(2).turns = TotalTurns
          /\ Reserved(1).requests + Reserved(2).requests = TotalRequests
      BY <2>1, <2>4, <3>1, <3>2, SharesSum DEF Reserved
    <3> QED
      BY <2>1, <2>4, <3>1, <3>3 DEF AllowanceKept
  <2>5. Len(slots) = 0 \/ Len(slots) = 1 \/ Len(slots) = 2
    <3>1. Len(slots) \in Nat /\ Len(slots) <= limit
      BY <2>1 DEF SharesInv
    <3>2. limit = 1 \/ limit = 2
      BY <2>1
    <3>3. \A n \in Nat : n <= 1 \/ n <= 2 => n = 0 \/ n = 1 \/ n = 2
      OBVIOUS
    <3> QED
      BY <3>1, <3>2, <3>3
  <2> QED
    BY <2>2, <2>3, <2>4, <2>5
<1> QED
  BY <1>1, <1>2, <1>3, KaziTypeCorrect, PTL DEF Spec

-----------------------------------------------------------------------------
(* Unless something is wrong, the manifest published is that of the last   *)
(* slot.                                                                   *)
ArtifactsInv == integrity \/ published = LastArtifacts

(* Until the last section, nothing; then that the result tells the truth   *)
(* if it reports no integrity error, and goes on doing so.                 *)
ResultInv ==
  /\ phase \notin {"running", "ended"} =>
       /\ result \in Executions /\ result.slots <= Len(slots)
       /\ ~result.integrity =>
            /\ \A b \in Bridges : slot[b] \in 1..result.slots => ~Busy(b)
            /\ result.published = result.artifacts
            /\ result.recorded => ~result.refused
  /\ phase = "graded" => ~result.integrity

(* What a step does to the artifacts and the result.                       *)
LEMMA ResultSteps ==
  ASSUME [Next]_vars
  PROVE  /\ \/ \E b \in Bridges : Reserve(b)
            \/ /\ UNCHANGED slots
               /\ integrity => integrity'
               /\ integrity' \/ published' = published
         /\ FinalSection \/ UNCHANGED result
         /\ \/ FinalSection
            \/ phase \in {"running", "ended"} /\ phase' \in {"running", "ended"}
            \/ phase \notin {"running", "ended"} /\ phase' \notin {"running", "ended"}
         /\ phase' = "graded" => (Grade /\ ~result.integrity) \/ phase = "graded"
<1> USE DEF parent, manifest, artifactVars, bridgeVars, others
<1>1. ASSUME NEW b \in Bridges, Bridge(b)
      PROVE  UNCHANGED <<slots, integrity, published, result, phase>>
  BY <1>1 DEF Bridge, AskSlot, Launch, EndDispatch, Leave, BridgeDies, WorkerExits
<1>2. ASSUME NEW b \in Bridges, Handler(b)
      PROVE  /\ UNCHANGED <<result, phase>>
             /\ \/ Reserve(b)
                \/ /\ UNCHANGED slots
                   /\ integrity => integrity'
                   /\ integrity' \/ published' = published
  <2>1. CASE AuditFails(b)
    BY <2>1 DEF AuditFails
  <2>2. CASE ReserveFails(b) \/ Admit(b)
    BY <2>2 DEF ReserveFails, Admit, Reserve
  <2>3. CASE FinishSlot(b)
    BY <2>3 DEF FinishSlot
  <2>4. CASE RefuseStart(b) \/ RefuseWorker(b) \/ RegisterWorker(b) \/ RefuseFinish(b)
    BY <2>4 DEF RefuseStart, RefuseWorker, RegisterWorker, RefuseFinish
  <2> QED
    BY <1>2, <2>1, <2>2, <2>3, <2>4 DEF Handler
<1>3. ASSUME NEW a \in Artifacts, ControllerWrites(a) \/ WorkerTampers(a)
      PROVE  UNCHANGED <<slots, integrity, published, result, phase>>
  BY <1>3 DEF ControllerWrites, WorkerTampers
<1>4. CASE FinalSection
  BY <1>4 DEF FinalSection
<1>5. CASE Expire \/ StopAuthority \/ CancelWork \/ GraceEnds \/ ControllerEnds
  BY <1>5 DEF Expire, StopAuthority, CancelWork, GraceEnds, ControllerEnds
<1>6. CASE Unlock \/ WatcherStops \/ CloseServer \/ Grade
  BY <1>6 DEF Unlock, WatcherStops, CloseServer, Grade
<1>7. CASE UNCHANGED vars
  BY <1>7 DEF vars
<1>8. CASE ~Decided /\ Steps
  BY <1>1, <1>2, <1>3, <1>4, <1>5, <1>6, <1>8 DEF Steps, Parent, Decided
<1> QED
  BY <1>7, <1>8 DEF Next

LEMMA ArtifactsInductive ==
  ASSUME TypeOK, ArtifactsInv, [Next]_vars
  PROVE  ArtifactsInv'
<1>1. ASSUME NEW b \in Bridges, Reserve(b) PROVE ArtifactsInv'
  <2>1. slots' # <<>> /\ slots'[Len(slots')].artifacts = artifacts
    BY <1>1, ReserveType
  <2> QED
    BY <1>1, <2>1 DEF Reserve, ArtifactsInv, LastArtifacts
<1>2. ASSUME UNCHANGED slots, integrity => integrity',
             integrity' \/ published' = published
      PROVE  ArtifactsInv'
  BY <1>2 DEF ArtifactsInv, LastArtifacts
<1> QED
  BY <1>1, <1>2, ResultSteps

(* A bridge gets busy with a slot nobody had.                              *)
LEMMA BusySteps ==
  ASSUME TypeOK, [Next]_vars, NEW c \in Bridges, Busy(c)'
  PROVE  (Busy(c) /\ slot'[c] = slot[c]) \/ slot'[c] = Len(slots) + 1
<1>1. CASE Calm
  BY <1>1 DEF Calm, Busy
<1>2. ASSUME NEW b \in Bridges, Moves(b)
      PROVE  (Busy(c) /\ slot'[c] = slot[c]) \/ slot'[c] = Len(slots) + 1
  <2> USE DEF parent, manifest, artifactVars, bridgeVars, Goto, Send
  <2>1. CASE AskSlot(b) \/ Launch(b) \/ EndDispatch(b) \/ Leave(b) \/ BridgeDies(b)
    BY <2>1 DEF AskSlot, Launch, EndDispatch, Leave, BridgeDies, Busy, TypeOK
  <2>2. CASE ReserveFails(b)
    BY <2>2 DEF ReserveFails, Reserve, Busy
  <2>3. CASE Admit(b)
    <3>1. active' = Len(slots) + 1 /\ alive' = alive
      BY <2>3, ReserveType DEF Admit, Reserve
    <3> QED
      BY <2>3, <3>1 DEF Admit, Busy, TypeOK
  <2>4. CASE RegisterWorker(b) \/ FinishSlot(b)
    BY <2>4 DEF RegisterWorker, FinishSlot, Busy, TypeOK
  <2> QED
    BY <1>2, <2>1, <2>2, <2>3, <2>4 DEF Moves
<1> QED
  BY <1>1, <1>2, StepKinds

LEMMA ResultInductive ==
  ASSUME TypeOK, TypeOK', DispatchInv, ArtifactsInv, ResultInv, [Next]_vars
  PROVE  ResultInv'
<1>1. Len(slots) \in Nat /\ Len(slots') \in Nat /\ Len(slots) <= Len(slots')
  <2>1. ASSUME NEW b \in Bridges, Reserve(b) PROVE Len(slots') = Len(slots) + 1
    BY <2>1, ReserveType
  <2>2. Len(slots) \in Nat /\ Len(slots') \in Nat
    BY DEF TypeOK
  <2> QED
    BY <2>1, <2>2, ResultSteps
<1>2. CASE FinalSection
  <2>1. result' \in Executions /\ result'.slots = Len(slots')
    <3>1. \E r \in BOOLEAN :
            result' = [integrity |-> integrity' \/ (r /\ refused),
                       refused |-> refused, recorded |-> r,
                       slots |-> Len(slots), published |-> published,
                       artifacts |-> LastArtifacts]
      BY <1>2 DEF FinalSection
    <3>2. LastArtifacts \in Artifacts
      BY LastArtifactsType
    <3> QED
      BY <1>1, <1>2, <3>1, <3>2 DEF FinalSection, Executions, TypeOK
  <2>2. ASSUME ~result'.integrity
        PROVE  /\ \A b \in Bridges : ~Busy(b)'
               /\ result'.published = result'.artifacts
               /\ result'.recorded => ~result'.refused
    <3>1. ~integrity' /\ (result'.recorded => ~result'.refused)
      BY <1>2, <2>2 DEF FinalSection
    <3>2. ~integrity /\ active = 0
      BY <1>2, <3>1 DEF FinalSection, Unfinished, TypeOK
    <3>3. \A b \in Bridges : ~Busy(b)'
      BY <1>2, <3>2 DEF FinalSection, DispatchInv, HeldInv, Busy
    <3>4. result'.published = result'.artifacts
      BY <1>2, <3>2 DEF FinalSection, ArtifactsInv
    <3> QED
      BY <3>1, <3>3, <3>4
  <2>3. phase' = "final"
    BY <1>2 DEF FinalSection
  <2> QED
    BY <1>1, <2>1, <2>2, <2>3 DEF ResultInv
<1>3. CASE ~FinalSection
  <2>1. result' = result
    BY <1>3, ResultSteps
  <2>2. ASSUME phase' \notin {"running", "ended"} PROVE phase \notin {"running", "ended"}
    BY <1>3, <2>2, ResultSteps
  <2>3. phase' = "graded" => ~result.integrity
    BY ResultSteps DEF ResultInv
  <2>4. ASSUME result \in Executions, result.slots <= Len(slots),
               NEW c \in Bridges, slot'[c] \in 1..result.slots, Busy(c)'
        PROVE  slot[c] \in 1..result.slots /\ Busy(c)
    <3>1. slot'[c] # Len(slots) + 1
      BY <1>1, <2>4 DEF Executions
    <3> QED
      BY <2>4, <3>1, BusySteps
  <2> QED
    BY <1>1, <2>1, <2>2, <2>3, <2>4 DEF ResultInv, Executions
<1> QED
  BY <1>2, <1>3

THEOREM ResultHolds == Spec => [](ArtifactsInv /\ ResultInv)
<1>1. Init => ArtifactsInv /\ ResultInv
  BY DEF Init, ArtifactsInv, LastArtifacts, ResultInv
<1>2. /\ TypeOK /\ TypeOK' /\ DispatchInv /\ ArtifactsInv /\ ResultInv
      /\ [Next]_vars
      => (ArtifactsInv /\ ResultInv)'
  BY ArtifactsInductive, ResultInductive
<1> QED
  BY <1>1, <1>2, KaziTypeCorrect, DispatchHolds, PTL DEF Spec

(* What is graded comes from dispatches all over (the parent's last        *)
(* section, and the grader's test of IntegrityError).                      *)
THEOREM GradedHolds == Spec => []GradedIsSettled
<1>1. ResultInv => GradedIsSettled
  BY DEF ResultInv, GradedIsSettled, Busy
<1> QED
  BY <1>1, ResultHolds, PTL

(* The artifact manifest that is graded is the last slot's.                *)
THEOREM GradedArtifactsHolds == Spec => GradedArtifacts
<1>1. ASSUME ResultInv, [Next]_vars, phase' = "graded", phase # "graded"
      PROVE  onDisk = result.artifacts
  <2>1. Grade
    BY <1>1, ResultSteps
  <2>2. phase = "closed" /\ ~result.integrity /\ onDisk = result.published
    BY <1>1, <2>1 DEF Grade, ManifestIntact
  <2> QED
    BY <1>1, <2>2 DEF ResultInv
<1>2. ResultInv /\ [Next]_vars =>
        [phase' = "graded" /\ phase # "graded" => onDisk = result.artifacts]_vars
  BY <1>1
<1> QED
  BY <1>2, ResultHolds, PTL DEF Spec, GradedArtifacts

=============================================================================
