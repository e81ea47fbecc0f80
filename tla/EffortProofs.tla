---------------------------- MODULE EffortProofs ----------------------------
(***************************************************************************)
(* What the import lock is for: the windows of a source never overlap, for *)
(* any number of importers, records and observations, with importers that  *)
(* are killed, locks that are removed, writes that fail and clocks that    *)
(* are set back; and with clocks that are not, their tokens add up to no   *)
(* more than the session spent.                                            *)
(***************************************************************************)
EXTENDS EffortImport, SetLemmas

(* A transcript is no longer than its bound, so its length fits a record.  *)
Bounded == \A s \in Sources : Len(transcript[s]) <= MaxObservations

(* Whoever is past the lock is alone there and the lock is taken.          *)
Importing == {i \in Importers : pc[i] \in {"locked", "write"}}
LockHeld ==
  /\ Importing # {} => lock
  /\ \A i, j \in Importing : i = j

(* What an importer found free of conflicts still is when it writes.       *)
NoConflict(e) == \A old \in Loaded : ~Conflicts(e, old)
StillFree == \A i \in Importers : pc[i] = "write" => NoConflict(draft[i])

WindowInv == LockHeld /\ StillFree /\ Disjoint

USE EffortConstants

-----------------------------------------------------------------------------
(* A record measured from a transcript has the type of a record: the two   *)
(* observations it is made from are in the transcript.                     *)
LEMMA MeasuredIsRecord ==
  ASSUME TypeOK, Bounded, NEW id \in IDs, NEW s \in Sources,
         NEW from \in Times, NEW to \in Times,
         Measurable(transcript[s], from, to)
  PROVE  EffortOf(id, s, from, to) \in Records
<1> DEFINE obs == transcript[s]
           B == Before(obs, from, to)
           W == Within(obs, from, to)
<1>1. obs \in Seq(Observations) /\ Len(obs) \in Nat /\ Len(obs) <= MaxObservations
  BY DEF TypeOK, Bounded
<1>2. B \in SUBSET (0..Len(obs)) /\ W \in SUBSET (0..Len(obs))
  BY <1>1 DEF Before, Within, Seen
<1>3. B # {} /\ W # {}
  BY DEF Measurable
<1>4. Max(B) \in B /\ Max(W) \in W
  <2> HIDE DEF B, W
  <2> QED
    BY <1>1, <1>2, <1>3, BoundedMax
<1>5. Max(B) \in DOMAIN obs /\ Max(W) \in DOMAIN obs
  BY <1>4 DEF Before, Within, Seen
<1>6. obs[Max(B)] \in Observations /\ obs[Max(W)] \in Observations
  BY <1>1, <1>5
<1>7. obs[Max(B)].total <= obs[Max(W)].total
  BY DEF Measurable
<1> DEFINE base == obs[Max(B)]
           last == obs[Max(W)]
<1>8. last.total - base.total \in 0..MaxTotal
  <2>1. base.total \in 0..MaxTotal /\ last.total \in 0..MaxTotal
    BY <1>6 DEF Observations
  <2> QED
    BY <2>1, <1>7
<1>9. base.at \in Times /\ last.at \in Times
  BY <1>6 DEF Observations
<1>10. EffortOf(id, s, from, to) =
         [id |-> id, source |-> s, from |-> base.at, to |-> last.at,
          tokens |-> last.total - base.total, snapshot |-> Len(obs)]
  BY DEF EffortOf
<1>11. Len(obs) \in 0..MaxObservations
  BY <1>1
<1> HIDE DEF base, last, obs
<1> QED
  BY <1>8, <1>9, <1>10, <1>11 DEF Records

(* Refused or imported, an importer ends ready to try again or idle.       *)
LEMMA LeaveType ==
  ASSUME TypeOK, NEW i \in Importers, Leave(i), pc[i] # "idle"
  PROVE  /\ lock' = FALSE
         /\ \/ pc' = [pc EXCEPT ![i] = "ready"] /\ draft' = draft
            \/ pc' = [pc EXCEPT ![i] = "idle"] /\ draft' = [draft EXCEPT ![i] = None]
BY DEF Leave, Forget, Goto

LEMMA LeaveAlone ==
  ASSUME TypeOK, NEW i \in Importers, Leave(i) \/ Forget(i), pc[i] # "idle"
  PROVE  /\ pc'[i] \in {"idle", "ready"}
         /\ \A j \in Importers \ {i} : pc'[j] = pc[j] /\ draft'[j] = draft[j]
BY DEF Leave, Forget, Goto, TypeOK

LEMMA InitType == Init => TypeOK /\ Bounded
<1> SUFFICES ASSUME Init
             PROVE  TypeOK /\ Bounded
  OBVIOUS
<1>1. \A s \in Sources : transcript[s] = << >>
  BY DEF Init
<1>2. transcript \in [Sources -> Seq(Observations)]
  BY DEF Init
<1>3. Bounded
  BY <1>1 DEF Bounded
<1> QED
  BY <1>2, <1>3 DEF Init, TypeOK

LEMMA NextType == TypeOK /\ Bounded /\ [Next]_vars => TypeOK' /\ Bounded'
<1> SUFFICES ASSUME TypeOK, Bounded, [Next]_vars
             PROVE  TypeOK' /\ Bounded'
  OBVIOUS
<1>1. ASSUME NEW s \in Sources, Observe(s)
      PROVE  TypeOK' /\ Bounded'
  <2>1. PICK o \in Observations :
          /\ Len(transcript[s]) < MaxObservations
          /\ transcript' = [transcript EXCEPT ![s] = Append(@, o)]
          /\ spent' \in [Sources -> Nat]
    <3>1. PICK o \in Observations :
            LET n == Len(transcript[s])
                past == IF n = 0 THEN [at |-> 0, total |-> 0] ELSE transcript[s][n]
            IN /\ transcript' = [transcript EXCEPT ![s] = Append(@, o)]
               /\ spent' = [spent EXCEPT ![s] =
                    @ + (IF o.total >= past.total THEN o.total - past.total ELSE o.total)]
      BY <1>1 DEF Observe
    <3> DEFINE n == Len(transcript[s])
               past == IF n = 0 THEN [at |-> 0, total |-> 0] ELSE transcript[s][n]
               more == IF o.total >= past.total THEN o.total - past.total ELSE o.total
    <3>2. transcript[s] \in Seq(Observations)
      BY DEF TypeOK
    <3>3. o.total \in Nat /\ past.total \in Nat
      <4>1. o.total \in Nat
        BY DEF Observations
      <4>2. CASE n = 0
        BY <4>1, <4>2
      <4>3. CASE n # 0
        <5>1. transcript[s][n] \in Observations
          BY <3>2, <4>3
        <5> QED
          BY <4>1, <4>3, <5>1 DEF Observations
      <4> QED
        BY <4>2, <4>3
    <3>4. more \in Nat
      <4> HIDE DEF past
      <4> QED
        BY <3>3
    <3>5. spent' = [spent EXCEPT ![s] = @ + more]
      BY <3>1
    <3>6. spent' \in [Sources -> Nat]
      <4> HIDE DEF more
      <4> QED
        BY <3>4, <3>5 DEF TypeOK
    <3> QED
      BY <1>1, <3>1, <3>6 DEF Observe
  <2>2. transcript' \in [Sources -> Seq(Observations)]
    BY <2>1 DEF TypeOK
  <2>3. \A t \in Sources : Len(transcript'[t]) <= MaxObservations
    BY <2>1 DEF TypeOK, Bounded
  <2> QED
    BY <1>1, <2>1, <2>2, <2>3 DEF Observe, TypeOK, Bounded
<1>2. ASSUME NEW i \in Importers, Measure(i)
      PROVE  TypeOK' /\ Bounded'
  <2>1. PICK e \in Records : draft' = [draft EXCEPT ![i] = e]
    BY <1>2, MeasuredIsRecord DEF Measure
  <2> QED
    BY <1>2, <2>1 DEF Measure, Goto, TypeOK, Bounded
<1>3. ASSUME NEW i \in Importers, TakeLock(i) \/ Compare(i) \/ Drop(i) \/ Kill(i)
      PROVE  TypeOK' /\ Bounded'
  BY <1>3 DEF TakeLock, Compare, Drop, Kill, Forget, Goto, TypeOK, Bounded
<1>4. ASSUME NEW i \in Importers, Refuse(i)
      PROVE  TypeOK' /\ Bounded'
  BY <1>4, LeaveType, ZenonT(40) DEF Refuse, TypeOK, Bounded
<1>5. ASSUME NEW i \in Importers, Write(i)
      PROVE  TypeOK' /\ Bounded'
  <2>1. pc[i] = "write" /\ draft[i] \in Records
    BY <1>5 DEF Write, TypeOK
  <2>2. draft[i].id \in IDs
    BY <2>1 DEF Records
  <2>3. PICK file \in {draft[i], Torn} :
          efforts' = efforts \/ efforts' = [efforts EXCEPT ![draft[i].id] = file]
    BY <1>5 DEF Write
  <2>4. /\ efforts' \in [IDs -> Records \cup {None, Torn}]
        /\ \A id \in IDs : efforts'[id] \in Records => efforts'[id].id = id
    <3>1. efforts \in [IDs -> Records \cup {None, Torn}]
      BY DEF TypeOK
    <3>2. efforts' \in [IDs -> Records \cup {None, Torn}]
      BY <2>1, <2>2, <2>3, <3>1
    <3>3. ASSUME NEW id \in IDs, efforts'[id] \in Records
          PROVE  efforts'[id].id = id
      <4>1. efforts'[id] = efforts[id] \/ (id = draft[i].id /\ efforts'[id] = draft[i])
        BY <2>2, <2>3, <3>1, <3>3
      <4> QED
        BY <3>3, <4>1 DEF TypeOK
    <3> QED
      BY <3>2, <3>3
  <2>5. Leave(i) /\ UNCHANGED <<transcript, spent>>
    BY <1>5 DEF Write
  <2>6. /\ pc' \in [Importers -> {"idle", "ready", "locked", "write"}]
        /\ draft' \in [Importers -> Records \cup {None}]
        /\ \A j \in Importers : pc'[j] # "idle" => draft'[j] # None
        /\ lock' \in BOOLEAN
    BY <2>1, <2>5, LeaveType, ZenonT(40) DEF TypeOK
  <2> QED
    BY <2>4, <2>5, <2>6 DEF TypeOK, Bounded
<1>6. ASSUME RemoveStaleLock \/ UNCHANGED vars
      PROVE  TypeOK' /\ Bounded'
  BY <1>6 DEF RemoveStaleLock, vars, TypeOK, Bounded
<1> QED
  BY <1>1, <1>2, <1>3, <1>4, <1>5, <1>6 DEF Next, Import

(* Type correctness of transcripts, importers and effort records.          *)
THEOREM EffortTypeCorrect == Spec => [](TypeOK /\ Bounded)
<1> QED
  BY InitType, NextType, PTL DEF Spec

-----------------------------------------------------------------------------
(* A step that writes no file keeps what there is free of conflicts.       *)
LEMMA SameFiles ==
  ASSUME efforts' = efforts
  PROVE  Loaded' = Loaded /\ (Disjoint => Disjoint')
BY DEF Loaded, Disjoint

LEMMA InitWindows == Init => WindowInv
BY EffortConstants DEF Init, WindowInv, LockHeld, Importing, StillFree, Disjoint

LEMMA NextWindows ==
  TypeOK /\ TypeOK' /\ WindowInv /\ [Next]_vars => WindowInv'
<1> SUFFICES ASSUME TypeOK, TypeOK', WindowInv, [Next]_vars
             PROVE  WindowInv'
  OBVIOUS
<1> USE DEF WindowInv, LockHeld, Importing, StillFree, NoConflict
<1>1. ASSUME NEW s \in Sources, Observe(s)
      PROVE  WindowInv'
  BY <1>1, SameFiles DEF Observe
<1>2. ASSUME NEW i \in Importers, Measure(i) \/ Drop(i)
      PROVE  WindowInv'
  <2>1. /\ pc[i] \in {"idle", "ready"} /\ pc'[i] \in {"idle", "ready"}
        /\ \A j \in Importers \ {i} : pc'[j] = pc[j] /\ draft'[j] = draft[j]
        /\ UNCHANGED <<lock, efforts>>
    BY <1>2 DEF Measure, Drop, Forget, Goto, TypeOK
  <2> QED
    BY <2>1, SameFiles
<1>3. ASSUME NEW i \in Importers, TakeLock(i)
      PROVE  WindowInv'
  <2>1. /\ pc'[i] = "locked" /\ \A j \in Importers \ {i} : pc'[j] = pc[j]
        /\ ~lock /\ lock' /\ UNCHANGED <<draft, efforts>>
    BY <1>3 DEF TakeLock, Goto, TypeOK
  <2> QED
    BY <2>1, SameFiles
<1>4. ASSUME NEW i \in Importers, Compare(i)
      PROVE  WindowInv'
  <2>1. /\ pc[i] = "locked" /\ pc'[i] = "write"
        /\ \A j \in Importers \ {i} : pc'[j] = pc[j]
        /\ UNCHANGED <<lock, draft, efforts>>
        /\ \A old \in Loaded : ~Conflicts(draft[i], old)
    BY <1>4 DEF Compare, Goto, TypeOK
  <2> QED
    BY <2>1, SameFiles DEF Conflicts
<1>5. ASSUME NEW i \in Importers, Refuse(i) \/ Kill(i)
      PROVE  WindowInv'
  <2>1. /\ pc[i] \in {"locked", "write"} /\ pc'[i] \in {"idle", "ready"}
        /\ \A j \in Importers \ {i} : pc'[j] = pc[j] /\ draft'[j] = draft[j]
        /\ UNCHANGED efforts
    <3>1. pc[i] \in {"locked", "write"} /\ (Leave(i) \/ Forget(i)) /\ UNCHANGED efforts
      BY <1>5 DEF Refuse, Kill
    <3> QED
      BY <3>1, LeaveAlone
  <2>2. \A j \in Importers : pc'[j] \notin {"locked", "write"}
    <3>1. \A j \in Importers \ {i} : pc[j] \notin {"locked", "write"}
      BY <2>1
    <3> QED
      BY <2>1, <3>1
  <2> QED
    BY <2>1, <2>2, SameFiles
<1>6. ASSUME NEW i \in Importers, Write(i)
      PROVE  WindowInv'
  <2>1. /\ pc[i] = "write" /\ pc'[i] \in {"idle", "ready"}
        /\ \A j \in Importers \ {i} : pc'[j] = pc[j] /\ draft'[j] = draft[j]
    <3>1. pc[i] = "write" /\ Leave(i)
      BY <1>6 DEF Write
    <3> QED
      BY <3>1, LeaveAlone
  <2>2. \A j \in Importers : pc'[j] \notin {"locked", "write"}
    <3>1. \A j \in Importers \ {i} : pc[j] \notin {"locked", "write"}
      BY <2>1
    <3> QED
      BY <2>1, <3>1
  <2>3. PICK file \in {draft[i], Torn} :
          efforts' = efforts \/ efforts' = [efforts EXCEPT ![draft[i].id] = file]
    BY <1>6 DEF Write
  <2>4. Disjoint'
    <3>1. \A old \in Loaded : ~Conflicts(draft[i], old)
      BY <2>1
    <3>2. \A id \in IDs : efforts'[id] = efforts[id]
                          \/ efforts'[id] \in {draft[i], Torn}
      BY <2>3 DEF TypeOK
    <3>3. \A id \in IDs : efforts[id] \notin {None, Torn} =>
            efforts[id].source # draft[i].source
            \/ draft[i].to <= efforts[id].from \/ efforts[id].to <= draft[i].from
      <4>1. draft[i] \in Records
        BY <2>1 DEF TypeOK
      <4>2. \A id \in IDs : efforts[id] \notin {None, Torn} =>
              efforts[id] \in Records /\ ~Conflicts(draft[i], efforts[id])
        BY <3>1 DEF Loaded, TypeOK
      <4>3. \A e \in Records : e.from \in Int /\ e.to \in Int
        BY DEF Records, Times
      <4> QED
        BY <4>1, <4>2, <4>3 DEF Conflicts
    <3>4. \A x, y \in IDs : (/\ efforts'[x] = draft[i] /\ efforts'[y] = draft[i]
                             /\ draft[i] \in Records) => x = y
      <4>1. \A x \in IDs : efforts'[x] \in Records => efforts'[x].id = x
        BY DEF TypeOK
      <4> QED
        BY <4>1
    <3>5. draft[i] \in Records /\ Disjoint
      BY <2>1 DEF TypeOK
    <3>6. ASSUME NEW x \in IDs, NEW y \in IDs, x # y,
                 efforts'[x] \notin {None, Torn}, efforts'[y] \notin {None, Torn},
                 efforts'[x].source = efforts'[y].source
          PROVE  \/ efforts'[x].to <= efforts'[y].from
                 \/ efforts'[y].to <= efforts'[x].from
      <4>1. CASE efforts'[x] = efforts[x] /\ efforts'[y] = efforts[y]
        BY <3>5, <3>6, <4>1 DEF Disjoint
      <4>2. CASE efforts'[x] = draft[i] /\ efforts'[y] = efforts[y]
        BY <3>3, <3>6, <4>2
      <4>3. CASE efforts'[x] = efforts[x] /\ efforts'[y] = draft[i]
        BY <3>3, <3>6, <4>3
      <4>4. ~(efforts'[x] = draft[i] /\ efforts'[y] = draft[i])
        BY <3>4, <3>5, <3>6
      <4> QED
        BY <3>2, <3>6, <4>1, <4>2, <4>3, <4>4
    <3> QED
      BY <3>6 DEF Disjoint
  <2> QED
    BY <2>2, <2>4
<1>7. ASSUME RemoveStaleLock \/ UNCHANGED vars
      PROVE  WindowInv'
  BY <1>7, SameFiles DEF RemoveStaleLock, vars
<1> QED
  BY <1>1, <1>2, <1>3, <1>4, <1>5, <1>6, <1>7 DEF Next, Import

(* Two records of a source never overlap: the import that writes compared  *)
(* with every record there is, and nobody wrote one since, because whoever *)
(* is past the lock is there alone.                                        *)
THEOREM WindowsNeverOverlap == Spec => []Disjoint
<1>1. Spec => []WindowInv
  BY EffortTypeCorrect, InitWindows, NextWindows, PTL DEF Spec
<1>2. WindowInv => Disjoint
  BY DEF WindowInv
<1> QED
  BY <1>1, <1>2, PTL

-----------------------------------------------------------------------------
(* Attribution. A ledger of a session is what it had spent by each time:   *)
(* it says what the session gained from an observation that is the last of *)
(* its time to any later one, and so bounds what every receipt says, the   *)
(* drafts and the imported ones.                                           *)
Ordered(obs) == \A j, k \in DOMAIN obs : j <= k => obs[j].at <= obs[k].at
LastOfItsTime(obs, j) == \A m \in DOMAIN obs : j < m => obs[j].at < obs[m].at

Covers(w, obs) ==
  \A j, k \in DOMAIN obs : j < k /\ LastOfItsTime(obs, j) =>
    obs[k].total - obs[j].total <= w[obs[k].at] - w[obs[j].at]

Pays(w, e) == e.tokens <= w[e.to] - w[e.from]

Receipts(s) ==
  {e \in Records : e.source = s /\ (\/ \E i \in Importers : draft[i] = e
                                   \/ \E id \in IDs : efforts[id] = e)}

Moments == 0..MaxTime
IsLedger(w) ==
  /\ w \in [Moments -> Nat]
  /\ \A t, u \in Moments : t <= u => w[t] <= w[u]

Ledger(s, w) ==
  /\ IsLedger(w)
  /\ w[MaxTime] <= spent[s]
  /\ Covers(w, transcript[s])
  /\ \A e \in Receipts(s) : Pays(w, e)

LedgerInv ==
  /\ \A s \in Sources : \A e \in Receipts(s) : e.from < e.to
  /\ IsFiniteSet(Loaded)
  /\ ~ClockSteps => \A s \in Sources :
       Ordered(transcript[s]) /\ \E w : Ledger(s, w)

LEMMA RecordFields ==
  ASSUME NEW e \in Records
  PROVE  /\ e.from \in Moments /\ e.to \in Moments /\ e.from \in Int /\ e.to \in Int
         /\ e.tokens \in Nat
BY DEF Records, Times, Moments

LEMMA ObservationFields ==
  ASSUME NEW o \in Observations
  PROVE  o.at \in Moments /\ o.at \in Int /\ o.total \in Nat
BY DEF Observations, Times, Moments

(* What a receipt is made from: two observations of the transcript, the    *)
(* first of which is the last of its time.                                 *)
LEMMA MeasuredWindow ==
  ASSUME TypeOK, Bounded, NEW id \in IDs, NEW s \in Sources,
         NEW from \in Times, NEW to \in Times,
         Measurable(transcript[s], from, to)
  PROVE  LET obs == transcript[s]
             e == EffortOf(id, s, from, to)
         IN /\ e \in Records /\ e.source = s
            /\ \E j, k \in DOMAIN obs :
                 /\ obs[j].at < obs[k].at /\ LastOfItsTime(obs, j)
                 /\ e.from = obs[j].at /\ e.to = obs[k].at
                 /\ e.tokens = obs[k].total - obs[j].total
<1> DEFINE obs == transcript[s]
           B == Before(obs, from, to)
           W == Within(obs, from, to)
           j == Max(B)
           k == Max(W)
           e == EffortOf(id, s, from, to)
<1>1. obs \in Seq(Observations) /\ Len(obs) \in Nat /\ DOMAIN obs = 1..Len(obs)
  BY DEF TypeOK
<1>2. B \in SUBSET (0..Len(obs)) /\ W \in SUBSET (0..Len(obs)) /\ B # {} /\ W # {}
  BY <1>1 DEF Before, Within, Seen, Measurable
<1>3. j \in B /\ k \in W /\ \A y \in B : y <= j
  <2> HIDE DEF B, W
  <2> QED
    BY <1>1, <1>2, BoundedMax
<1> HIDE DEF j, k
<1>4. from < to /\ from \in Int /\ to \in Int
  BY DEF Measurable, Times
<1>5. \A m \in DOMAIN obs : obs[m] \in Observations /\ obs[m].at \in Int
  BY <1>1, ObservationFields
<1>6. /\ j \in DOMAIN obs /\ k \in DOMAIN obs
      /\ obs[j].at < from /\ from <= obs[k].at
  BY <1>3, <1>4, <1>5 DEF Before, Within, Seen
<1>7. ASSUME NEW m \in DOMAIN obs, j < m PROVE obs[j].at < obs[m].at
  <2>1. m \notin B
    <3>1. m \in Int /\ j \in Int
      BY <1>1, <1>6
    <3> QED
      BY <1>3, <1>7, <3>1
  <2>2. from <= obs[m].at
    BY <1>4, <1>5, <2>1 DEF Before, Seen
  <2> QED
    BY <1>4, <1>5, <1>6, <2>2
<1>8. LastOfItsTime(obs, j)
  BY <1>7 DEF LastOfItsTime
<1>9. e = [id |-> id, source |-> s, from |-> obs[j].at, to |-> obs[k].at,
           tokens |-> obs[k].total - obs[j].total, snapshot |-> Len(obs)]
  BY DEF EffortOf, j, k
<1>10. e \in Records
  BY MeasuredIsRecord
<1>11. obs[j].at < obs[k].at
  BY <1>4, <1>5, <1>6
<1> HIDE DEF obs, e
<1>12. /\ e.source = s /\ e.from = obs[j].at /\ e.to = obs[k].at
       /\ e.tokens = obs[k].total - obs[j].total
  BY <1>9
<1>13. e \in Records /\ \E x, y \in DOMAIN obs :
         /\ obs[x].at < obs[y].at /\ LastOfItsTime(obs, x)
         /\ e.from = obs[x].at /\ e.to = obs[y].at
         /\ e.tokens = obs[y].total - obs[x].total
  BY <1>6, <1>8, <1>10, <1>11, <1>12
<1> QED
  BY <1>12, <1>13 DEF obs, e

(* A ledger pays for whatever is measured.                                 *)
LEMMA MeasuredIsPaid ==
  ASSUME TypeOK, Bounded, NEW id \in IDs, NEW s \in Sources,
         NEW from \in Times, NEW to \in Times,
         Measurable(transcript[s], from, to)
  PROVE  LET e == EffortOf(id, s, from, to)
         IN /\ e.from < e.to
            /\ \A w : Ordered(transcript[s]) /\ Covers(w, transcript[s]) => Pays(w, e)
<1> DEFINE obs == transcript[s]
           e == EffortOf(id, s, from, to)
<1>1. PICK j, k \in DOMAIN obs :
        /\ obs[j].at < obs[k].at /\ LastOfItsTime(obs, j)
        /\ e.from = obs[j].at /\ e.to = obs[k].at
        /\ e.tokens = obs[k].total - obs[j].total
  BY MeasuredWindow
<1>2. obs \in Seq(Observations) /\ obs[j] \in Observations /\ obs[k] \in Observations
  BY DEF TypeOK
<1>3. obs[j].at \in Int /\ obs[k].at \in Int /\ j \in Int /\ k \in Int
  BY <1>2, ObservationFields
<1>4. Ordered(obs) => j < k
  BY <1>1, <1>3 DEF Ordered
<1> HIDE DEF obs, e
<1>5. ASSUME NEW w, Ordered(obs), Covers(w, obs) PROVE Pays(w, e)
  BY <1>1, <1>4, <1>5 DEF Covers, Pays
<1>6. e.from < e.to
  BY <1>1
<1> QED
  BY <1>5, <1>6 DEF obs, e

(* When a session appends an observation, what it spends is booked at its  *)
(* time and all later ones.                                                *)
Booked(w, at, more) == [t \in Moments |-> IF at <= t THEN w[t] + more ELSE w[t]]

LEMMA BookedLedger ==
  ASSUME NEW w, IsLedger(w), NEW at \in Moments, NEW more \in Nat
  PROVE  /\ IsLedger(Booked(w, at, more))
         /\ Booked(w, at, more)[MaxTime] = w[MaxTime] + more
         /\ \A t, u \in Moments : t < u =>
              w[u] - w[t] <= Booked(w, at, more)[u] - Booked(w, at, more)[t]
<1> DEFINE v == Booked(w, at, more)
<1>1. \A t \in Moments : /\ t \in Int /\ t <= MaxTime
                         /\ w[t] \in Nat /\ v[t] \in Nat
                         /\ v[t] = IF at <= t THEN w[t] + more ELSE w[t]
  BY DEF Booked, Moments, IsLedger
<1>2. v \in [Moments -> Nat]
  BY <1>1 DEF Booked
<1>3. at \in Int /\ MaxTime \in Moments
  BY DEF Moments
<1> HIDE DEF v
<1>4. \A t, u \in Moments : t <= u => v[t] <= v[u] /\ w[u] - w[t] <= v[u] - v[t]
  BY <1>1, <1>3 DEF IsLedger
<1>5. \A t, u \in Moments : t < u => w[u] - w[t] <= v[u] - v[t]
  BY <1>1, <1>4
<1>6. v[MaxTime] = w[MaxTime] + more
  BY <1>1, <1>3
<1> QED
  BY <1>2, <1>4, <1>5, <1>6 DEF IsLedger, v

LEMMA Telescope ==
  ASSUME NEW a \in Int, NEW b \in Int, NEW c \in Int,
         NEW x \in Int, NEW y \in Int, NEW z \in Int, NEW m \in Int,
         b - a <= y - x, c - b <= m, z = y + m
  PROVE  c - a <= z - x
OBVIOUS

(* The longer transcript is covered: from the last observation of an       *)
(* earlier time the session gained no more than to the one before, which   *)
(* is covered or is that observation itself, and from there what is        *)
(* booked.                                                                 *)
LEMMA BookedCovers ==
  ASSUME NEW obs \in Seq(Observations), NEW o \in Observations, NEW w, IsLedger(w),
         Ordered(Append(obs, o)), Covers(w, obs), NEW more \in Nat,
         Len(obs) > 0 => o.total - obs[Len(obs)].total <= more
  PROVE  Covers(Booked(w, o.at, more), Append(obs, o))
<1> DEFINE n == Len(obs)
           new == Append(obs, o)
           v == Booked(w, o.at, more)
<1>1. /\ n \in Nat /\ DOMAIN obs = 1..n /\ DOMAIN new = 1..n+1
      /\ new[n+1] = o /\ \A m \in 1..n : new[m] = obs[m]
      /\ n > 0 => o.total - obs[n].total <= more
  OBVIOUS
<1>2. /\ \A m \in 1..n : /\ obs[m].at \in Moments /\ obs[m].at \in Int
                         /\ obs[m].total \in Nat
      /\ o.at \in Moments /\ o.at \in Int /\ o.total \in Nat
  <2>1. \A m \in 1..n : obs[m] \in Observations
    OBVIOUS
  <2> QED
    BY <2>1, ObservationFields
<1>3. /\ \A t \in Moments : w[t] \in Nat /\ v[t] \in Nat
      /\ \A t, u \in Moments : t < u => w[u] - w[t] <= v[u] - v[t]
      /\ \A t, u \in Moments : t <= u => w[t] <= w[u]
  <2>1. IsLedger(v)
    BY <1>2, BookedLedger
  <2>2. \A t, u \in Moments : t < u => w[u] - w[t] <= v[u] - v[t]
    BY <1>2, BookedLedger
  <2> HIDE DEF v
  <2> QED
    BY <2>1, <2>2 DEF IsLedger
<1>4. \A t \in Moments : v[t] = IF o.at <= t THEN w[t] + more ELSE w[t]
  BY DEF Booked
<1>5. \A a, b \in 1..n+1 : a <= b => new[a].at <= new[b].at
  BY <1>1 DEF Ordered
<1> HIDE DEF new, v, n
<1>6. /\ \A m \in 1..n : /\ w[obs[m].at] \in Int /\ v[obs[m].at] \in Int
                         /\ obs[m].total \in Int
      /\ w[o.at] \in Int /\ v[o.at] \in Int /\ o.total \in Int
  BY <1>2, <1>3
<1>7. ASSUME NEW j \in 1..n+1, NEW k \in 1..n+1, j < k, LastOfItsTime(new, j)
      PROVE  new[k].total - new[j].total <= v[new[k].at] - v[new[j].at]
  <2>1. j \in 1..n /\ new[j] = obs[j]
    BY <1>1, <1>7
  <2>2. LastOfItsTime(obs, j)
    BY <1>1, <1>7, <2>1 DEF LastOfItsTime
  <2>3. new[j].at < new[k].at /\ obs[j].at < o.at
    BY <1>1, <1>7, <2>1 DEF LastOfItsTime
  <2>4. \A m \in 1..n : j < m => obs[m].total - obs[j].total <= w[obs[m].at] - w[obs[j].at]
    BY <1>1, <2>1, <2>2 DEF Covers
  <2>5. CASE k \in 1..n
    <3>1. new[k] = obs[k] /\ obs[j].at < obs[k].at
      BY <1>1, <2>1, <2>3, <2>5
    <3>2. w[obs[k].at] - w[obs[j].at] <= v[obs[k].at] - v[obs[j].at]
      BY <1>2, <1>3, <2>1, <2>5, <3>1
    <3>3. obs[k].total - obs[j].total <= w[obs[k].at] - w[obs[j].at]
      BY <1>7, <2>4, <2>5
    <3>4. /\ w[obs[k].at] \in Int /\ w[obs[j].at] \in Int /\ v[obs[k].at] \in Int
          /\ v[obs[j].at] \in Int /\ obs[k].total \in Int /\ obs[j].total \in Int
      BY <1>6, <2>1, <2>5
    <3> QED
      BY <2>1, <3>1, <3>2, <3>3, <3>4
  <2>6. CASE k = n+1
    <3>1. new[k] = o /\ n \in 1..n /\ n > 0
      BY <1>1, <2>1, <2>6
    <3>2. obs[n].total - obs[j].total <= w[o.at] - w[obs[j].at]
      <4>1. obs[n].at <= o.at
        BY <1>1, <1>5, <3>1
      <4>2. w[obs[n].at] <= w[o.at] /\ w[obs[j].at] <= w[o.at]
        BY <1>1, <1>2, <1>3, <2>1, <2>3, <3>1, <4>1
      <4>3. /\ w[o.at] \in Int /\ w[obs[j].at] \in Int /\ w[obs[n].at] \in Int
            /\ obs[n].total \in Int /\ obs[j].total \in Int
        BY <1>6, <2>1, <3>1
      <4>4. CASE j = n
        BY <4>2, <4>3, <4>4
      <4>5. CASE j < n
        <5>1. obs[n].total - obs[j].total <= w[obs[n].at] - w[obs[j].at]
          BY <2>4, <3>1, <4>5
        <5> QED
          BY <4>2, <4>3, <5>1
      <4> QED
        BY <1>1, <2>1, <4>4, <4>5
    <3>3. v[o.at] = w[o.at] + more /\ v[obs[j].at] = w[obs[j].at]
      BY <1>2, <1>4, <2>1, <2>3
    <3>4. /\ w[o.at] \in Int /\ w[obs[j].at] \in Int
          /\ obs[n].total \in Int /\ obs[j].total \in Int /\ o.total \in Int
          /\ more \in Int
      BY <1>6, <2>1, <3>1
    <3>5. o.total - obs[n].total <= more
      BY <1>1, <3>1
    <3>6. v[o.at] \in Int /\ v[o.at] = w[o.at] + more
      BY <1>6, <3>3
    <3>7. o.total - obs[j].total <= v[o.at] - w[obs[j].at]
      BY <3>2, <3>4, <3>5, <3>6, Telescope, Zenon
    <3>8. v[obs[j].at] = w[obs[j].at]
      BY <3>3
    <3> QED
      BY <2>1, <3>1, <3>7, <3>8, Zenon
  <2> QED
    BY <1>1, <2>5, <2>6
<1> QED
  BY <1>1, <1>7 DEF Covers, new, v, n

(* Steps that neither read nor write a transcript only drop receipts, or   *)
(* import a draft.                                                         *)
LEMMA FewerReceipts ==
  ASSUME LedgerInv, UNCHANGED <<transcript, spent>>, IsFiniteSet(Loaded'),
         \A s \in Sources : Receipts(s)' \subseteq Receipts(s)
  PROVE  LedgerInv'
<1>1. ASSUME NEW s \in Sources, NEW w, Ledger(s, w) PROVE Ledger(s, w)'
  BY <1>1 DEF Ledger
<1>2. \A s \in Sources : \A e \in Receipts(s)' : e.from < e.to
  BY DEF LedgerInv
<1>3. ASSUME ~ClockSteps, NEW s \in Sources
      PROVE  Ordered(transcript[s])' /\ \E w : Ledger(s, w)'
  <2>1. PICK w : Ledger(s, w)
    BY <1>3 DEF LedgerInv
  <2>2. Ledger(s, w)'
    BY <1>1, <2>1
  <2> QED
    BY <1>3, <2>2 DEF LedgerInv
<1> QED
  BY <1>2, <1>3 DEF LedgerInv

LEMMA OtherStepsLedger ==
  ASSUME TypeOK, LedgerInv, UNCHANGED <<transcript, spent>>,
         UNCHANGED efforts \/ \E i \in Importers : Write(i),
         \A i \in Importers : draft'[i] \in {draft[i], None}
  PROVE  LedgerInv'
<1>1. \A id \in IDs : efforts'[id] \in {efforts[id], Torn} \cup {draft[i] : i \in Importers}
  <2>1. CASE UNCHANGED efforts
    BY <2>1
  <2>2. ASSUME NEW i \in Importers, Write(i)
        PROVE  \A id \in IDs : efforts'[id] \in {efforts[id], Torn, draft[i]}
    <3>1. PICK file \in {draft[i], Torn} :
            efforts' = efforts \/ efforts' = [efforts EXCEPT ![draft[i].id] = file]
      BY <2>2 DEF Write
    <3> QED
      BY <3>1 DEF TypeOK
  <2> QED
    BY <2>1, <2>2
<1>2. \A s \in Sources : Receipts(s)' \subseteq Receipts(s)
  <2> SUFFICES ASSUME NEW s \in Sources, NEW e \in Receipts(s)'
               PROVE  e \in Receipts(s)
    OBVIOUS
  <2>1. e \in Records /\ e.source = s /\ e # None /\ e # Torn
    BY DEF Receipts
  <2>2. (\E i \in Importers : draft'[i] = e) \/ (\E id \in IDs : efforts'[id] = e)
    BY DEF Receipts
  <2>3. (\E i \in Importers : draft[i] = e) \/ (\E id \in IDs : efforts[id] = e)
    BY <1>1, <2>1, <2>2
  <2> QED
    BY <2>1, <2>3 DEF Receipts
<1>3. IsFiniteSet(Loaded')
  <2>1. IsFiniteSet(Loaded)
    BY DEF LedgerInv
  <2>2. CASE UNCHANGED efforts
    BY <2>1, <2>2 DEF Loaded
  <2>3. ASSUME NEW i \in Importers, Write(i) PROVE IsFiniteSet(Loaded')
    <3>1. PICK file \in {draft[i], Torn} :
            efforts' = efforts \/ efforts' = [efforts EXCEPT ![draft[i].id] = file]
      BY <2>3 DEF Write
    <3>2. Loaded' \subseteq Loaded \cup {file}
      BY <3>1 DEF Loaded, TypeOK
    <3>3. IsFiniteSet(Loaded \cup {file})
      BY <2>1, FS_AddElement
    <3> QED
      BY <3>2, <3>3, FS_Subset
  <2> QED
    BY <2>2, <2>3
<1> QED
  BY <1>2, <1>3, FewerReceipts

LEMMA ObserveLedger ==
  ASSUME TypeOK, LedgerInv, NEW s \in Sources, Observe(s)
  PROVE  LedgerInv'
<1> DEFINE obs == transcript[s]
           n == Len(obs)
<1>1. PICK o \in Observations :
        LET past == IF n = 0 THEN [at |-> 0, total |-> 0] ELSE obs[n]
        IN /\ ClockSteps \/ o.at >= past.at
           /\ transcript' = [transcript EXCEPT ![s] = Append(@, o)]
           /\ spent' = [spent EXCEPT ![s] =
                @ + (IF o.total >= past.total THEN o.total - past.total ELSE o.total)]
  BY DEF Observe
<1> DEFINE past == IF n = 0 THEN [at |-> 0, total |-> 0] ELSE obs[n]
           more == IF o.total >= past.total THEN o.total - past.total ELSE o.total
<1>2. obs \in Seq(Observations) /\ n \in Nat /\ DOMAIN obs = 1..n
  BY DEF TypeOK
<1>3. /\ o.at \in Moments /\ o.at \in Int /\ o.total \in Nat
      /\ \A m \in 1..n : obs[m].at \in Int /\ obs[m].total \in Nat
  <2>1. \A m \in 1..n : obs[m] \in Observations
    BY <1>2
  <2> QED
    BY <2>1, ObservationFields
<1>4. past.total \in Nat /\ (n > 0 => past = obs[n])
  <2>1. CASE n = 0
    BY <2>1
  <2>2. CASE n # 0
    BY <1>2, <1>3, <2>2
  <2> QED
    BY <2>1, <2>2
<1>5. more \in Nat /\ (n > 0 => o.total - obs[n].total <= more)
  <2>1. \A a, b \in Nat : LET m == IF a >= b THEN a - b ELSE a
                          IN m \in Nat /\ a - b <= m
    OBVIOUS
  <2>2. more \in Nat /\ o.total - past.total <= more
    <3> HIDE DEF past
    <3> QED
      BY <1>3, <1>4, <2>1
  <2> QED
    BY <1>4, <2>2, Zenon
<1>6. /\ transcript'[s] = Append(obs, o) /\ spent'[s] = spent[s] + more
      /\ \A t \in Sources \ {s} : transcript'[t] = transcript[t] /\ spent'[t] = spent[t]
      /\ ClockSteps \/ o.at >= past.at
  BY <1>1 DEF TypeOK
<1>7. PICK d \in Nat : d = more
  BY <1>5
<1>8. UNCHANGED <<draft, efforts>>
  BY DEF Observe
<1>9. \A t \in Sources : Receipts(t)' = Receipts(t)
  BY <1>8 DEF Receipts
<1>10. Loaded' = Loaded
  BY <1>8 DEF Loaded
<1> HIDE DEF more, past
<1>11. ASSUME ~ClockSteps
       PROVE  Ordered(Append(obs, o)) /\ \E w : Ledger(s, w)'
  <2>1. Ordered(obs)
    BY <1>11 DEF LedgerInv
  <2>2. Ordered(Append(obs, o))
    <3>1. /\ DOMAIN Append(obs, o) = 1..n+1 /\ Append(obs, o)[n+1] = o
          /\ \A m \in 1..n : Append(obs, o)[m] = obs[m]
      BY <1>2
    <3>2. \A m \in 1..n : obs[m].at <= o.at
      <4>1. ASSUME NEW m \in 1..n PROVE obs[m].at <= o.at
        <5>1. n \in 1..n /\ n > 0 /\ m <= n
          BY <1>2, <4>1
        <5>2. obs[m].at <= obs[n].at
          BY <1>2, <2>1, <5>1 DEF Ordered
        <5>3. o.at >= obs[n].at
          BY <1>4, <1>6, <1>11, <5>1
        <5> QED
          BY <1>3, <5>1, <5>2, <5>3
      <4> QED
        BY <4>1
    <3>3. ASSUME NEW j \in 1..n+1, NEW k \in 1..n+1, j <= k
          PROVE  Append(obs, o)[j].at <= Append(obs, o)[k].at
      <4>1. CASE k \in 1..n
        <5>1. j \in 1..n
          BY <1>2, <3>3, <4>1
        <5> QED
          BY <1>2, <2>1, <3>1, <3>3, <4>1, <5>1 DEF Ordered
      <4>2. CASE k = n+1 /\ j \in 1..n
        BY <3>1, <3>2, <4>2
      <4>3. CASE k = n+1 /\ j = n+1
        BY <1>3, <3>1, <4>3
      <4> QED
        BY <1>2, <4>1, <4>2, <4>3
    <3> QED
      BY <3>1, <3>3 DEF Ordered
  <2>3. PICK w : Ledger(s, w)
    BY <1>11 DEF LedgerInv
  <2> DEFINE v == Booked(w, o.at, d)
  <2>4. /\ IsLedger(v) /\ v[MaxTime] = w[MaxTime] + d
        /\ \A t, u \in Moments : t < u => w[u] - w[t] <= v[u] - v[t]
    BY <1>3, <2>3, BookedLedger DEF Ledger
  <2>5. Covers(v, Append(obs, o))
    BY <1>2, <1>5, <1>7, <2>2, <2>3, BookedCovers DEF Ledger
  <2> HIDE DEF v
  <2>6. v[MaxTime] <= spent'[s]
    <3>1. w[MaxTime] <= spent[s]
      BY <2>3 DEF Ledger
    <3>2. w[MaxTime] \in Nat /\ spent[s] \in Nat
      BY <2>3 DEF Ledger, IsLedger, Moments, TypeOK
    <3> QED
      BY <1>6, <1>7, <2>4, <3>1, <3>2
  <2>7. ASSUME NEW e \in Receipts(s) PROVE Pays(v, e)
    <3>1. /\ e.from \in Moments /\ e.to \in Moments /\ e.tokens \in Nat
          /\ e.from < e.to
      BY RecordFields DEF Receipts, LedgerInv
    <3>2. e.tokens <= w[e.to] - w[e.from]
      BY <2>3 DEF Ledger, Pays
    <3>3. w[e.to] - w[e.from] <= v[e.to] - v[e.from]
      BY <2>4, <3>1
    <3>4. /\ w[e.to] \in Int /\ w[e.from] \in Int /\ v[e.to] \in Int /\ v[e.from] \in Int
      BY <2>3, <2>4, <3>1 DEF Ledger, IsLedger
    <3> QED
      BY <3>1, <3>2, <3>3, <3>4 DEF Pays
  <2>8. Ledger(s, v)'
    BY <1>6, <1>9, <2>4, <2>5, <2>6, <2>7 DEF Ledger
  <2> QED
    BY <2>2, <2>8
<1>12. ASSUME ~ClockSteps, NEW t \in Sources
       PROVE  Ordered(transcript[t])' /\ \E w : Ledger(t, w)'
  <2>1. CASE t = s
    BY <1>6, <1>11, <1>12, <2>1
  <2>2. CASE t # s
    <3>1. PICK w : Ledger(t, w)
      BY <1>12 DEF LedgerInv
    <3>2. Ledger(t, w)'
      BY <1>6, <1>9, <2>2, <3>1 DEF Ledger
    <3> QED
      BY <1>6, <1>12, <2>2, <3>2 DEF LedgerInv
  <2> QED
    BY <2>1, <2>2
<1> QED
  BY <1>9, <1>10, <1>12 DEF LedgerInv

LEMMA MeasureLedger ==
  ASSUME TypeOK, Bounded, LedgerInv, NEW i \in Importers, Measure(i)
  PROVE  LedgerInv'
<1>1. PICK id \in IDs, s \in Sources, from \in Times, to \in Times :
        /\ Measurable(transcript[s], from, to)
        /\ draft' = [draft EXCEPT ![i] = EffortOf(id, s, from, to)]
  BY DEF Measure
<1>2. UNCHANGED <<transcript, spent, efforts>>
  BY DEF Measure
<1>3. PICK e : e = EffortOf(id, s, from, to)
  OBVIOUS
<1>4. /\ e.from < e.to
      /\ \A w : Ordered(transcript[s]) /\ Covers(w, transcript[s]) => Pays(w, e)
      /\ e.source = s
  BY <1>1, <1>3, MeasuredIsPaid, MeasuredWindow
<1>5. \A t \in Sources : \A x \in Receipts(t)' :
        x \in Receipts(t) \/ (x = e /\ t = s)
  BY <1>1, <1>2, <1>3, <1>4 DEF Receipts, TypeOK
<1>6. Loaded' = Loaded
  BY <1>2 DEF Loaded
<1>7. ASSUME NEW t \in Sources, NEW w, Ledger(t, w), Ordered(transcript[t])
      PROVE  Ledger(t, w)'
  <2>1. \A x \in Receipts(t)' : Pays(w, x)
    BY <1>4, <1>5, <1>7 DEF Ledger
  <2> QED
    BY <1>2, <1>7, <2>1 DEF Ledger
<1>8. ASSUME ~ClockSteps, NEW t \in Sources
      PROVE  Ordered(transcript[t])' /\ \E w : Ledger(t, w)'
  <2>1. PICK w : Ledger(t, w)
    BY <1>8 DEF LedgerInv
  <2>2. Ordered(transcript[t])
    BY <1>8 DEF LedgerInv
  <2> QED
    BY <1>2, <1>7, <2>1, <2>2
<1>9. \A t \in Sources : \A x \in Receipts(t)' : x.from < x.to
  BY <1>4, <1>5 DEF LedgerInv
<1> QED
  BY <1>6, <1>8, <1>9 DEF LedgerInv

LEMMA NextLedger ==
  TypeOK /\ Bounded /\ LedgerInv /\ [Next]_vars => LedgerInv'
<1> SUFFICES ASSUME TypeOK, Bounded, LedgerInv, [Next]_vars PROVE LedgerInv'
  OBVIOUS
<1>1. ASSUME NEW s \in Sources, Observe(s) PROVE LedgerInv'
  BY <1>1, ObserveLedger
<1>2. ASSUME NEW i \in Importers, Measure(i) PROVE LedgerInv'
  BY <1>2, MeasureLedger
<1>3. ASSUME NEW i \in Importers,
             TakeLock(i) \/ Refuse(i) \/ Compare(i) \/ Write(i) \/ Drop(i) \/ Kill(i)
      PROVE  LedgerInv'
  <2>1. \A j \in Importers : draft'[j] \in {draft[j], None}
    BY <1>3 DEF TakeLock, Refuse, Compare, Write, Drop, Kill, Leave, Forget, TypeOK
  <2>2. UNCHANGED <<transcript, spent>> /\ (UNCHANGED efforts \/ Write(i))
    BY <1>3 DEF TakeLock, Refuse, Compare, Write, Drop, Kill
  <2> QED
    BY <2>1, <2>2, OtherStepsLedger
<1>4. CASE RemoveStaleLock \/ UNCHANGED vars
  <2>1. UNCHANGED <<transcript, spent, draft, efforts>>
    BY <1>4 DEF RemoveStaleLock, vars
  <2> QED
    BY <2>1, OtherStepsLedger
<1> QED
  BY <1>1, <1>2, <1>3, <1>4 DEF Next, Import

LEMMA InitLedger == Init => LedgerInv
<1> SUFFICES ASSUME Init PROVE LedgerInv
  OBVIOUS
<1>1. \A s \in Sources : Receipts(s) = {}
  BY DEF Init, Receipts
<1>2. Loaded = {}
  BY DEF Init, Loaded
<1>3. ASSUME NEW s \in Sources
      PROVE  Ordered(transcript[s]) /\ \E w : Ledger(s, w)
  <2> DEFINE w == [t \in Moments |-> 0]
  <2>1. transcript[s] = << >> /\ spent[s] = 0
    BY DEF Init
  <2>2. MaxTime \in Moments
    BY DEF Moments
  <2>3. IsLedger(w) /\ w[MaxTime] = 0
    BY <2>2 DEF IsLedger
  <2>4. Ordered(transcript[s]) /\ \A v : Covers(v, transcript[s])
    BY <2>1 DEF Ordered, Covers
  <2> HIDE DEF w
  <2>5. Ledger(s, w)
    BY <1>1, <2>1, <2>3, <2>4 DEF Ledger
  <2> QED
    BY <2>4, <2>5
<1>4. IsFiniteSet(Loaded)
  BY <1>2, FS_EmptySet
<1> QED
  BY <1>1, <1>3, <1>4 DEF LedgerInv

(* Windows that do not overlap, each of which a ledger pays for, cost      *)
(* together no more than the ledger's end: whatever ends by a time costs   *)
(* at most what the ledger has at that time, for the last of these windows *)
(* takes the ledger from its beginning, by which all others have ended.    *)
Tokens == [e \in Records |-> e.tokens]

LEMMA DisjointWindowsSum ==
  ASSUME NEW w, IsLedger(w), NEW R \in SUBSET Records, IsFiniteSet(R),
         \A e \in R : e.from < e.to /\ Pays(w, e),
         \A x, y \in R : x # y => x.to <= y.from \/ y.to <= x.from
  PROVE  SumOver(Tokens, R) <= w[MaxTime]
<1> DEFINE Ended(t) == {e \in R : e.to <= t}
           T == {t \in Moments : ~(SumOver(Tokens, Ended(t)) <= w[t])}
<1>1. \A e \in R : /\ e.from \in Moments /\ e.to \in Moments
                   /\ e.from \in Int /\ e.to \in Int
                   /\ e.tokens \in Nat /\ Tokens[e] = e.tokens
  BY RecordFields DEF Tokens
<1>2. \A t \in Moments : w[t] \in Nat /\ t \in Nat
  BY DEF IsLedger, Moments
<1>3. \A t \in Moments : IsFiniteSet(Ended(t)) /\ \A e \in Ended(t) : Tokens[e] \in Int
  BY <1>1, FS_Subset
<1>4. \A t \in Moments : SumOver(Tokens, Ended(t)) \in Int
  <2> HIDE DEF Ended
  <2> QED
    BY <1>3, SumInt
<1>5. T = {}
  <2> SUFFICES ASSUME T # {} PROVE FALSE
    OBVIOUS
  <2>1. T \in SUBSET Nat
    BY <1>2
  <2>2. PICK t \in T : \A u \in T : t <= u
    <3> HIDE DEF T
    <3> QED
      BY <2>1, NatMin
  <2>3. t \in Moments /\ t \in Nat /\ ~(SumOver(Tokens, Ended(t)) <= w[t])
    BY <1>2, <2>2
  <2>4. \A u \in Moments : u < t => SumOver(Tokens, Ended(u)) <= w[u]
    BY <1>2, <2>2, <2>3
  <2> HIDE DEF T
  <2>5. CASE \E e \in R : e.to = t
    <3>1. PICK e \in R : e.to = t
      BY <2>5
    <3>2. e.from \in Moments /\ e.from < t /\ e.from \in Int
      BY <1>1, <3>1
    <3>3. Ended(t) = Ended(e.from) \cup {e} /\ e \notin Ended(e.from)
      <4>1. \A x \in R : x.to <= t /\ x # e => x.to <= e.from
        BY <1>1, <3>1
      <4>2. \A x \in R : x.to <= e.from => x.to <= t
        BY <1>1, <2>3, <3>2
      <4>3. ~(e.to <= e.from)
        BY <1>1, <3>1, <3>2
      <4> QED
        BY <2>3, <3>1, <4>1, <4>2, <4>3
    <3>4. SumOver(Tokens, Ended(t)) = Tokens[e] + SumOver(Tokens, Ended(e.from))
      <4>1. \A x \in Ended(e.from) \cup {e} : Tokens[x] \in Int
        BY <1>1, <3>1
      <4>2. IsFiniteSet(Ended(e.from))
        BY <1>3, <3>2
      <4> HIDE DEF Ended
      <4> QED
        BY <3>3, <4>1, <4>2, SumAdd
    <3>5. SumOver(Tokens, Ended(e.from)) <= w[e.from]
      BY <2>4, <3>2
    <3>6. Tokens[e] <= w[t] - w[e.from]
      BY <1>1, <3>1 DEF Pays
    <3>7. /\ w[t] \in Int /\ w[e.from] \in Int /\ Tokens[e] \in Int
          /\ SumOver(Tokens, Ended(e.from)) \in Int
      BY <1>1, <1>2, <1>4, <2>3, <3>2
    <3> HIDE DEF Ended
    <3>8. SumOver(Tokens, Ended(t)) <= w[t]
      BY <3>4, <3>5, <3>6, <3>7
    <3> QED
      BY <2>3, <3>8
  <2>6. CASE ~\E e \in R : e.to = t
    <3>1. CASE t = 0
      <4>1. Ended(t) = {}
        BY <1>1, <2>6, <3>1 DEF Moments
      <4>2. SumOver(Tokens, Ended(t)) = 0 /\ w[t] \in Nat
        <5> HIDE DEF Ended
        <5> QED
          BY <1>2, <2>3, <4>1, SumEmpty
      <4> QED
        BY <2>3, <4>2
    <3>2. CASE t # 0
      <4>1. t - 1 \in Moments /\ t - 1 < t
        BY <2>3, <3>2 DEF Moments
      <4>2. Ended(t) = Ended(t - 1)
        BY <1>1, <2>3, <2>6, <3>2
      <4>3. SumOver(Tokens, Ended(t - 1)) <= w[t - 1] /\ w[t - 1] <= w[t]
        BY <2>3, <2>4, <4>1 DEF IsLedger
      <4>4. w[t - 1] \in Int /\ w[t] \in Int /\ SumOver(Tokens, Ended(t - 1)) \in Int
        BY <1>2, <1>4, <2>3, <4>1
      <4> HIDE DEF Ended
      <4>5. SumOver(Tokens, Ended(t)) <= w[t]
        BY <4>2, <4>3, <4>4
      <4> QED
        BY <2>3, <4>5
    <3> QED
      BY <3>1, <3>2
  <2> QED
    BY <2>5, <2>6
<1>6. MaxTime \in Moments
  BY DEF Moments
<1>7. Ended(MaxTime) = R
  BY <1>1 DEF Moments
<1>8. SumOver(Tokens, Ended(MaxTime)) <= w[MaxTime]
  <2> HIDE DEF Ended
  <2> QED
    BY <1>5, <1>6
<1> QED
  BY <1>7, <1>8

(* What a report attributes to a source is such a sum.                     *)
ImportedFrom(s) == {e \in Loaded : e.source = s}

LEMMA AttributedSums ==
  ASSUME TypeOK, IsFiniteSet(Loaded), NEW s
  PROVE  Attributed(s) = SumOver(Tokens, ImportedFrom(s))
<1> DEFINE S == ImportedFrom(s)
           IsTotal(g) == g = [r \in SUBSET S |->
              IF r = {} THEN 0 ELSE FirstOf(r).tokens + g[r \ {FirstOf(r)}]]
           h == CHOOSE g : IsTotal(g)
<1>1. Attributed(s) = h[S]
  BY DEF Attributed, ImportedFrom, MapThenSumSet, MapThenFoldSet, FirstOf
<1>2. S \in SUBSET Records /\ IsFiniteSet(S)
  <2>1. Loaded \subseteq Records
    BY DEF Loaded, TypeOK
  <2> QED
    BY <2>1, FS_Subset DEF ImportedFrom
<1>3. \A e \in S : Tokens[e] = e.tokens /\ Tokens[e] \in Int
  BY <1>2, RecordFields DEF Tokens
<1>4. PICK g \in [SUBSET S -> Int] : IsSum(Tokens, g, S)
  BY <1>2, <1>3, SumExists
<1>5. \A r \in SUBSET S : r # {} => Tokens[FirstOf(r)] = FirstOf(r).tokens
  BY <1>3, FirstMember
<1>6. \A f : IsTotal(f) <=> IsSum(Tokens, f, S)
  BY <1>5 DEF IsSum, SumStep
<1>7. IsTotal(h)
  BY <1>4, <1>6
<1>8. IsSum(Tokens, h, S)
  BY <1>6, <1>7
<1>9. SumOver(Tokens, S) = h[S]
  <2> HIDE DEF S, h
  <2> QED
    BY <1>2, <1>3, <1>8, SumValue
<1> QED
  BY <1>1, <1>9

LEMMA LedgerBounds ==
  TypeOK /\ LedgerInv /\ Disjoint => NoDoubleAttribution
<1> SUFFICES ASSUME TypeOK, LedgerInv, Disjoint, ~ClockSteps, NEW s \in Sources
             PROVE  Attributed(s) <= spent[s]
  BY DEF NoDoubleAttribution
<1>1. PICK w : Ledger(s, w)
  BY DEF LedgerInv
<1> DEFINE R == ImportedFrom(s)
<1>2. IsFiniteSet(Loaded) /\ Loaded \subseteq Records
  BY DEF LedgerInv, Loaded, TypeOK
<1>3. R \in SUBSET Records /\ IsFiniteSet(R)
  BY <1>2, FS_Subset DEF ImportedFrom
<1>4. R \subseteq Receipts(s)
  BY <1>3 DEF ImportedFrom, Loaded, Receipts
<1>5. \A e \in R : e.from < e.to /\ Pays(w, e)
  BY <1>1, <1>4 DEF Ledger, LedgerInv
<1>6. \A x, y \in R : x # y => x.to <= y.from \/ y.to <= x.from
  BY DEF ImportedFrom, Loaded, Disjoint
<1>7. IsLedger(w) /\ w[MaxTime] <= spent[s]
  BY <1>1 DEF Ledger
<1> HIDE DEF R
<1>8. SumOver(Tokens, R) <= w[MaxTime]
  BY <1>3, <1>5, <1>6, <1>7, DisjointWindowsSum
<1>9. SumOver(Tokens, R) \in Int /\ w[MaxTime] \in Int /\ spent[s] \in Int
  <2>1. \A e \in R : Tokens[e] \in Int
    BY <1>3, RecordFields DEF Tokens
  <2>2. SumOver(Tokens, R) \in Int
    BY <1>3, <2>1, SumInt
  <2> QED
    BY <1>7, <2>2 DEF IsLedger, Moments, TypeOK
<1>10. Attributed(s) = SumOver(Tokens, R)
  BY <1>2, AttributedSums DEF R
<1> QED
  BY <1>7, <1>8, <1>9, <1>10

(* docs/evaluation.md, coordinator effort: however often a growing         *)
(* transcript is measured and imported, no token of a session is           *)
(* attributed twice, as long as its clock is not set back: what a report   *)
(* adds up never exceeds what the session spent.                           *)
THEOREM NothingAttributedTwice == Spec => []NoDoubleAttribution
<1>1. Spec => [](WindowInv /\ TypeOK /\ Bounded)
  BY EffortTypeCorrect, InitWindows, NextWindows, PTL DEF Spec
<1>2. Spec => []LedgerInv
  BY EffortTypeCorrect, InitLedger, NextLedger, PTL DEF Spec
<1>3. WindowInv /\ TypeOK /\ LedgerInv => NoDoubleAttribution
  BY LedgerBounds DEF WindowInv
<1> QED
  BY <1>1, <1>2, <1>3, PTL
=============================================================================
