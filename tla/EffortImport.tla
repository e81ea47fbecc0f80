---------------------------- MODULE EffortImport ----------------------------
(***************************************************************************)
(* Effort accounting. `fanisi coordinator-usage` measures a window of a     *)
(* session's transcript, which the session goes on appending to; the        *)
(* receipt is imported into the study's directory under a lock directory    *)
(* (`fanisi import-coordinator`), and `fanisi report` adds up what was      *)
(* imported. One counter stands for the four token counters, and one study  *)
(* owns the directory.                                                      *)
(***************************************************************************)
EXTENDS Integers, Sequences, FiniteSets, FiniteSetsExt

CONSTANTS
  Importers,       \* processes that import
  Sources,         \* sessions, each with its stable fingerprint
  IDs,             \* identities of effort records
  None, Torn,      \* no file, and one whose write failed half-way
  MaxTime,         \* bound on the clock
  MaxTotal,        \* bound on a counter
  MaxObservations, \* bound on the length of a transcript
  ClockSteps       \* the clock of a session may be set back

Times == 1..MaxTime
Observations == [at : Times, total : 0..MaxTotal]
Records == [id : IDs, source : Sources, from : Times, to : Times,
            tokens : 0..MaxTotal, snapshot : 0..MaxObservations]

ASSUME EffortConstants ==
  /\ MaxTime \in Nat /\ MaxTotal \in Nat /\ MaxObservations \in Nat
  /\ ClockSteps \in BOOLEAN
  /\ None \notin Records /\ Torn \notin Records /\ None # Torn

VARIABLES
  transcript, \* transcript[s]: the cumulative observations of a session
  spent,      \* the tokens that a session really used
  lock,       \* .effort-import-lock
  pc,         \* where an importer is
  draft,      \* the record it is to import
  efforts     \* the effort-ID.json files

vars == <<transcript, spent, lock, pc, draft, efforts>>

TypeOK ==
  /\ transcript \in [Sources -> Seq(Observations)]
  /\ spent \in [Sources -> Nat]
  /\ lock \in BOOLEAN
  /\ pc \in [Importers -> {"idle", "ready", "locked", "write"}]
  /\ draft \in [Importers -> Records \cup {None}]
  /\ \A i \in Importers : pc[i] # "idle" => draft[i] # None
  /\ efforts \in [IDs -> Records \cup {None, Torn}]
  /\ \A id \in IDs : efforts[id] \in Records => efforts[id].id = id

Init ==
  /\ transcript = [s \in Sources |-> << >>]
  /\ spent = [s \in Sources |-> 0]
  /\ lock = FALSE
  /\ pc = [i \in Importers |-> "idle"]
  /\ draft = [i \in Importers |-> None]
  /\ efforts = [id \in IDs |-> None]

Goto(i, place) == pc' = [pc EXCEPT ![i] = place]

(* A session appends its counter, which starts again from 0 when the       *)
(* session is resumed.                                                     *)
Observe(s) ==
  /\ Len(transcript[s]) < MaxObservations
  /\ \E o \in Observations :
       LET n == Len(transcript[s])
           past == IF n = 0 THEN [at |-> 0, total |-> 0] ELSE transcript[s][n]
       IN /\ ClockSteps \/ o.at >= past.at
          /\ transcript' = [transcript EXCEPT ![s] = Append(@, o)]
          /\ spent' = [spent EXCEPT ![s] =
               @ + (IF o.total >= past.total THEN o.total - past.total ELSE o.total)]
  /\ UNCHANGED <<lock, pc, draft, efforts>>

-----------------------------------------------------------------------------
(* Measuring a window: what is after it is skipped, also by the checks of   *)
(* order and of resets.                                                     *)

Seen(obs, to) == {k \in DOMAIN obs : obs[k].at <= to}
Before(obs, from, to) == {k \in Seen(obs, to) : obs[k].at < from}
Within(obs, from, to) == Seen(obs, to) \ Before(obs, from, to)

InOrder(obs, to) ==
  \A j, k \in Seen(obs, to) : j < k => obs[j].at <= obs[k].at

NoReset(obs, from, to) ==
  \A k \in Within(obs, from, to) : \A j \in Seen(obs, to) :
    (j < k /\ ~\E m \in Seen(obs, to) : j < m /\ m < k) => obs[j].total <= obs[k].total

Measurable(obs, from, to) ==
  /\ from < to
  /\ InOrder(obs, to) /\ NoReset(obs, from, to)
  /\ Before(obs, from, to) # {} /\ Within(obs, from, to) # {}
  /\ obs[Max(Before(obs, from, to))].total <= obs[Max(Within(obs, from, to))].total

(* The record has the times of the two observations, not the requested     *)
(* ones; the attribution file names the identity and the source.           *)
EffortOf(id, s, from, to) ==
  LET obs == transcript[s]
      base == obs[Max(Before(obs, from, to))]
      last == obs[Max(Within(obs, from, to))]
  IN [id |-> id, source |-> s, from |-> base.at, to |-> last.at,
      tokens |-> last.total - base.total, snapshot |-> Len(obs)]

Measure(i) ==
  /\ pc[i] = "idle"
  /\ \E id \in IDs, s \in Sources, from, to \in Times :
       /\ Measurable(transcript[s], from, to)
       /\ draft' = [draft EXCEPT ![i] = EffortOf(id, s, from, to)]
  /\ Goto(i, "ready")
  /\ UNCHANGED <<transcript, spent, lock, efforts>>

-----------------------------------------------------------------------------
(* Importing.                                                              *)

\* Mutant: os.MkdirAll instead of os.Mkdir.
TakeLockMkdirAll(i) ==
  /\ pc[i] = "ready"
  /\ lock' = TRUE
  /\ Goto(i, "locked")
  /\ UNCHANGED <<transcript, spent, draft, efforts>>

(* Whoever finds the lock taken gives up; to retry is to import again.     *)
TakeLock(i) ==
  /\ pc[i] = "ready" /\ ~lock
  /\ lock' = TRUE
  /\ Goto(i, "locked")
  /\ UNCHANGED <<transcript, spent, draft, efforts>>

Loaded == {efforts[id] : id \in {j \in IDs : efforts[j] \notin {None, Torn}}}
Unreadable == \E id \in IDs : efforts[id] = Torn

Conflicts(e, old) ==
  \/ e.id = old.id
  \/ e.source = old.source /\ e.from < old.to /\ old.from < e.to

(* A torn record fails the import; so does a record that conflicts with    *)
(* this one, and an identical one is success without a write. The deferred *)
(* call removes the lock. The operator keeps the draft or drops it.        *)
Forget(i) == Goto(i, "idle") /\ draft' = [draft EXCEPT ![i] = None]
Leave(i) == lock' = FALSE /\ ((Goto(i, "ready") /\ UNCHANGED draft) \/ Forget(i))

Refuse(i) ==
  /\ pc[i] = "locked"
  /\ Unreadable \/ \E old \in Loaded : Conflicts(draft[i], old)
  /\ Leave(i)
  /\ UNCHANGED <<transcript, spent, efforts>>

Compare(i) ==
  /\ pc[i] = "locked"
  /\ ~Unreadable
  /\ \A old \in Loaded : ~Conflicts(draft[i], old)
  /\ Goto(i, "write")
  /\ UNCHANGED <<transcript, spent, lock, draft, efforts>>

Write(i) ==
  /\ pc[i] = "write"
  /\ \/ /\ efforts[draft[i].id] = None
        /\ \E file \in {draft[i], Torn} : efforts' = [efforts EXCEPT ![draft[i].id] = file]
     \/ UNCHANGED efforts
  /\ Leave(i)
  /\ UNCHANGED <<transcript, spent>>

Drop(i) ==
  /\ pc[i] = "ready"
  /\ Forget(i)
  /\ UNCHANGED <<transcript, spent, lock, efforts>>

(* A killed import leaves its lock, for the operator to remove.            *)
Kill(i) ==
  /\ pc[i] \in {"locked", "write"}
  /\ Forget(i)
  /\ UNCHANGED <<transcript, spent, lock, efforts>>

RemoveStaleLock ==
  /\ lock /\ \A i \in Importers : pc[i] \notin {"locked", "write"}
  /\ lock' = FALSE
  /\ UNCHANGED <<transcript, spent, pc, draft, efforts>>

Import(i) ==
  Measure(i) \/ TakeLock(i) \/ Refuse(i) \/ Compare(i) \/ Write(i) \/ Drop(i) \/ Kill(i)

Next ==
  \/ \E s \in Sources : Observe(s)
  \/ \E i \in Importers : Import(i)
  \/ RemoveStaleLock

Spec == Init /\ [][Next]_vars

-----------------------------------------------------------------------------
(* What a report says of a source; it fails on a torn record.              *)
Attributed(s) ==
  MapThenSumSet(LAMBDA e : e.tokens,
                {e \in Loaded : e.source = s})

Disjoint ==
  \A x, y \in IDs :
    (/\ x # y
     /\ efforts[x] \notin {None, Torn} /\ efforts[y] \notin {None, Torn}
     /\ efforts[x].source = efforts[y].source) =>
      efforts[x].to <= efforts[y].from \/ efforts[y].to <= efforts[x].from

(* However often a growing transcript is measured, in whatever windows,    *)
(* and however imports race, are killed and are retried, two records of a  *)
(* source never overlap, and together they attribute no token of a session *)
(* twice, as long as its clock is not set back.                            *)
NoDoubleAttribution ==
  Disjoint /\ (~ClockSteps => \A s \in Sources : Attributed(s) <= spent[s])
=============================================================================
