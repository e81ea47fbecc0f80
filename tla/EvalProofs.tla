----------------------------- MODULE EvalProofs -----------------------------
(***************************************************************************)
(* What the records of an evaluation mean, for any number of attempts,     *)
(* contents, reviewers, importers and faults.                              *)
(***************************************************************************)
EXTENDS EvalDelivery, SetLemmas

USE EvalConstants, DeliveryConstants

-----------------------------------------------------------------------------
(* Type correctness.                                                       *)

LEMMA NoRecordType == NoRecord \in Records
BY DEF NoRecord, Records

LEMMA InitType == Init => TypeOK
<1> SUFFICES ASSUME Init
             PROVE  TypeOK
  OBVIOUS
<1>1. AttemptTypeOK
  BY NoRecordType DEF Init, AttemptInit, AttemptTypeOK, Stages, Worktrees, Histories
<1>2. DeliveryInit
  BY DEF Init
<1> QED
  BY <1>1, <1>2 DEF DeliveryInit, TypeOK

(* What the steps of an attempt may count.                                 *)
LEMMA BoundsType ==
  ASSUME AttemptTypeOK, Fault \/ UNCHANGED bounds
  PROVE  faults' \in 0..MaxFaults /\ meddling' \in 0..MaxMeddling
BY DEF AttemptTypeOK, Fault, bounds

LEMMA RecordUpdates ==
  ASSUME NEW m \in Records, NEW b \in BOOLEAN, NEW c \in Contents
  PROVE  /\ [m EXCEPT !.passed = b] \in Records
         /\ [m EXCEPT !.scope = b] \in Records
         /\ [m EXCEPT !.verified = b] \in Records
         /\ [m EXCEPT !.patch = c] \in Records
BY DEF Records

LEMMA HistoryUpdates ==
  ASSUME NEW h \in Histories, NEW b \in BOOLEAN, NEW d \in BOOLEAN, NEW c \in Contents
  PROVE  /\ [h EXCEPT !.judged = c, !.clean = b] \in Histories
         /\ [h EXCEPT !.passed = b, !.edited = d] \in Histories
         /\ [h EXCEPT !.clean = b] \in Histories
         /\ [h EXCEPT !.edited = b, !.meddled = TRUE] \in Histories
BY DEF Histories

LEMMA Readings ==
  ASSUME AttemptTypeOK, NEW a \in Attempts
  PROVE  /\ worktree[a] \in Worktrees /\ worktree[a].candidate \in Contents
         /\ worktree[a].tree \in BOOLEAN /\ worktree[a].inputs \in BOOLEAN
         /\ Intact(a) \in BOOLEAN
         /\ memory[a] \in Records
         /\ memory[a].passed \in BOOLEAN /\ memory[a].scope \in BOOLEAN
         /\ history[a] \in Histories
         /\ history[a].clean \in BOOLEAN /\ history[a].edited \in BOOLEAN
         /\ \A w \in Worktrees : Edited(a, w) \in BOOLEAN
BY DEF AttemptTypeOK, Worktrees, Records, Histories, Intact, Edited

LEMMA GradeType ==
  ASSUME AttemptTypeOK, NEW a \in Attempts, Evaluate(a)
  PROVE  AttemptTypeOK'
<1> USE DEF Goto, bounds, Fail
<1>1. ASSUME Start(a) \/ PrepareFails(a) \/ Check(a) \/ Compare(a) \/ CheckInputs(a)
             \/ GradeFails(a)
      PROVE  AttemptTypeOK'
  BY <1>1 DEF Start, PrepareFails, Check, Compare, CheckInputs, GradeFails, AttemptTypeOK,
              Stages
<1>2. CASE Prepare(a)
  <2>1. PICK c \in Contents :
          /\ worktree' = [worktree EXCEPT ![a] = [worktree[a] EXCEPT !.candidate = c]]
          /\ initial' = [initial EXCEPT ![a] = c]
    BY <1>2 DEF Prepare, Rewrite
  <2> QED
    BY <1>2, <2>1 DEF Prepare, AttemptTypeOK, Stages, Worktrees
<1>3. CASE Work(a)
  BY <1>3 DEF Work, Writes, Rewrite, AttemptTypeOK, Stages
<1>4. CASE StartVerifier(a)
  <2>1. history' = [history EXCEPT ![a] =
          [history[a] EXCEPT !.judged = worktree[a].candidate, !.clean = Intact(a)]]
    BY <1>4 DEF StartVerifier
  <2>2. PICK h \in Histories : history' = [history EXCEPT ![a] = h]
    BY <2>1, Readings, HistoryUpdates
  <2>3. /\ stage' = [stage EXCEPT ![a] = "verifying"]
        /\ UNCHANGED <<worktree, initial, memory, record, patchFile, faults, meddling>>
    BY <1>4 DEF StartVerifier
  <2> QED
    BY <2>2, <2>3 DEF AttemptTypeOK, Stages
<1>5. CASE VerifierReturns(a)
  <2>0. PICK passed \in BOOLEAN, w \in Writes(a) :
          /\ Rewrite(a, w)
          /\ memory' = [memory EXCEPT ![a].passed = passed]
          /\ history' = [history EXCEPT ![a].passed = passed, ![a].edited = Edited(a, w)]
    BY <1>5, Zenon DEF VerifierReturns
  <2>1. /\ worktree' = [worktree EXCEPT ![a] = w]
        /\ memory' = [memory EXCEPT ![a] = [memory[a] EXCEPT !.passed = passed]]
        /\ history' = [history EXCEPT ![a] =
             [history[a] EXCEPT !.passed = passed, !.edited = Edited(a, w)]]
    BY <2>0 DEF Rewrite
  <2>2. w \in Worktrees
    BY DEF Writes
  <2>3. PICK m \in Records : memory' = [memory EXCEPT ![a] = m]
    BY <2>1, Readings, RecordUpdates
  <2>4. PICK h \in Histories : history' = [history EXCEPT ![a] = h]
    <3>1. Edited(a, w) \in BOOLEAN /\ history[a] \in Histories
      BY <2>2, Readings
    <3>2. [history[a] EXCEPT !.passed = passed, !.edited = Edited(a, w)] \in Histories
      <4> DEFINE e == Edited(a, w)
      <4>1. e \in BOOLEAN
        BY <3>1
      <4> HIDE DEF e
      <4>2. [history[a] EXCEPT !.passed = passed, !.edited = e] \in Histories
        BY <3>1, <4>1 DEF Histories
      <4> QED
        BY <4>2 DEF e
    <3> QED
      BY <2>1, <3>2
  <2>5. /\ stage' = [stage EXCEPT ![a] = "compare"]
        /\ UNCHANGED <<initial, record, patchFile, faults, meddling>>
    BY <1>5 DEF VerifierReturns
  <2> QED
    BY <2>1, <2>2, <2>3, <2>4, <2>5 DEF AttemptTypeOK, Stages
<1>6. CASE Audit(a)
  <2>1. memory' = [memory EXCEPT ![a] = [memory[a] EXCEPT !.scope = worktree[a].tree]]
    BY <1>6 DEF Audit
  <2>2. PICK m \in Records : memory' = [memory EXCEPT ![a] = m]
    BY <2>1, Readings, RecordUpdates
  <2>3. /\ stage' \in {[stage EXCEPT ![a] = "patch"], [stage EXCEPT ![a] = "record"]}
        /\ UNCHANGED <<worktree, initial, record, patchFile, faults, meddling, history>>
    BY <1>6 DEF Audit
  <2> QED
    BY <2>2, <2>3 DEF AttemptTypeOK, Stages
<1>7. CASE WritePatch(a)
  <2>1. faults' \in 0..MaxFaults /\ meddling' \in 0..MaxMeddling
    BY <1>7, BoundsType DEF WritePatch
  <2>2. /\ memory' = [memory EXCEPT ![a] =
                       [memory[a] EXCEPT !.patch = worktree[a].candidate]]
        /\ history' = [history EXCEPT ![a] =
                        [history[a] EXCEPT !.clean = history[a].clean /\ Intact(a)]]
    BY <1>7 DEF WritePatch
  <2>3. memory' \in [Attempts -> Records] /\ history' \in [Attempts -> Histories]
    <3>1. (history[a].clean /\ Intact(a)) \in BOOLEAN
      OBVIOUS
    <3> QED
      BY <2>2, <3>1, Readings, RecordUpdates, HistoryUpdates DEF AttemptTypeOK
  <2>4. patchFile' \in [Attempts -> Contents \cup {None, Torn}]
    BY <1>7, Readings DEF WritePatch, AttemptTypeOK
  <2> QED
    BY <1>7, <2>1, <2>3, <2>4 DEF WritePatch, AttemptTypeOK, Stages
<1>8. CASE SetStatus(a)
  <2>1. memory' = [memory EXCEPT ![a] =
          [memory[a] EXCEPT !.verified = memory[a].scope /\ memory[a].passed]]
    BY <1>8 DEF SetStatus
  <2>2. (memory[a].scope /\ memory[a].passed) \in BOOLEAN
    OBVIOUS
  <2>3. PICK m \in Records : memory' = [memory EXCEPT ![a] = m]
    BY <2>1, <2>2, Readings, RecordUpdates
  <2>4. /\ stage' = [stage EXCEPT ![a] = "record"]
        /\ UNCHANGED <<worktree, initial, record, patchFile, faults, meddling, history>>
    BY <1>8 DEF SetStatus
  <2> QED
    BY <2>3, <2>4 DEF AttemptTypeOK, Stages
<1>9. CASE WriteRecord(a)
  <2>1. faults' \in 0..MaxFaults /\ meddling' \in 0..MaxMeddling
    BY <1>9, BoundsType DEF WriteRecord
  <2> QED
    BY <1>9, <2>1 DEF WriteRecord, AttemptTypeOK, Stages
<1> QED
  BY <1>1, <1>2, <1>3, <1>4, <1>5, <1>6, <1>7, <1>8, <1>9 DEF Evaluate, Grade

LEMMA AttemptType ==
  ASSUME AttemptTypeOK, AttemptNext
  PROVE  AttemptTypeOK'
<1> USE DEF Goto
<1>1. ASSUME NEW a \in Attempts, Kill(a)
      PROVE  AttemptTypeOK'
  BY <1>1, BoundsType DEF Kill, AttemptTypeOK, Stages
<1>2. ASSUME NEW a \in Attempts, Meddle(a)
      PROVE  AttemptTypeOK'
  <2>0. PICK w \in Writes(a) :
          /\ Rewrite(a, w)
          /\ history' = [history EXCEPT ![a].edited = Edited(a, w), ![a].meddled = TRUE]
    BY <1>2, Zenon DEF Meddle
  <2>1. /\ worktree' = [worktree EXCEPT ![a] = w]
        /\ history' = [history EXCEPT ![a] =
             [history[a] EXCEPT !.edited = Edited(a, w), !.meddled = TRUE]]
    BY <2>0 DEF Rewrite
  <2>2. w \in Worktrees
    BY DEF Writes
  <2>3. PICK h \in Histories : history' = [history EXCEPT ![a] = h]
    BY <2>1, <2>2, Readings, HistoryUpdates
  <2>4. /\ meddling < MaxMeddling /\ meddling' = meddling + 1
        /\ UNCHANGED <<stage, initial, memory, record, patchFile, faults>>
    BY <1>2 DEF Meddle
  <2> QED
    BY <2>1, <2>2, <2>3, <2>4 DEF AttemptTypeOK
<1>3. ASSUME NEW a \in Attempts, ReplacePatch(a)
      PROVE  AttemptTypeOK'
  BY <1>3 DEF ReplacePatch, AttemptTypeOK
<1> QED
  BY <1>1, <1>2, <1>3, GradeType DEF AttemptNext

(* A review is stamped before it is written.                               *)
Stamped == \A v \in Reviewers :
  reviewer[v] # None /\ reviewer[v].place = "write" => reviewer[v].at \in Times

LEMMA SessionUpdates ==
  ASSUME NEW s \in Sessions, NEW t \in Times,
         NEW place \in {"audit", "compare", "inputs", "stamp", "write"}
  PROVE  /\ [s EXCEPT !.place = place] \in Sessions
         /\ [s EXCEPT !.at = t, !.place = place] \in Sessions
         /\ \A C \in SUBSET {"tree", "candidate", "inputs"} :
              [s EXCEPT !.changed = C] \in Sessions
BY DEF Sessions

LEMMA LookType ==
  ASSUME TypeOK, Stamped, NEW v \in Reviewers, NEW here, NEW ok \in BOOLEAN,
         NEW next \in {"compare", "inputs", "stamp"}, Look(v, here, ok, next)
  PROVE  TypeOK' /\ Stamped'
<1>1. PICK s \in Sessions \cup {None} :
        reviewer' = [reviewer EXCEPT ![v] = s] /\ (s = None \/ s.place = next)
  <2>1. reviewer[v] \in Sessions
    BY DEF Look, TypeOK
  <2>2. reviewer' = [reviewer EXCEPT ![v] =
                       IF ok THEN [reviewer[v] EXCEPT !.place = next] ELSE None]
    BY DEF Look
  <2>3. [reviewer[v] EXCEPT !.place = next].place = next
    BY <2>1 DEF Sessions
  <2>4. [reviewer[v] EXCEPT !.place = next] \in Sessions
    BY <2>1 DEF Sessions
  <2> QED
    BY <2>2, <2>3, <2>4
<1>2. UNCHANGED <<attemptVars, clock, reviews, landings, importer, onBranch, moves,
                  report, published>>
  BY DEF Look
<1> QED
  BY <1>1, <1>2 DEF TypeOK, Stamped, AttemptTypeOK, attemptVars, attemptFiles

LEMMA ReviewType ==
  ASSUME TypeOK, Stamped, NEW v \in Reviewers, Review(v)
  PROVE  TypeOK' /\ Stamped'
<1> USE DEF attemptVars, attemptFiles
<1>1. CASE BeginReview(v)
  <2>1. PICK s \in Sessions :
          reviewer' = [reviewer EXCEPT ![v] = s] /\ s.place # "write"
    <3>1. PICK a \in Attempts, d \in {"accept", "reject"} :
            reviewer' = [reviewer EXCEPT ![v] =
              [place |-> IF d = "accept" THEN "audit" ELSE "stamp", attempt |-> a,
               decision |-> d, at |-> None, changed |-> {}]]
      BY <1>1 DEF BeginReview
    <3> DEFINE place == IF d = "accept" THEN "audit" ELSE "stamp"
               s == [place |-> place, attempt |-> a, decision |-> d, at |-> None,
                     changed |-> {}]
    <3>2. place \in {"audit", "stamp"}
      OBVIOUS
    <3>3. s \in Sessions /\ s.place # "write"
      <4> HIDE DEF place
      <4> QED
        BY <3>2 DEF Sessions
    <3> QED
      BY <3>1, <3>3
  <2> QED
    BY <1>1, <2>1 DEF BeginReview, TypeOK, Stamped, AttemptTypeOK
<1>2. CASE AuditWorktree(v) \/ CompareCandidate(v) \/ HashInputs(v)
  <2>1. reviewer[v] \in Sessions /\ reviewer[v].attempt \in Attempts
    BY <1>2 DEF AuditWorktree, CompareCandidate, HashInputs, TypeOK, Sessions
  <2>2. worktree[reviewer[v].attempt] \in Worktrees
    BY <2>1 DEF TypeOK, AttemptTypeOK
  <2>3. worktree[reviewer[v].attempt].tree \in BOOLEAN
        /\ worktree[reviewer[v].attempt].inputs \in BOOLEAN
    BY <2>2 DEF Worktrees
  <2> QED
    BY <1>2, <2>3, LookType, ZenonT(40) DEF AuditWorktree, CompareCandidate, HashInputs
<1>3. CASE Stamp(v)
  <2>1. reviewer[v] \in Sessions /\ clock + 1 \in Times
    BY <1>3 DEF Stamp, TypeOK, Times
  <2>2. [reviewer[v] EXCEPT !.at = clock + 1, !.place = "write"] \in Sessions
    BY <2>1, SessionUpdates
  <2>3. reviewer' = [reviewer EXCEPT ![v] =
                       [reviewer[v] EXCEPT !.at = clock + 1, !.place = "write"]]
    BY <1>3 DEF Stamp
  <2>4. [reviewer[v] EXCEPT !.at = clock + 1, !.place = "write"].at = clock + 1
    BY <2>1 DEF Sessions
  <2> DEFINE s == [reviewer[v] EXCEPT !.at = clock + 1, !.place = "write"]
  <2>5. s \in Sessions /\ s.at \in Times /\ reviewer' = [reviewer EXCEPT ![v] = s]
    BY <2>1, <2>2, <2>3, <2>4
  <2>6. /\ clock' = clock + 1 /\ clock < MaxReviews
        /\ UNCHANGED <<attemptVars, reviews, landings, importer, onBranch, moves, report,
                       published>>
    BY <1>3 DEF Stamp
  <2> HIDE DEF s
  <2> QED
    BY <2>5, <2>6 DEF TypeOK, Stamped, AttemptTypeOK
<1>4. CASE WriteReview(v)
  <2>1. reviewer[v] \in Sessions /\ reviewer[v].at \in Times
    BY <1>4 DEF WriteReview, TypeOK, Stamped
  <2>2. reviewer[v].attempt \in Attempts /\ reviewer[v].decision \in {"accept", "reject"}
    BY <2>1 DEF Sessions
  <2>3. PICK r \in Reviews : reviews' = [reviews EXCEPT ![reviewer[v].attempt] = @ \cup {r}]
    BY <1>4, <2>1, <2>2 DEF WriteReview, Reviews
  <2>4. reviews' \in [Attempts -> SUBSET Reviews]
    BY <2>2, <2>3 DEF TypeOK
  <2>5. faults' \in 0..MaxFaults /\ meddling' \in 0..MaxMeddling
    BY <1>4, BoundsType DEF WriteReview, TypeOK
  <2> QED
    BY <1>4, <2>4, <2>5 DEF WriteReview, TypeOK, Stamped, AttemptTypeOK
<1>5. CASE AbandonReview(v)
  BY <1>5 DEF AbandonReview, TypeOK, Stamped, AttemptTypeOK
<1> QED
  BY <1>1, <1>2, <1>3, <1>4, <1>5 DEF Review

LEMMA ImportType ==
  ASSUME TypeOK, Stamped, NEW i \in Importers, Import(i)
  PROVE  TypeOK' /\ Stamped'
<1> USE DEF attemptVars, attemptFiles
<1>1. CASE BeginImport(i)
  <2>1. PICK r \in Imports : importer' = [importer EXCEPT ![i] = r]
    BY <1>1 DEF BeginImport, Imports
  <2> QED
    BY <1>1, <2>1 DEF BeginImport, TypeOK, Stamped, AttemptTypeOK
<1>2. CASE WriteLanding(i)
  <2>1. /\ importer[i].attempt \in Attempts /\ importer[i].id \in LandingIDs
        /\ importer[i].landing \in Landings
    BY <1>2 DEF WriteLanding, TypeOK, Imports
  <2>2. landings' \in [Attempts -> [LandingIDs -> Landings \cup {None, Torn}]]
    <3>1. PICK l \in Landings \cup {Torn} :
            landings' \in {landings, [landings EXCEPT ![importer[i].attempt] =
                             [landings[importer[i].attempt] EXCEPT ![importer[i].id] = l]]}
      BY <1>2, <2>1 DEF WriteLanding
    <3> QED
      BY <2>1, <3>1 DEF TypeOK
  <2>3. faults' \in 0..MaxFaults /\ meddling' \in 0..MaxMeddling
    BY <1>2, BoundsType DEF WriteLanding, TypeOK
  <2>4. importer' \in [Importers -> Imports \cup {None}]
    BY <1>2 DEF WriteLanding, TypeOK
  <2> QED
    BY <1>2, <2>2, <2>3, <2>4 DEF WriteLanding, TypeOK, Stamped, AttemptTypeOK
<1> QED
  BY <1>1, <1>2 DEF Import

(* The latest of the reviews on file.                                      *)
LEMMA LatestReview ==
  ASSUME NEW rs \in SUBSET Reviews
  PROVE  /\ Latest(rs) \in Times \cup {None}
         /\ rs # {} => /\ Latest(rs) \in TimesOf(rs) /\ Latest(rs) \in Times
                       /\ \A r \in rs : r.at <= Latest(rs)
<1>1. CASE rs = {}
  BY <1>1 DEF Latest
<1>2. CASE rs # {}
  <2> DEFINE ts == TimesOf(rs)
  <2>1. ts \in SUBSET (0..MaxReviews) /\ ts \subseteq Times /\ ts # {}
        /\ \A r \in rs : r.at \in ts
    BY <1>2 DEF TimesOf, Reviews, Times
  <2>2. Max(ts) \in ts /\ \A t \in ts : t <= Max(ts)
    <3> HIDE DEF ts
    <3> QED
      BY <2>1, BoundedMax
  <2>3. Latest(rs) = Max(ts)
    BY <1>2 DEF Latest
  <2> HIDE DEF ts
  <2>4. Latest(rs) \in ts /\ Latest(rs) \in Times /\ \A r \in rs : r.at <= Latest(rs)
    BY <2>1, <2>2, <2>3
  <2> QED
    BY <1>2, <2>4 DEF ts
<1> QED
  BY <1>1, <1>2

(* The passes of a report take the attempts in their order.                *)
LEMMA FirstLeft ==
  ASSUME NEW S \in SUBSET Attempts, S # {}
  PROVE  Min(S) \in S /\ Min(S) \in Attempts
BY LeastMember

(* What the second pass takes for standing landings are landings.          *)
LEMMA ClaimsType ==
  ASSUME TypeOK, NEW a \in Attempts, NEW latest
  PROVE  /\ Standing(Filed(a), latest) \in SUBSET (LandingIDs \X Landings)
         /\ \A c \in Standing(Filed(a), latest) :
              /\ c = <<c[1], c[2]>> /\ c[2] = landings[a][c[1]] /\ c[1] \in LandingIDs
              /\ c[2].revokes = None /\ c[2].review = latest
              /\ ~Revoked(c[1], Filed(a))
BY DEF Standing, Filed

LEMMA FieldsOfReport ==
  ASSUME NEW r \in Tallies
  PROVE  /\ r.listed \subseteq Attempts /\ r.tallied \subseteq Attempts
         /\ r.accepted \subseteq Attempts \X Times
         /\ r.attempt \in Attempts \cup {None} /\ r.latest \in Times \cup {None}
         /\ r.claims \subseteq LandingIDs \X Landings
         /\ r.done \subseteq Attempts /\ r.counted \subseteq Claims
         /\ r.assisted \in BOOLEAN
         /\ r.floor \in [Attempts -> Times \cup {None}] /\ r.revoked \subseteq Claims
         /\ r.spoiled \subseteq Attempts /\ r.landed \subseteq Contents
BY DEF Tallies

LEMMA MoreLanded ==
  ASSUME NEW r \in Tallies, NEW L \in SUBSET Contents
  PROVE  [r EXCEPT !.landed = L] \in Tallies
BY DEF Tallies

(* The target branch moves while a report is made.                         *)
LEMMA MoveType ==
  ASSUME TypeOK, MoveBranch
  PROVE  TypeOK'
<1>1. onBranch' \in SUBSET Contents /\ moves' \in 0..MaxMoves
  BY DeliveryConstants DEF MoveBranch, TypeOK
<1> DEFINE L == report.landed \cup onBranch'
<1>2. report' = IF report = None THEN None ELSE [report EXCEPT !.landed = L]
  BY DEF MoveBranch
<1>3. report # None => report \in Tallies /\ L \in SUBSET Contents
  BY <1>1, FieldsOfReport DEF TypeOK
<1> HIDE DEF L
<1>4. report' \in Tallies \cup {None}
  BY <1>2, <1>3, MoreLanded
<1>5. UNCHANGED <<attemptVars, clock, reviews, landings, reviewer, importer, published>>
  BY DEF MoveBranch
<1> QED
  BY <1>1, <1>4, <1>5 DEF TypeOK, AttemptTypeOK, attemptVars, attemptFiles

(* A report verifies landings of the attempt it is at.                     *)
Reading == report # None /\ report.claims # {} => report.attempt # None

LEMMA ReportType ==
  ASSUME TypeOK, Stamped, Reading, Report
  PROVE  TypeOK' /\ Stamped'
<1>1. SUFFICES /\ report' \in Tallies \cup {None} /\ published' \in Tallies \cup {None, Torn}
               /\ UNCHANGED <<attemptVars, clock, reviews, landings, reviewer, importer,
                              onBranch, moves>>
  BY DEF TypeOK, Stamped, AttemptTypeOK, attemptVars, attemptFiles
<1>2. UNCHANGED <<attemptVars, clock, reviews, landings, reviewer, importer, onBranch, moves>>
  BY DEF Report, StartReport, Tally, ReadReviews, ReadLandings, VerifyCounted, Publish
<1>3. CASE StartReport
  <2> DEFINE floor == [a \in Attempts |-> Latest(reviews[a])]
             revoked == {c \in Claims : Revoked(c.id, Filed(c.attempt))}
             r == [listed |-> Listed, tallied |-> {}, accepted |-> {}, attempt |-> None,
                   latest |-> None, claims |-> {}, done |-> {}, counted |-> {},
                   assisted |-> FALSE, floor |-> floor, revoked |-> revoked,
                   spoiled |-> Spoiled, landed |-> onBranch]
  <2>1. report' = r /\ published' = published
    BY <1>3 DEF StartReport
  <2>2. floor \in [Attempts -> Times \cup {None}]
    <3>1. \A a \in Attempts : reviews[a] \in SUBSET Reviews
      BY DEF TypeOK
    <3> QED
      BY <3>1, LatestReview
  <2>3. /\ revoked \subseteq Claims /\ Listed \subseteq Attempts
        /\ Spoiled \subseteq Attempts /\ onBranch \subseteq Contents
    BY DEF Listed, Spoiled, TypeOK
  <2>4. r \in Tallies
    <3> HIDE DEF floor, revoked
    <3> QED
      BY <2>2, <2>3 DEF Tallies
  <2> HIDE DEF r
  <2> QED
    BY <1>2, <2>1, <2>4 DEF TypeOK
<1>4. CASE Tally
  <2> DEFINE left == report.listed \ report.tallied
             a == Min(left)
  <2>1. report \in Tallies /\ a \in Attempts
    <3>1. report \in Tallies /\ left # {}
      BY <1>4 DEF Tally, TypeOK
    <3>2. left \in SUBSET Attempts
      BY <3>1, FieldsOfReport
    <3> HIDE DEF left
    <3> QED
      BY <3>1, <3>2, FirstLeft
  <2>2. Accepted(a) \subseteq Times
    <3>1. reviews[a] \in SUBSET Reviews
      BY <2>1 DEF TypeOK
    <3> QED
      BY <3>1 DEF Accepted, Reviews
  <2>3. \/ FailReport
        \/ /\ published' = published
           /\ report' = [report EXCEPT !.tallied = @ \cup {a},
                                       !.accepted = @ \cup ({a} \X Accepted(a))]
    BY <1>4 DEF Tally
  <2>4. [report EXCEPT !.tallied = @ \cup {a},
                       !.accepted = @ \cup ({a} \X Accepted(a))] \in Tallies
    <3>1. report.tallied \cup {a} \in SUBSET Attempts
          /\ report.accepted \cup ({a} \X Accepted(a)) \in SUBSET (Attempts \X Times)
      <4> HIDE DEF a
      <4> QED
        BY <2>1, <2>2, FieldsOfReport
    <3> DEFINE t == report.tallied \cup {a}
               x == report.accepted \cup ({a} \X Accepted(a))
    <3>2. [report EXCEPT !.tallied = t, !.accepted = x] \in Tallies
      <4> HIDE DEF t, x
      <4>1. t \in SUBSET Attempts /\ x \in SUBSET (Attempts \X Times)
        BY <3>1 DEF t, x
      <4> QED
        BY <2>1, <4>1 DEF Tallies
    <3> QED
      BY <3>2
  <2> QED
    BY <1>2, <2>3, <2>4 DEF FailReport, TypeOK
<1>5. CASE ReadReviews
  <2> DEFINE left == report.listed \ report.done
             a == Min(left)
  <2>1. report \in Tallies /\ a \in Attempts
    <3>1. report \in Tallies /\ left # {}
      BY <1>5 DEF ReadReviews, TypeOK
    <3>2. left \in SUBSET Attempts
      BY <3>1, FieldsOfReport
    <3> HIDE DEF left
    <3> QED
      BY <3>1, <3>2, FirstLeft
  <2>2. Latest(reviews[a]) \in Times \cup {None}
    <3>1. reviews[a] \in SUBSET Reviews
      BY <2>1 DEF TypeOK
    <3> QED
      BY <3>1, LatestReview
  <2>3. \/ FailReport
        \/ /\ published' = published
           /\ report' = [report EXCEPT !.attempt = a, !.latest = Latest(reviews[a])]
    BY <1>5 DEF ReadReviews
  <2> DEFINE t == Latest(reviews[a])
  <2>4. [report EXCEPT !.attempt = a, !.latest = t] \in Tallies
    <3>1. t \in Times \cup {None}
      BY <2>2
    <3> HIDE DEF a, t
    <3> QED
      BY <2>1, <3>1 DEF Tallies
  <2> QED
    BY <1>2, <2>3, <2>4 DEF FailReport, TypeOK
<1>6. CASE ReadLandings
  <2> DEFINE a == report.attempt
             claims == Standing(Filed(a), report.latest)
             skipped == [report EXCEPT !.attempt = None, !.latest = None,
                                       !.done = @ \cup {a}]
             claimed == [report EXCEPT !.claims = claims]
  <2>1. report \in Tallies /\ a \in Attempts
    <3>1. report \in Tallies /\ a # None
      BY <1>6 DEF ReadLandings, TypeOK
    <3> QED
      BY <3>1, FieldsOfReport
  <2>2. (FailReport \/ report' = skipped \/ report' = claimed)
        /\ (FailReport \/ published' = published)
    BY <1>6 DEF ReadLandings
  <2>3. claimed \in Tallies
    <3>1. claims \in SUBSET (LandingIDs \X Landings)
      BY <2>1, ClaimsType
    <3> HIDE DEF claims
    <3> QED
      BY <2>1, <3>1 DEF Tallies
  <2>4. skipped \in Tallies
    <3>1. report.done \cup {a} \in SUBSET Attempts
      BY <2>1, FieldsOfReport
    <3> QED
      BY <2>1, <3>1 DEF Tallies
  <2> HIDE DEF skipped, claimed
  <2> QED
    BY <1>2, <2>2, <2>3, <2>4 DEF FailReport, TypeOK
<1>7. CASE VerifyCounted
  <2> DEFINE a == report.attempt
             done == report.done \cup {a}
             counted == report.counted \cup {[attempt |-> a, id |-> c[1]] : c \in report.claims}
             assisted == report.assisted \/ Parent[a] # None
             r == [report EXCEPT !.attempt = None, !.latest = None, !.claims = {},
                                 !.done = done, !.counted = counted, !.assisted = assisted]
  <2>1. report \in Tallies
    BY <1>7 DEF VerifyCounted, TypeOK
  <2>2. FailReport \/ (published' = published /\ report' = r)
    BY <1>7 DEF VerifyCounted
  <2>3. a \in Attempts
    BY <1>7, <2>1, FieldsOfReport DEF VerifyCounted, Reading
  <2>4. r \in Tallies
    <3>1. done \in SUBSET Attempts /\ assisted \in BOOLEAN
      BY <2>1, <2>3, FieldsOfReport
    <3>2. counted \in SUBSET Claims
      BY <2>1, <2>3, FieldsOfReport DEF Claims
    <3> HIDE DEF done, counted, assisted
    <3> QED
      BY <2>1, <3>1, <3>2 DEF Tallies
  <2> HIDE DEF r
  <2> QED
    BY <1>2, <2>2, <2>4 DEF FailReport, TypeOK
<1>8. CASE Publish
  BY <1>2, <1>8 DEF Publish, TypeOK
<1> QED
  BY <1>1, <1>3, <1>4, <1>5, <1>6, <1>7, <1>8 DEF Report

(* The steps that leave the report alone.                                  *)
LEMMA ReadingStep ==
  ASSUME TypeOK, Reading, Report
  PROVE  Reading'
<1>1. CASE StartReport
  BY <1>1 DEF StartReport, Reading
<1>2. CASE Tally
  BY <1>2 DEF Tally, FailReport, Reading, TypeOK, Tallies
<1>3. CASE ReadReviews
  <2>1. report \in Tallies /\ report.attempt = None
    BY <1>3 DEF ReadReviews, TypeOK
  <2>2. report.claims = {}
    BY <1>3, <2>1 DEF Reading, ReadReviews
  <2> QED
    BY <1>3, <2>1, <2>2 DEF ReadReviews, FailReport, Reading, Tallies
<1>4. CASE ReadLandings
  BY <1>4, ZenonT(40) DEF ReadLandings, FailReport, Reading, TypeOK, Tallies
<1>5. CASE VerifyCounted
  BY <1>5 DEF VerifyCounted, FailReport, Reading, TypeOK, Tallies
<1>6. CASE Publish
  BY <1>6 DEF Publish, Reading
<1> QED
  BY <1>1, <1>2, <1>3, <1>4, <1>5, <1>6 DEF Report

(* A write to a worktree marks what it changes in the sessions that have   *)
(* looked at it, and changes nothing else of them.                         *)
LEMMA DisturbType ==
  ASSUME TypeOK, Stamped, Disturb
  PROVE  /\ reviewer' \in [Reviewers -> Sessions \cup {None}]
         /\ Stamped'
<1>1. ASSUME NEW v \in Reviewers, reviewer[v] # None
      PROVE  /\ reviewer'[v] \in Sessions
             /\ reviewer'[v].place = reviewer[v].place
             /\ reviewer'[v].at = reviewer[v].at
  <2> DEFINE C == reviewer[v].changed \cup Changes(reviewer[v])
  <2>1. reviewer[v] \in Sessions
    BY <1>1 DEF TypeOK
  <2>2. C \in SUBSET {"tree", "candidate", "inputs"}
    BY <2>1 DEF Changes, Seen, Sessions
  <2>3. reviewer'[v] = [reviewer[v] EXCEPT !.changed = C]
    BY <1>1 DEF Disturb
  <2> HIDE DEF C
  <2> QED
    BY <2>1, <2>2, <2>3 DEF Sessions
<1>2. \A v \in Reviewers : reviewer[v] = None => reviewer'[v] = None
  BY DEF Disturb
<1>3. reviewer' = [v \in Reviewers |-> reviewer'[v]]
  BY DEF Disturb
<1>4. reviewer' \in [Reviewers -> Sessions \cup {None}]
  BY <1>1, <1>2, <1>3
<1> QED
  BY <1>1, <1>2, <1>4 DEF Stamped

TypeInv == TypeOK /\ Stamped /\ Reading

LEMMA InitTypeInv == Init => TypeInv
BY InitType DEF TypeInv, Init, DeliveryInit, Stamped, Reading

LEMMA NextType == TypeInv /\ [Next]_vars => TypeInv'
<1> SUFFICES ASSUME TypeInv, [Next]_vars
             PROVE  TypeInv'
  OBVIOUS
<1> USE DEF TypeInv
<1>1. CASE Attempting
  BY <1>1, AttemptType, DisturbType DEF Attempting, TypeOK, Reading
<1>2. ASSUME NEW v \in Reviewers, Review(v)
      PROVE  TypeInv'
  <2>1. report' = report
    BY <1>2 DEF Review, BeginReview, AuditWorktree, CompareCandidate, HashInputs, Look, Stamp,
                WriteReview, AbandonReview
  <2> QED
    BY <1>2, <2>1, ReviewType DEF Reading
<1>3. ASSUME NEW i \in Importers, Import(i)
      PROVE  TypeInv'
  <2>1. report' = report
    BY <1>3 DEF Import, BeginImport, WriteLanding
  <2> QED
    BY <1>3, <2>1, ImportType DEF Reading
<1>4. CASE MoveBranch
  <2>1. report # None => report \in Tallies
    BY DEF TypeOK
  <2>2. Reading'
    BY <1>4, <2>1 DEF MoveBranch, Reading, Tallies
  <2> QED
    BY <1>4, <2>2, MoveType DEF MoveBranch, Stamped
<1>5. CASE Report
  <2>1. UNCHANGED reviewer
    BY <1>5 DEF Report, StartReport, Tally, ReadReviews, ReadLandings, VerifyCounted, Publish
  <2> QED
    BY <1>5, ReportType, ReadingStep
<1>6. CASE UNCHANGED vars
  BY <1>6 DEF vars, deliveryVars, TypeOK, Stamped, Reading, AttemptTypeOK, attemptVars,
              attemptFiles
<1> QED
  BY <1>1, <1>2, <1>3, <1>4, <1>5, <1>6 DEF Next

LEMMA Typed == Spec => []TypeInv
BY InitTypeInv, NextType, PTL DEF Spec

(* Type correctness of attempts, reviews, landings and reports.            *)
THEOREM EvalTypeCorrect == Spec => []TypeOK
<1>1. TypeInv => TypeOK
  BY DEF TypeInv
<1> QED
  BY <1>1, Typed, PTL

-----------------------------------------------------------------------------
(* What a recorded verdict rests on.                                       *)

(* The steps of one attempt leave the others alone.                        *)
Same(b) ==
  /\ stage'[b] = stage[b] /\ worktree'[b] = worktree[b] /\ initial'[b] = initial[b]
  /\ memory'[b] = memory[b] /\ record'[b] = record[b] /\ patchFile'[b] = patchFile[b]
  /\ history'[b] = history[b]

Acts(a) == Evaluate(a) \/ Kill(a) \/ Meddle(a) \/ ReplacePatch(a)

LEMMA OthersSame ==
  ASSUME AttemptTypeOK, NEW a \in Attempts, Acts(a), NEW b \in Attempts, b # a
  PROVE  Same(b)
<1> USE DEF Goto, Fail, Rewrite, Same, AttemptTypeOK
<1>1. ASSUME Start(a) \/ Prepare(a) \/ PrepareFails(a) \/ Work(a) \/ Check(a)
             \/ GradeFails(a)
      PROVE  Same(b)
  BY <1>1 DEF Start, Prepare, PrepareFails, Work, Check, GradeFails
<1>2. ASSUME StartVerifier(a) \/ VerifierReturns(a) \/ Compare(a) \/ CheckInputs(a)
      PROVE  Same(b)
  BY <1>2, ZenonT(40) DEF StartVerifier, VerifierReturns, Compare, CheckInputs
<1>3. ASSUME Audit(a) \/ WritePatch(a) \/ SetStatus(a) \/ WriteRecord(a)
      PROVE  Same(b)
  BY <1>3 DEF Audit, WritePatch, SetStatus, WriteRecord
<1>4. ASSUME Kill(a) \/ Meddle(a) \/ ReplacePatch(a)
      PROVE  Same(b)
  BY <1>4 DEF Kill, Meddle, ReplacePatch
<1> QED
  BY <1>1, <1>2, <1>3, <1>4 DEF Acts, Evaluate, Grade

(* The files of an attempt appear once, at the end.                        *)
Unpatched == {"new", "prepare", "worker", "check", "verify", "verifying", "compare",
              "inputs", "audit", "patch"}
Files(a) ==
  /\ stage[a] # "done" => record[a] = None
  /\ stage[a] \in Unpatched => patchFile[a] = None
  /\ record[a] \in Records => record[a] = memory[a]

(* What is known of the candidate at each stage, unless a program outside  *)
(* wrote to the worktree or the candidate changed under the verifier.      *)
Backed(a) ==
  /\ ~history[a].meddled => history[a].clean /\ memory[a].patch # initial[a]
  /\ ~history[a].edited => memory[a].patch = history[a].judged

Graded(a) ==
  /\ stage[a] \notin {"record", "done", "killed"} => ~memory[a].verified
  /\ stage[a] \in {"new", "prepare", "worker", "check", "verify"} =>
       history[a].judged = None /\ ~history[a].edited
  /\ stage[a] = "verify" /\ ~history[a].meddled => Intact(a)
  /\ stage[a] \in {"verifying", "compare", "inputs", "audit", "patch"} =>
       /\ ~history[a].meddled => history[a].clean
       /\ ~history[a].edited => worktree[a].candidate = history[a].judged
       /\ history[a].judged # None
  /\ stage[a] \in {"compare", "inputs", "audit", "patch", "status"} =>
       memory[a].passed = history[a].passed
  /\ stage[a] \in {"inputs", "audit", "patch"} /\ ~history[a].meddled =>
       worktree[a].candidate # initial[a]
  /\ stage[a] \in {"audit", "patch"} /\ ~history[a].meddled => worktree[a].inputs
  /\ stage[a] = "patch" /\ ~history[a].meddled => worktree[a].tree
  /\ stage[a] = "status" => Backed(a)
  /\ memory[a].verified => history[a].passed /\ Backed(a)
  /\ patchFile[a] \in Contents => Backed(a) /\ memory[a].passed = history[a].passed

AttemptInv == \A a \in Attempts : Files(a) /\ Graded(a)

LEMMA SameKeeps ==
  ASSUME NEW b \in Attempts, Same(b), Files(b), Graded(b)
  PROVE  Files(b)' /\ Graded(b)'
BY DEF Same, Files, Graded, Backed, Intact

LEMMA FilesStep ==
  ASSUME AttemptTypeOK, NEW a \in Attempts, Acts(a), Files(a)
  PROVE  /\ Files(a)'
         /\ Kept(record[a], record'[a])
         /\ meddling' = meddling => Kept(patchFile[a], patchFile'[a])
<1> USE DEF Goto, Fail, Files, Kept, Unpatched, AttemptTypeOK
<1>1. ASSUME Start(a) \/ Prepare(a) \/ PrepareFails(a) \/ Work(a) \/ Check(a)
             \/ GradeFails(a)
      PROVE  /\ Files(a)' /\ Kept(record[a], record'[a])
             /\ Kept(patchFile[a], patchFile'[a])
  BY <1>1 DEF Start, Prepare, PrepareFails, Work, Check, GradeFails
<1>2. ASSUME StartVerifier(a) \/ VerifierReturns(a) \/ Compare(a) \/ CheckInputs(a) \/ Audit(a)
      PROVE  /\ Files(a)' /\ Kept(record[a], record'[a])
             /\ Kept(patchFile[a], patchFile'[a])
  BY <1>2 DEF StartVerifier, VerifierReturns, Compare, CheckInputs, Audit
<1>3. ASSUME WritePatch(a) \/ SetStatus(a)
      PROVE  /\ Files(a)' /\ Kept(record[a], record'[a])
             /\ Kept(patchFile[a], patchFile'[a])
  <2>1. stage[a] # "done" /\ record[a] = None /\ record' = record /\ stage'[a] # "done"
    BY <1>3 DEF WritePatch, SetStatus
  <2>2. stage'[a] \notin Unpatched /\ Kept(patchFile[a], patchFile'[a])
    BY <1>3 DEF WritePatch, SetStatus
  <2> QED
    BY <2>1, <2>2 DEF Records
<1>4. ASSUME WriteRecord(a)
      PROVE  /\ Files(a)' /\ Kept(record[a], record'[a])
             /\ Kept(patchFile[a], patchFile'[a])
  BY <1>4 DEF WriteRecord
<1>5. ASSUME Kill(a) \/ Meddle(a) \/ ReplacePatch(a)
      PROVE  /\ Files(a)' /\ Kept(record[a], record'[a])
             /\ meddling' = meddling => Kept(patchFile[a], patchFile'[a])
  BY <1>5 DEF Kill, Over, Meddle, ReplacePatch, Fault
<1> QED
  BY <1>1, <1>2, <1>3, <1>4, <1>5 DEF Acts, Evaluate, Grade

(* Fields of a record after an update.                                     *)
LEMMA HistoryFields ==
  ASSUME NEW h \in Histories, NEW b, NEW d
  PROVE  /\ \A c : LET g == [h EXCEPT !.judged = c, !.clean = b] IN
              /\ g.judged = c /\ g.clean = b /\ g.edited = h.edited
              /\ g.meddled = h.meddled /\ g.passed = h.passed
         /\ LET g == [h EXCEPT !.passed = b, !.edited = d] IN
              /\ g.judged = h.judged /\ g.clean = h.clean /\ g.edited = d
              /\ g.meddled = h.meddled /\ g.passed = b
         /\ LET g == [h EXCEPT !.clean = b] IN
              /\ g.judged = h.judged /\ g.clean = b /\ g.edited = h.edited
              /\ g.meddled = h.meddled /\ g.passed = h.passed
         /\ LET g == [h EXCEPT !.edited = d, !.meddled = TRUE] IN
              /\ g.judged = h.judged /\ g.clean = h.clean /\ g.edited = d
              /\ g.meddled = TRUE /\ g.passed = h.passed
BY DEF Histories

LEMMA MemoryFields ==
  ASSUME NEW m \in Records, NEW b
  PROVE  /\ LET n == [m EXCEPT !.passed = b] IN
              n.verified = m.verified /\ n.passed = b /\ n.patch = m.patch
         /\ LET n == [m EXCEPT !.scope = b] IN
              n.verified = m.verified /\ n.passed = m.passed /\ n.patch = m.patch
         /\ LET n == [m EXCEPT !.patch = b] IN
              n.verified = m.verified /\ n.passed = m.passed /\ n.patch = b
         /\ LET n == [m EXCEPT !.verified = b] IN
              n.verified = b /\ n.passed = m.passed /\ n.patch = m.patch
BY DEF Records

LEMMA GradedStep ==
  ASSUME AttemptTypeOK, NEW a \in Attempts, Acts(a), Files(a), Graded(a)
  PROVE  Graded(a)'
<1> USE DEF Goto, Fail
<1>a. /\ worktree[a] \in Worktrees /\ worktree[a].candidate \in Contents
      /\ memory[a] \in Records /\ history[a] \in Histories
      /\ stage \in [Attempts -> Stages] /\ memory \in [Attempts -> Records]
      /\ history \in [Attempts -> Histories] /\ worktree \in [Attempts -> Worktrees]
      /\ initial \in [Attempts -> Contents]
  BY Readings DEF AttemptTypeOK
<1>b. stage[a] \in Unpatched => patchFile[a] \notin Contents
  BY DEF Files
<1>1. ASSUME Start(a) \/ PrepareFails(a) \/ Check(a) \/ Compare(a) \/ CheckInputs(a)
             \/ GradeFails(a) \/ Kill(a)
      PROVE  Graded(a)'
  <2>1. CASE ~Kill(a)
    <3>1. /\ UNCHANGED <<worktree, initial, memory, history, patchFile>>
          /\ stage[a] \notin {"record", "done", "killed"}
          /\ \/ stage[a] = "new" /\ stage'[a] = "prepare"
             \/ stage[a] = "check" /\ stage'[a] = "verify" /\ Intact(a)
             \/ stage[a] = "compare" /\ stage'[a] = "inputs"
                /\ worktree[a].candidate # initial[a]
             \/ stage[a] = "inputs" /\ stage'[a] = "audit" /\ worktree[a].inputs
             \/ stage'[a] = "record"
      BY <1>1, <1>a, <2>1 DEF Start, PrepareFails, Check, Compare, CheckInputs, GradeFails
    <3> QED
      BY <3>1 DEF Graded, Backed, Intact
  <2>2. CASE Kill(a)
    BY <1>a, <2>2 DEF Kill, Graded, Backed
  <2> QED
    BY <2>1, <2>2
<1>2. ASSUME Prepare(a) \/ Work(a)
      PROVE  Graded(a)'
  <2>1. /\ stage[a] \in {"prepare", "worker"} /\ stage'[a] \in {"worker", "check"}
        /\ memory' = memory /\ history' = history /\ patchFile' = patchFile
    BY <1>2, <1>a DEF Prepare, Work
  <2> QED
    BY <1>b, <2>1 DEF Graded, Unpatched
<1>3. CASE StartVerifier(a)
  <2>1. /\ stage[a] = "verify" /\ stage'[a] = "verifying"
        /\ UNCHANGED <<worktree, initial, memory, patchFile>>
        /\ history'[a] = [history[a] EXCEPT !.judged = worktree[a].candidate,
                                            !.clean = Intact(a)]
    BY <1>3, <1>a DEF StartVerifier
  <2>2. /\ history'[a].judged = worktree[a].candidate /\ history'[a].clean = Intact(a)
        /\ history'[a].edited = history[a].edited /\ history'[a].meddled = history[a].meddled
    BY <1>a, <2>1, HistoryFields
  <2>3. worktree[a].candidate # None
    BY <1>a
  <2> QED
    BY <1>b, <2>1, <2>2, <2>3 DEF Graded, Unpatched
<1>4. CASE VerifierReturns(a)
  <2>1. PICK passed \in BOOLEAN, w \in Writes(a) :
          /\ Rewrite(a, w)
          /\ memory' = [memory EXCEPT ![a].passed = passed]
          /\ history' = [history EXCEPT ![a].passed = passed, ![a].edited = Edited(a, w)]
    BY <1>4, Zenon DEF VerifierReturns
  <2>2. /\ worktree'[a] = w
        /\ memory'[a] = [memory[a] EXCEPT !.passed = passed]
        /\ history'[a] = [history[a] EXCEPT !.passed = passed, !.edited = Edited(a, w)]
    BY <1>a, <2>1 DEF Rewrite
  <2>3. /\ history'[a].judged = history[a].judged /\ history'[a].clean = history[a].clean
        /\ history'[a].meddled = history[a].meddled /\ history'[a].passed = passed
        /\ history'[a].edited = Edited(a, w)
    <3> DEFINE d == Edited(a, w)
    <3>1. history'[a] = [history[a] EXCEPT !.passed = passed, !.edited = d]
      BY <2>2
    <3> HIDE DEF d
    <3>2. /\ history'[a].judged = history[a].judged /\ history'[a].clean = history[a].clean
          /\ history'[a].meddled = history[a].meddled /\ history'[a].passed = passed
          /\ history'[a].edited = d
      BY <1>a, <3>1, HistoryFields
    <3> QED
      BY <3>2 DEF d
  <2>4. memory'[a].verified = memory[a].verified /\ memory'[a].passed = passed
    BY <1>a, <2>2, MemoryFields
  <2>5. /\ stage[a] = "verifying" /\ stage'[a] = "compare"
        /\ UNCHANGED <<initial, patchFile>>
    BY <1>4, <1>a DEF VerifierReturns
  <2> QED
    BY <1>b, <2>2, <2>3, <2>4, <2>5 DEF Graded, Edited, Unpatched
<1>5. CASE Audit(a)
  <2>1. /\ stage[a] = "audit" /\ UNCHANGED <<worktree, initial, history, patchFile>>
        /\ (stage'[a] = "patch" /\ worktree[a].tree) \/ stage'[a] = "record"
        /\ memory'[a] = [memory[a] EXCEPT !.scope = worktree[a].tree]
    BY <1>5, <1>a DEF Audit
  <2>2. memory'[a].verified = memory[a].verified /\ memory'[a].passed = memory[a].passed
    BY <1>a, <2>1, MemoryFields
  <2> QED
    BY <1>b, <2>1, <2>2 DEF Graded, Unpatched
<1>6. CASE WritePatch(a)
  <2>1. /\ stage[a] = "patch" /\ stage'[a] \in {"status", "record"}
        /\ stage'[a] = "record" => patchFile'[a] \notin Contents
        /\ UNCHANGED <<worktree, initial>>
        /\ memory'[a] = [memory[a] EXCEPT !.patch = worktree[a].candidate]
        /\ history'[a] = [history[a] EXCEPT !.clean = history[a].clean /\ Intact(a)]
    BY <1>6, <1>a, <1>b DEF WritePatch, AttemptTypeOK, Unpatched
  <2>2. /\ memory'[a].verified = memory[a].verified /\ memory'[a].passed = memory[a].passed
        /\ memory'[a].patch = worktree[a].candidate
    BY <1>a, <2>1, MemoryFields
  <2>3. /\ history'[a].judged = history[a].judged /\ history'[a].edited = history[a].edited
        /\ history'[a].meddled = history[a].meddled /\ history'[a].passed = history[a].passed
        /\ history'[a].clean = (history[a].clean /\ Intact(a))
    <3> DEFINE b == history[a].clean /\ Intact(a)
    <3>1. history'[a] = [history[a] EXCEPT !.clean = b]
      BY <2>1
    <3> HIDE DEF b
    <3>2. /\ history'[a].judged = history[a].judged /\ history'[a].edited = history[a].edited
          /\ history'[a].meddled = history[a].meddled /\ history'[a].passed = history[a].passed
          /\ history'[a].clean = b
      BY <1>a, <3>1, HistoryFields
    <3> QED
      BY <3>2 DEF b
  <2> QED
    BY <2>1, <2>2, <2>3 DEF Graded, Backed, Intact
<1>7. CASE SetStatus(a)
  <2>1. /\ stage[a] = "status" /\ stage'[a] = "record"
        /\ UNCHANGED <<worktree, initial, history, patchFile>>
        /\ memory'[a] = [memory[a] EXCEPT !.verified = memory[a].scope /\ memory[a].passed]
    BY <1>7, <1>a DEF SetStatus
  <2>2. /\ memory'[a].verified => memory[a].passed
        /\ memory'[a].patch = memory[a].patch /\ memory'[a].passed = memory[a].passed
    <3> DEFINE b == memory[a].scope /\ memory[a].passed
    <3>1. memory'[a] = [memory[a] EXCEPT !.verified = b]
      BY <2>1
    <3> HIDE DEF b
    <3>2. /\ memory'[a].verified = b /\ memory'[a].patch = memory[a].patch
          /\ memory'[a].passed = memory[a].passed
      BY <1>a, <3>1, MemoryFields
    <3> QED
      BY <3>2 DEF b
  <2> QED
    BY <2>1, <2>2 DEF Graded, Backed
<1>8. CASE WriteRecord(a)
  <2>1. /\ stage[a] = "record" /\ stage'[a] = "done"
        /\ UNCHANGED <<worktree, initial, memory, history, patchFile>>
    BY <1>8, <1>a DEF WriteRecord
  <2> QED
    BY <2>1 DEF Graded, Backed
<1>9. CASE Meddle(a)
  <2>1. PICK w \in Writes(a) :
          /\ Rewrite(a, w)
          /\ history' = [history EXCEPT ![a].edited = Edited(a, w), ![a].meddled = TRUE]
    BY <1>9, Zenon DEF Meddle
  <2>2. /\ worktree'[a] = w
        /\ history'[a] = [history[a] EXCEPT !.edited = Edited(a, w), !.meddled = TRUE]
    BY <1>a, <2>1 DEF Rewrite
  <2>3. /\ history'[a].judged = history[a].judged /\ history'[a].meddled = TRUE
        /\ history'[a].passed = history[a].passed
        /\ history'[a].edited = Edited(a, w)
    <3> DEFINE d == Edited(a, w)
    <3>1. history'[a] = [history[a] EXCEPT !.edited = d, !.meddled = TRUE]
      BY <2>2
    <3> HIDE DEF d
    <3>2. /\ history'[a].judged = history[a].judged /\ history'[a].meddled = TRUE
          /\ history'[a].passed = history[a].passed
          /\ history'[a].edited = d
      BY <1>a, <3>1, HistoryFields
    <3> QED
      BY <3>2 DEF d
  <2>4. UNCHANGED <<stage, initial, memory, patchFile>>
    BY <1>9 DEF Meddle
  <2> QED
    BY <2>2, <2>3, <2>4 DEF Graded, Backed, Edited
<1>10. CASE ReplacePatch(a)
  <2>1. /\ UNCHANGED <<stage, worktree, initial, memory, history>>
        /\ patchFile'[a] \notin Contents
    BY <1>10 DEF ReplacePatch, AttemptTypeOK
  <2> QED
    BY <2>1 DEF Graded, Backed, Intact
<1> QED
  BY <1>1, <1>2, <1>3, <1>4, <1>5, <1>6, <1>7, <1>8, <1>9, <1>10
  DEF Acts, Evaluate, Grade

(* What the commands after an evaluation leave alone.                      *)
LEMMA DeliveryLeavesAttempts ==
  ASSUME Next
  PROVE  Attempting \/ UNCHANGED attemptFiles
<1>1. ASSUME NEW v \in Reviewers, Review(v)
      PROVE  UNCHANGED attemptFiles
  BY <1>1 DEF Review, BeginReview, AuditWorktree, CompareCandidate, HashInputs, Look, Stamp,
              WriteReview, AbandonReview, attemptVars
<1>2. ASSUME NEW i \in Importers, Import(i)
      PROVE  UNCHANGED attemptFiles
  BY <1>2 DEF Import, BeginImport, WriteLanding, attemptVars
<1>3. ASSUME MoveBranch \/ Report
      PROVE  UNCHANGED attemptFiles
  BY <1>3 DEF MoveBranch, Report, StartReport, Tally, ReadReviews, ReadLandings,
              VerifyCounted, Publish, attemptVars
<1> QED
  BY <1>1, <1>2, <1>3 DEF Next

LEMMA InitAttempt == Init => AttemptInv
BY DEF Init, AttemptInit, AttemptInv, Files, Graded, NoRecord

LEMMA NextAttempt ==
  ASSUME TypeInv, AttemptInv, [Next]_vars
  PROVE  /\ AttemptInv'
         /\ \A a \in Attempts :
              /\ Kept(record[a], record'[a])
              /\ meddling' = meddling => Kept(patchFile[a], patchFile'[a])
<1>1. CASE UNCHANGED attemptFiles
  BY <1>1 DEF attemptFiles, AttemptInv, Files, Graded, Backed, Intact, Kept
<1>2. CASE Attempting
  <2>1. PICK a \in Attempts : Acts(a)
    BY <1>2 DEF Attempting, AttemptNext, Acts
  <2>2. AttemptTypeOK
    BY DEF TypeInv, TypeOK
  <2>3. \A b \in Attempts \ {a} : Same(b)
    BY <2>1, <2>2, OthersSame
  <2>4. /\ Files(a)' /\ Graded(a)' /\ Kept(record[a], record'[a])
        /\ meddling' = meddling => Kept(patchFile[a], patchFile'[a])
    BY <2>1, <2>2, FilesStep, GradedStep DEF AttemptInv
  <2>5. \A b \in Attempts \ {a} : Files(b)' /\ Graded(b)'
    BY <2>3, SameKeeps DEF AttemptInv
  <2> QED
    BY <2>3, <2>4, <2>5 DEF AttemptInv, Same, Kept
<1> QED
  BY <1>1, <1>2, DeliveryLeavesAttempts DEF vars, attemptVars

LEMMA AttemptHolds == Spec => []AttemptInv
BY Typed, InitAttempt, NextAttempt, PTL DEF Spec

LEMMA InvVerdict == TypeInv /\ AttemptInv => VerdictSound
BY ZenonT(40) DEF TypeInv, TypeOK, AttemptInv, Files, Graded, Backed, VerdictSound

(* An attempt recorded as verified passed the verifier on the patch it     *)
(* names, with everything else intact, unless a program outside interfered.*)
THEOREM VerdictHolds == Spec => []VerdictSound
BY Typed, AttemptHolds, InvVerdict, PTL

(* Reviews and landings are only added.                                    *)
LEMMA DeliveryKept ==
  ASSUME TypeInv, [Next]_vars, NEW a \in Attempts
  PROVE  /\ reviews[a] \subseteq reviews'[a]
         /\ \A id \in LandingIDs : Kept(landings[a][id], landings'[a][id])
<1> USE DEF Kept
<1>1. ASSUME NEW v \in Reviewers, Review(v)
      PROVE  reviews[a] \subseteq reviews'[a] /\ landings' = landings
  <2>1. CASE WriteReview(v)
    BY <2>1 DEF WriteReview, TypeInv, TypeOK
  <2> QED
    BY <1>1, <2>1 DEF Review, BeginReview, AuditWorktree, CompareCandidate, HashInputs, Look,
                      Stamp, AbandonReview
<1>2. ASSUME NEW i \in Importers, Import(i)
      PROVE  /\ reviews' = reviews
             /\ \A id \in LandingIDs : Kept(landings[a][id], landings'[a][id])
  <2>1. CASE WriteLanding(i)
    <3>1. /\ importer[i].attempt \in Attempts /\ importer[i].id \in LandingIDs
          /\ landings \in [Attempts -> [LandingIDs -> Landings \cup {None, Torn}]]
      BY <2>1 DEF WriteLanding, TypeInv, TypeOK, Imports
    <3>2. \/ landings' = landings
          \/ /\ landings[importer[i].attempt][importer[i].id] = None
             /\ \E l \in {importer[i].landing, Torn} :
                  landings' = [landings EXCEPT ![importer[i].attempt] =
                    [landings[importer[i].attempt] EXCEPT ![importer[i].id] = l]]
      BY <2>1 DEF WriteLanding, LandingFile
    <3>3. reviews' = reviews
      BY <2>1 DEF WriteLanding
    <3> QED
      BY <3>1, <3>2, <3>3
  <2> QED
    BY <1>2, <2>1 DEF Import, BeginImport
<1>3. ASSUME Attempting \/ MoveBranch \/ Report \/ UNCHANGED vars
      PROVE  reviews' = reviews /\ landings' = landings
  BY <1>3 DEF Attempting, MoveBranch, Report, StartReport, Tally, ReadReviews, ReadLandings,
              VerifyCounted, Publish, vars, deliveryVars
<1> QED
  BY <1>1, <1>2, <1>3 DEF Next

(* No step rewrites or removes a record, a patch, a review or a landing.   *)
THEOREM LedgerHolds == Spec => LedgerAppendOnly
<1>1. TypeInv /\ AttemptInv /\ [Next]_vars =>
        [\A a \in Attempts :
           /\ Kept(record[a], record'[a])
           /\ meddling' = meddling => Kept(patchFile[a], patchFile'[a])
           /\ reviews[a] \subseteq reviews'[a]
           /\ \A id \in LandingIDs : Kept(landings[a][id], landings'[a][id])]_vars
  BY NextAttempt, DeliveryKept
<1> QED
  BY <1>1, Typed, AttemptHolds, PTL DEF Spec, LedgerAppendOnly

-----------------------------------------------------------------------------
(* What a review has seen.                                                 *)

Sight(v) ==
  LET s == reviewer[v]
      a == s.attempt
  IN s.decision = "accept" =>
       /\ record[a] \in Records /\ record[a].verified
       /\ s.place # "audit" /\ "tree" \notin s.changed => worktree[a].tree
       /\ s.place \in {"inputs", "stamp", "write"} /\ "candidate" \notin s.changed =>
            worktree[a].candidate = record[a].patch
       /\ s.place \in {"stamp", "write"} /\ "inputs" \notin s.changed =>
            worktree[a].inputs

Sights == \A v \in Reviewers : reviewer[v] # None => Sight(v)

LEMMA SessionFields ==
  ASSUME NEW s \in Sessions, NEW x, NEW t
  PROVE  /\ LET r == [s EXCEPT !.place = x] IN
              /\ r.place = x /\ r.attempt = s.attempt /\ r.decision = s.decision
              /\ r.changed = s.changed
         /\ LET r == [s EXCEPT !.at = t, !.place = x] IN
              /\ r.place = x /\ r.attempt = s.attempt /\ r.decision = s.decision
              /\ r.changed = s.changed
         /\ LET r == [s EXCEPT !.changed = x] IN
              /\ r.place = s.place /\ r.attempt = s.attempt /\ r.decision = s.decision
              /\ r.changed = x
BY DEF Sessions

LEMMA SessionOf ==
  ASSUME TypeOK, NEW v \in Reviewers, reviewer[v] # None
  PROVE  /\ reviewer[v] \in Sessions /\ reviewer[v].attempt \in Attempts
         /\ reviewer \in [Reviewers -> Sessions \cup {None}]
BY DEF TypeOK, Sessions

LEMMA LookSees ==
  ASSUME TypeOK, Sights, NEW v \in Reviewers, NEW here, NEW ok \in BOOLEAN,
         NEW next \in {"compare", "inputs", "stamp"}, Look(v, here, ok, next),
         LET a == reviewer[v].attempt IN
         \/ here = "audit" /\ next = "compare" /\ (ok => worktree[a].tree)
         \/ /\ here = "compare" /\ next = "inputs"
            /\ ok => worktree[a].candidate = record[a].patch
         \/ here = "inputs" /\ next = "stamp" /\ (ok => worktree[a].inputs)
  PROVE  Sights'
<1>1. /\ reviewer[v] # None /\ reviewer[v].place = here
      /\ worktree' = worktree /\ record' = record
      /\ reviewer' = [reviewer EXCEPT ![v] =
           IF ok THEN [reviewer[v] EXCEPT !.place = next] ELSE None]
  BY DEF Look, attemptVars, attemptFiles
<1>2. reviewer[v] \in Sessions /\ reviewer \in [Reviewers -> Sessions \cup {None}]
  BY <1>1, SessionOf
<1> DEFINE r == [reviewer[v] EXCEPT !.place = next]
<1>3. /\ r.place = next /\ r.attempt = reviewer[v].attempt
      /\ r.decision = reviewer[v].decision /\ r.changed = reviewer[v].changed
  BY <1>2, SessionFields
<1>4. reviewer'[v] = None \/ (ok /\ reviewer'[v] = r)
  BY <1>1, <1>2
<1>5. \A w \in Reviewers \ {v} : reviewer'[w] = reviewer[w]
  BY <1>1, <1>2
<1> HIDE DEF r
<1>6. ASSUME reviewer'[v] # None
      PROVE  Sight(v)'
  BY <1>1, <1>3, <1>4, <1>6 DEF Sights, Sight
<1>7. ASSUME NEW w \in Reviewers \ {v}, reviewer'[w] # None
      PROVE  Sight(w)'
  <2>1. reviewer[w] # None /\ reviewer'[w] = reviewer[w] /\ Sight(w)
    BY <1>5, <1>7 DEF Sights
  <2> QED
    BY <1>1, <2>1 DEF Sight
<1> QED
  BY <1>6, <1>7 DEF Sights

LEMMA ReviewSees ==
  ASSUME TypeOK, Sights, NEW v \in Reviewers, Review(v)
  PROVE  Sights'
<1> USE DEF attemptVars, attemptFiles
<1>1. CASE BeginReview(v)
  <2>1. PICK a \in Attempts, d \in {"accept", "reject"} :
          /\ d = "accept" => record[a] \in Records /\ record[a].verified
          /\ reviewer' = [reviewer EXCEPT ![v] =
               [place |-> IF d = "accept" THEN "audit" ELSE "stamp", attempt |-> a,
                decision |-> d, at |-> None, changed |-> {}]]
    BY <1>1 DEF BeginReview, CandidateIntact
  <2>2. worktree' = worktree /\ record' = record
    BY <1>1 DEF BeginReview
  <2>3. Sight(v)'
    BY <2>1, <2>2 DEF TypeOK, Sight
  <2>4. \A w \in Reviewers \ {v} : reviewer'[w] = reviewer[w]
    BY <2>1 DEF TypeOK
  <2> QED
    BY <2>2, <2>3, <2>4 DEF Sights, Sight
<1>2. CASE AuditWorktree(v) \/ CompareCandidate(v) \/ HashInputs(v)
  <2>1. reviewer[v] \in Sessions /\ reviewer[v].attempt \in Attempts
    BY <1>2, SessionOf DEF AuditWorktree, CompareCandidate, HashInputs
  <2>2. worktree[reviewer[v].attempt] \in Worktrees
    BY <2>1 DEF TypeOK, AttemptTypeOK
  <2>3. worktree[reviewer[v].attempt].tree \in BOOLEAN
        /\ worktree[reviewer[v].attempt].inputs \in BOOLEAN
    BY <2>2 DEF Worktrees
  <2>4. CASE AuditWorktree(v)
    BY <2>3, <2>4, LookSees DEF AuditWorktree
  <2>5. CASE CompareCandidate(v)
    BY <2>5, LookSees DEF CompareCandidate
  <2>6. CASE HashInputs(v)
    BY <2>3, <2>6, LookSees DEF HashInputs
  <2> QED
    BY <1>2, <2>4, <2>5, <2>6
<1>3. CASE Stamp(v)
  <2> DEFINE r == [reviewer[v] EXCEPT !.at = clock + 1, !.place = "write"]
  <2>1. /\ reviewer[v] # None /\ reviewer[v].place = "stamp" /\ reviewer' = [reviewer EXCEPT ![v] = r]
        /\ worktree' = worktree /\ record' = record
    BY <1>3 DEF Stamp
  <2>2. reviewer[v] \in Sessions /\ reviewer \in [Reviewers -> Sessions \cup {None}]
    BY <2>1, SessionOf
  <2>3. /\ r.place = "write" /\ r.attempt = reviewer[v].attempt
        /\ r.decision = reviewer[v].decision /\ r.changed = reviewer[v].changed
    BY <2>2, SessionFields
  <2> HIDE DEF r
  <2>4. Sight(v)'
    BY <2>1, <2>2, <2>3 DEF Sights, Sight
  <2>5. \A w \in Reviewers \ {v} : reviewer'[w] = reviewer[w]
    BY <2>1, <2>2
  <2> QED
    BY <2>1, <2>4, <2>5 DEF Sights, Sight
<1>4. CASE WriteReview(v) \/ AbandonReview(v)
  <2>1. /\ reviewer' = [reviewer EXCEPT ![v] = None]
        /\ worktree' = worktree /\ record' = record
    BY <1>4 DEF WriteReview, AbandonReview
  <2> QED
    BY <2>1 DEF Sights, Sight, TypeOK
<1> QED
  BY <1>1, <1>2, <1>3, <1>4 DEF Review

(* A write to a worktree is marked in the sessions that looked at it.       *)
LEMMA DisturbedSees ==
  ASSUME TypeInv, AttemptInv, Sights, [Next]_vars, Disturb
  PROVE  Sights'
<1> SUFFICES ASSUME NEW v \in Reviewers, reviewer'[v] # None
             PROVE  Sight(v)'
  BY DEF Sights
<1> DEFINE s == reviewer[v]
           a == s.attempt
           C == s.changed \cup Changes(s)
           r == [s EXCEPT !.changed = C]
<1>1. s # None /\ reviewer'[v] = r
  BY DEF Disturb
<1>2. s \in Sessions /\ a \in Attempts
  BY <1>1, SessionOf DEF TypeInv
<1>3. r.place = s.place /\ r.attempt = a /\ r.decision = s.decision /\ r.changed = C
  BY <1>2, SessionFields
<1>4. record[a] # None => record'[a] = record[a]
  BY <1>2, NextAttempt DEF Kept
<1>5. Sight(v)
  BY <1>1 DEF Sights
<1>6. ASSUME s.decision = "accept", NEW p \in Seen[s.place], p \notin C
      PROVE  p \notin s.changed /\ worktree'[a][p] = worktree[a][p]
  BY <1>6 DEF Changes
<1>7. /\ s.place \in {"compare", "inputs", "stamp", "write"} => "tree" \in Seen[s.place]
      /\ s.place \in {"inputs", "stamp", "write"} => "candidate" \in Seen[s.place]
      /\ s.place \in {"stamp", "write"} => "inputs" \in Seen[s.place]
  BY DEF Seen
<1>8. s.place \in {"audit", "compare", "inputs", "stamp", "write"}
  BY <1>2 DEF Sessions
<1>9. ASSUME s.decision = "accept"
      PROVE  /\ s.place # "audit" /\ "tree" \notin C => worktree'[a].tree
             /\ s.place \in {"inputs", "stamp", "write"} /\ "candidate" \notin C =>
                  worktree'[a].candidate = record[a].patch
             /\ s.place \in {"stamp", "write"} /\ "inputs" \notin C =>
                  worktree'[a].inputs
  <2> HIDE DEF C
  <2> QED
    BY <1>5, <1>6, <1>7, <1>8, <1>9 DEF Sight
<1> HIDE DEF r, C
<1> QED
  BY <1>1, <1>3, <1>4, <1>5, <1>9 DEF Sight

LEMMA SightsStep ==
  ASSUME TypeInv, AttemptInv, Sights, [Next]_vars
  PROVE  Sights'
<1>1. CASE Attempting
  BY <1>1, DisturbedSees DEF Attempting
<1>2. ASSUME NEW v \in Reviewers, Review(v)
      PROVE  Sights'
  BY <1>2, ReviewSees DEF TypeInv
<1>3. ASSUME NEW i \in Importers, Import(i)
      PROVE  Sights'
  BY <1>3 DEF Import, BeginImport, WriteLanding, Sights, Sight, attemptVars, attemptFiles
<1>4. CASE MoveBranch \/ Report \/ UNCHANGED vars
  BY <1>4 DEF MoveBranch, Report, StartReport, Tally, ReadReviews, ReadLandings, VerifyCounted,
              Publish, vars, deliveryVars, Sights, Sight, attemptVars, attemptFiles
<1> QED
  BY <1>1, <1>2, <1>3, <1>4 DEF Next

(* What a verdict says, and what an acceptance has looked at.              *)
THEOREM EvidenceHolds == Spec => []EvidenceSound
<1>1. Init => Sights
  BY DEF Init, DeliveryInit, Sights
<1>2. TypeInv /\ AttemptInv /\ Sights => AcceptanceSound
  <2> SUFFICES ASSUME TypeInv, AttemptInv, Sights, NEW v \in Reviewers, reviewer[v] # None,
                      reviewer[v].place \in {"stamp", "write"},
                      reviewer[v].decision = "accept"
               PROVE  LET s == reviewer[v] IN
                      /\ history[s.attempt].passed
                      /\ "tree" \notin s.changed => worktree[s.attempt].tree
                      /\ "candidate" \notin s.changed =>
                           worktree[s.attempt].candidate = record[s.attempt].patch
                      /\ "inputs" \notin s.changed => worktree[s.attempt].inputs
    BY DEF AcceptanceSound
  <2>1. Sight(v) /\ reviewer[v].attempt \in Attempts
    BY SessionOf DEF Sights, TypeInv
  <2>2. VerdictSound
    BY InvVerdict
  <2> QED
    BY <2>1, <2>2 DEF Sight, VerdictSound
<1> QED
  BY <1>1, <1>2, SightsStep, InvVerdict, Typed, AttemptHolds, PTL DEF Spec, EvidenceSound

-----------------------------------------------------------------------------
(* What a report counts as delivered.                                      *)

Delivered(a, id) ==
  LET l == landings[a][id] IN
  /\ l \in Landings /\ l.merge # Base
  /\ record[a] \in Records /\ history[a].passed
  /\ ~history[a].edited => l.merge = history[a].judged
  /\ [at |-> l.review, decision |-> "accept"] \in reviews[a]

Sound(r) ==
  /\ \A c \in r.counted : Delivered(c.attempt, c.id)
  /\ r.assisted <=> \E c \in r.counted : Parent[c.attempt] # None

ClaimsFiled(r) ==
  \A c \in r.claims : /\ c[1] \in LandingIDs /\ c[2] \in Landings
                      /\ landings[r.attempt][c[1]] = c[2]

Deliveries ==
  /\ report # None => Sound(report) /\ ClaimsFiled(report)
  /\ published \notin {None, Torn} => Sound(published)

(* Once an attempt is over, its history is only edited.                    *)
LEMMA LateHistory ==
  ASSUME AttemptTypeOK, NEW a \in Attempts, Acts(a), stage[a] = "done"
  PROVE  /\ history'[a].passed = history[a].passed
         /\ history'[a].judged = history[a].judged
         /\ history[a].edited => history'[a].edited
<1>1. CASE Meddle(a)
  <2>1. PICK w \in Writes(a) :
          history' = [history EXCEPT ![a].edited = Edited(a, w), ![a].meddled = TRUE]
    BY <1>1, Zenon DEF Meddle
  <2> DEFINE d == Edited(a, w)
  <2>2. history[a] \in Histories /\ history'[a] = [history[a] EXCEPT !.edited = d, !.meddled = TRUE]
    BY <2>1 DEF AttemptTypeOK
  <2>3. history[a].edited => d
    BY DEF Edited
  <2> HIDE DEF d
  <2> QED
    BY <2>2, <2>3, HistoryFields
<1>2. CASE ReplacePatch(a)
  BY <1>2 DEF ReplacePatch
<1>3. ~Kill(a) /\ ~Evaluate(a)
  BY DEF Kill, Over, Evaluate, Start, Prepare, PrepareFails, Work, Grade, Check, StartVerifier,
         VerifierReturns, Compare, CheckInputs, Audit, WritePatch, SetStatus, WriteRecord,
         GradeFails
<1> QED
  BY <1>1, <1>2, <1>3 DEF Acts

LEMMA RecordedHistory ==
  ASSUME TypeInv, AttemptInv, [Next]_vars, NEW a \in Attempts, record[a] \in Records
  PROVE  /\ record'[a] = record[a]
         /\ history'[a].passed = history[a].passed
         /\ history'[a].judged = history[a].judged
         /\ history[a].edited => history'[a].edited
<1>1. record'[a] = record[a]
  BY NextAttempt DEF Kept
<1>2. CASE UNCHANGED attemptFiles
  BY <1>1, <1>2 DEF attemptFiles
<1>3. CASE Attempting
  <2>1. PICK b \in Attempts : Acts(b)
    BY <1>3 DEF Attempting, AttemptNext, Acts
  <2>2. stage[a] = "done" /\ AttemptTypeOK
    BY DEF AttemptInv, Files, TypeInv, TypeOK
  <2>3. CASE a = b
    BY <1>1, <2>1, <2>2, <2>3, LateHistory
  <2>4. CASE a # b
    BY <1>1, <2>1, <2>2, <2>4, OthersSame DEF Same
  <2> QED
    BY <2>3, <2>4
<1> QED
  BY <1>2, <1>3, DeliveryLeavesAttempts DEF vars, attemptVars

LEMMA DeliveredKept ==
  ASSUME TypeInv, AttemptInv, [Next]_vars, NEW a \in Attempts, NEW id \in LandingIDs,
         Delivered(a, id)
  PROVE  Delivered(a, id)' /\ landings'[a][id] = landings[a][id]
<1>1. landings'[a][id] = landings[a][id] /\ reviews[a] \subseteq reviews'[a]
  <2>1. landings[a][id] # None
    BY DEF Delivered
  <2> QED
    BY <2>1, DeliveryKept DEF Kept
<1>2. /\ record'[a] = record[a] /\ history'[a].passed = history[a].passed
      /\ history'[a].judged = history[a].judged
      /\ history[a].edited => history'[a].edited
  BY RecordedHistory DEF Delivered
<1> QED
  BY <1>1, <1>2 DEF Delivered

LEMMA SoundKept ==
  ASSUME TypeInv, AttemptInv, [Next]_vars, NEW r \in Tallies, Sound(r),
         NEW q, q.counted = r.counted, q.assisted = r.assisted
  PROVE  (Sound(q))'
<1>1. \A c \in r.counted : c.attempt \in Attempts /\ c.id \in LandingIDs
  BY FieldsOfReport DEF Claims
<1> QED
  BY <1>1, DeliveredKept DEF Sound

LEMMA ClaimsKept ==
  ASSUME TypeInv, [Next]_vars, NEW r \in Tallies, ClaimsFiled(r),
         r.claims # {} => r.attempt # None,
         NEW q, q.claims = r.claims, q.attempt = r.attempt
  PROVE  (ClaimsFiled(q))'
<1>1. r.claims # {} => r.attempt \in Attempts
  BY FieldsOfReport
<1>2. ASSUME NEW x \in r.claims
      PROVE  /\ x[1] \in LandingIDs /\ x[2] \in Landings
             /\ landings'[r.attempt][x[1]] = x[2]
  <2>1. /\ x[1] \in LandingIDs /\ x[2] \in Landings
        /\ landings[r.attempt][x[1]] = x[2] /\ x[2] # None
    BY <1>2 DEF ClaimsFiled
  <2>2. r.attempt \in Attempts
    BY <1>1, <1>2
  <2> QED
    BY <2>1, <2>2, DeliveryKept DEF Kept
<1> QED
  BY <1>2 DEF ClaimsFiled

(* The second verification finds the patch that was judged.                *)
LEMMA LandsDelivered ==
  ASSUME TypeInv, AttemptInv, NEW a \in Attempts, NEW id \in LandingIDs,
         landings[a][id] \in Landings, Lands(a, landings[a][id])
  PROVE  Delivered(a, id)
<1> DEFINE l == landings[a][id]
<1>1. /\ record[a] \in Records /\ record[a].patch # None /\ patchFile[a] = record[a].patch
      /\ record[a].passed /\ l.merge # Base /\ l.merge = record[a].patch
      /\ [at |-> l.review, decision |-> "accept"] \in reviews[a]
  BY DEF Lands, CandidateIntact
<1>2. record[a].patch \in Contents
  BY <1>1 DEF Records
<1>3. record[a] = memory[a] /\ Backed(a) /\ memory[a].passed = history[a].passed
  BY <1>1, <1>2 DEF AttemptInv, Files, Graded
<1> QED
  BY <1>1, <1>3 DEF Delivered, Backed

(* What a report notes when it begins.                                     *)
Marks(r, q) ==
  /\ q.floor = r.floor /\ q.revoked = r.revoked
  /\ q.spoiled = r.spoiled /\ q.landed = r.landed

(* How a report goes on.                                                   *)
LEMMA ReportStep ==
  ASSUME TypeInv, Report, report # None, report' # None
  PROVE  /\ report \in Tallies /\ report' \in Tallies /\ published' = published
         /\ Marks(report, report')
         /\ \/ /\ report'.counted = report.counted /\ report'.assisted = report.assisted
               /\ report'.claims = report.claims /\ report'.attempt = report.attempt
               /\ report'.latest = report.latest
               /\ \E a \in Attempts :
                    report'.accepted = report.accepted \cup ({a} \X Accepted(a))
            \/ /\ report'.counted = report.counted /\ report'.assisted = report.assisted
               /\ report'.claims = {} /\ report'.accepted = report.accepted
               /\ \/ report'.attempt = None
                  \/ /\ report'.attempt \in Attempts
                     /\ report'.latest = Latest(reviews[report'.attempt])
            \/ /\ report'.counted = report.counted /\ report'.assisted = report.assisted
               /\ report'.accepted = report.accepted
               /\ report'.attempt = report.attempt /\ report'.latest = report.latest
               /\ report.attempt \in Attempts
               /\ report'.claims = Standing(Filed(report.attempt), report.latest)
            \/ /\ report.attempt \in Attempts /\ report.claims # {}
               /\ \A c \in report.claims : Lands(report.attempt, c[2])
               /\ report'.claims = {} /\ report'.accepted = report.accepted
               /\ report'.attempt = None
               /\ report'.counted = report.counted \cup
                    {[attempt |-> report.attempt, id |-> c[1]] : c \in report.claims}
               /\ report'.assisted = (report.assisted \/ Parent[report.attempt] # None)
<1>1. report \in Tallies /\ report' \in Tallies
  <2>1. TypeOK /\ TypeOK'
    BY ReportType DEF TypeInv
  <2> QED
    BY <2>1 DEF TypeOK
<1>2. CASE Tally
  <2> DEFINE left == report.listed \ report.tallied
             a == Min(left)
  <2>1. a \in Attempts
    <3>1. left \in SUBSET Attempts /\ left # {}
      BY <1>1, <1>2, FieldsOfReport DEF Tally
    <3> HIDE DEF left
    <3> QED
      BY <3>1, FirstLeft
  <2> DEFINE x == report.accepted \cup ({a} \X Accepted(a))
             t == report.tallied \cup {a}
  <2>2. published' = published /\ report' = [report EXCEPT !.tallied = t, !.accepted = x]
    BY <1>2 DEF Tally, FailReport
  <2>3. \E b \in Attempts : x = report.accepted \cup ({b} \X Accepted(b))
    BY <2>1
  <2> HIDE DEF t, x
  <2> QED
    BY <1>1, <2>2, <2>3 DEF Tallies, Marks
<1>3. CASE ReadReviews
  <2> DEFINE left == report.listed \ report.done
             a == Min(left)
  <2>1. a \in Attempts
    <3>1. left \in SUBSET Attempts /\ left # {}
      BY <1>1, <1>3, FieldsOfReport DEF ReadReviews
    <3> HIDE DEF left
    <3> QED
      BY <3>1, FirstLeft
  <2> HIDE DEF a
  <2>2. published' = published
        /\ report' = [report EXCEPT !.attempt = a, !.latest = Latest(reviews[a])]
    BY <1>3 DEF ReadReviews, FailReport, a
  <2>3. report.claims = {}
    BY <1>3 DEF ReadReviews, TypeInv, Reading
  <2> QED
    BY <1>1, <2>1, <2>2, <2>3 DEF Tallies, Marks
<1>4. CASE ReadLandings
  <2> DEFINE claims == Standing(Filed(report.attempt), report.latest)
             done == report.done \cup {report.attempt}
  <2>1. published' = published /\ report.claims = {} /\ report.attempt \in Attempts
    BY <1>1, <1>4, FieldsOfReport DEF ReadLandings, FailReport
  <2>2. \/ report' = [report EXCEPT !.attempt = None, !.latest = None, !.done = done]
        \/ report' = [report EXCEPT !.claims = claims]
    BY <1>4 DEF ReadLandings, FailReport
  <2> HIDE DEF claims, done
  <2>3. \/ /\ report'.counted = report.counted /\ report'.assisted = report.assisted
           /\ report'.claims = {} /\ report'.accepted = report.accepted
           /\ report'.attempt = None
           /\ Marks(report, report')
        \/ /\ report'.counted = report.counted /\ report'.assisted = report.assisted
           /\ report'.accepted = report.accepted
           /\ report'.attempt = report.attempt /\ report'.latest = report.latest
           /\ report'.claims = claims
           /\ Marks(report, report')
    BY <1>1, <2>1, <2>2, ZenonT(40) DEF Tallies, Marks
  <2> QED
    BY <1>1, <2>1, <2>3 DEF claims
<1>5. CASE VerifyCounted
  <2> DEFINE a == report.attempt
             done == report.done \cup {a}
             counted == report.counted \cup {[attempt |-> a, id |-> c[1]] : c \in report.claims}
             assisted == report.assisted \/ Parent[a] # None
  <2>1. /\ published' = published /\ report.claims # {}
        /\ \A c \in report.claims : Lands(a, c[2])
        /\ report' = [report EXCEPT !.attempt = None, !.latest = None, !.claims = {},
                                    !.done = done, !.counted = counted, !.assisted = assisted]
    BY <1>5 DEF VerifyCounted, FailReport
  <2>2. a \in Attempts
    BY <1>1, <2>1, FieldsOfReport DEF TypeInv, Reading
  <2> HIDE DEF done, counted, assisted
  <2>3. /\ report'.claims = {} /\ report'.accepted = report.accepted
        /\ report'.attempt = None /\ report'.counted = counted /\ report'.assisted = assisted
        /\ Marks(report, report')
    BY <1>1, <2>1 DEF Tallies, Marks
  <2> QED
    BY <1>1, <2>1, <2>2, <2>3 DEF counted, assisted
<1>6. ~StartReport /\ ~Publish
  BY DEF StartReport, Publish
<1> QED
  BY <1>2, <1>3, <1>4, <1>5, <1>6 DEF Report

LEMMA PublishedStep ==
  ASSUME Report
  PROVE  \/ published' \in {published, Torn}
         \/ report # None /\ published' = report /\ report' = None
BY DEF Report, StartReport, Tally, ReadReviews, ReadLandings, VerifyCounted, Publish, FailReport

LEMMA FirstReport ==
  ASSUME Report, report = None
  PROVE  StartReport
BY DEF Report, Tally, ReadReviews, ReadLandings, VerifyCounted, Publish

(* The other steps only add to what a report saw on the branch.            *)
Unread(r, q) ==
  /\ q.counted = r.counted /\ q.assisted = r.assisted /\ q.accepted = r.accepted
  /\ q.claims = r.claims /\ q.attempt = r.attempt /\ q.latest = r.latest
  /\ q.floor = r.floor /\ q.revoked = r.revoked /\ q.spoiled = r.spoiled
  /\ r.landed \subseteq q.landed

LEMMA OthersPublished ==
  ASSUME TypeInv, [Next]_vars, ~Report
  PROVE  /\ published' = published
         /\ report' # None => /\ report # None /\ Unread(report, report')
                              /\ onBranch' \subseteq onBranch \cup report'.landed
<1>1. ASSUME NEW v \in Reviewers, Review(v)
      PROVE  UNCHANGED <<report, published, onBranch>>
  BY <1>1 DEF Review, BeginReview, AuditWorktree, CompareCandidate, HashInputs, Look, Stamp,
              WriteReview, AbandonReview
<1>2. ASSUME NEW i \in Importers, Import(i)
      PROVE  UNCHANGED <<report, published, onBranch>>
  BY <1>2 DEF Import, BeginImport, WriteLanding
<1>3. CASE MoveBranch
  <2>1. report # None => report \in Tallies
    BY DEF TypeInv, TypeOK
  <2> DEFINE L == report.landed \cup onBranch'
  <2>2. /\ report' = IF report = None THEN None ELSE [report EXCEPT !.landed = L]
        /\ published' = published
    BY <1>3 DEF MoveBranch
  <2>3. report.landed \subseteq L /\ onBranch' \subseteq L
    OBVIOUS
  <2> HIDE DEF L
  <2> QED
    BY <2>1, <2>2, <2>3 DEF Unread, Tallies
<1>4. CASE Attempting \/ UNCHANGED vars
  BY <1>4 DEF Attempting, vars, deliveryVars, Unread
<1> QED
  BY <1>1, <1>2, <1>3, <1>4 DEF Next, Unread

LEMMA SoundReport ==
  ASSUME TypeInv, AttemptInv, Deliveries, [Next]_vars, Report, report # None, report' # None
  PROVE  (Sound(report) /\ ClaimsFiled(report))'
<1>1. report \in Tallies /\ Sound(report) /\ ClaimsFiled(report)
      /\ (report.claims # {} => report.attempt # None)
  BY ReportStep DEF Deliveries, TypeInv, Reading
<1>2. CASE report'.counted = report.counted /\ report'.assisted = report.assisted
  <2>1. (Sound(report))'
    BY <1>1, <1>2, SoundKept
  <2>2. CASE report'.claims = report.claims /\ report'.attempt = report.attempt
    BY <1>1, <2>1, <2>2, ClaimsKept
  <2>3. CASE report'.claims = {}
    BY <2>1, <2>3 DEF ClaimsFiled
  <2>4. CASE /\ report'.attempt = report.attempt /\ report.attempt \in Attempts
             /\ report'.claims = Standing(Filed(report.attempt), report.latest)
    <3>1. landings' = landings
      BY DEF Report, StartReport, Tally, ReadReviews, ReadLandings, VerifyCounted, Publish
    <3>2. \A c \in report'.claims :
            c[1] \in LandingIDs /\ c[2] \in Landings /\ landings[report.attempt][c[1]] = c[2]
      BY <2>4, ClaimsType DEF TypeInv
    <3> QED
      BY <2>1, <2>4, <3>1, <3>2 DEF ClaimsFiled
  <2> QED
    BY <1>2, <2>2, <2>3, <2>4, ReportStep
<1>3. CASE /\ report.attempt \in Attempts /\ report.claims # {}
           /\ \A c \in report.claims : Lands(report.attempt, c[2])
           /\ report'.claims = {}
           /\ report'.counted = report.counted \cup
                {[attempt |-> report.attempt, id |-> c[1]] : c \in report.claims}
           /\ report'.assisted = (report.assisted \/ Parent[report.attempt] # None)
  <2>0. PICK b \in Attempts : b = report.attempt
    BY <1>3
  <2> DEFINE Added(c) == [attempt |-> b, id |-> c[1]]
  <2>1. \A c \in report.counted : Delivered(c.attempt, c.id)'
    <3>1. \A c \in report.counted : c.attempt \in Attempts /\ c.id \in LandingIDs
      BY <1>1, FieldsOfReport DEF Claims
    <3> QED
      BY <1>1, <3>1, DeliveredKept DEF Sound
  <2>2. ASSUME NEW c \in report.claims
        PROVE  Delivered(b, c[1])'
    <3>1. /\ c[1] \in LandingIDs /\ c[2] \in Landings
          /\ landings[b][c[1]] = c[2] /\ Lands(b, c[2])
      BY <1>1, <1>3, <2>0 DEF ClaimsFiled
    <3>2. Delivered(b, c[1])
      BY <3>1, LandsDelivered
    <3> QED
      BY <3>1, <3>2, DeliveredKept
  <2>3. report'.counted = report.counted \cup {Added(c) : c \in report.claims}
    BY <1>3, <2>0
  <2>4. \A c \in report'.counted :
          c \in report.counted \/ \E d \in report.claims : c.attempt = b /\ c.id = d[1]
    BY <2>3
  <2>5. \A c \in report'.counted : Delivered(c.attempt, c.id)'
    BY <2>1, <2>2, <2>4
  <2>6. report'.assisted <=> \E c \in report'.counted : Parent[c.attempt] # None
    <3>1. report.assisted <=> \E c \in report.counted : Parent[c.attempt] # None
      BY <1>1 DEF Sound
    <3>2. report'.assisted <=> report.assisted \/ Parent[b] # None
      BY <1>3, <2>0
    <3>3. \E c \in report'.counted : c.attempt = b
      <4>1. PICK d \in report.claims : TRUE
        BY <1>3
      <4>2. Added(d) \in report'.counted /\ Added(d).attempt = b
        BY <2>3, <4>1
      <4> QED
        BY <4>2
    <3> QED
      BY <2>3, <2>4, <3>1, <3>2, <3>3
  <2> QED
    BY <1>3, <2>5, <2>6 DEF Sound, ClaimsFiled
<1> QED
  BY <1>2, <1>3, ReportStep

LEMMA DeliveriesStep ==
  ASSUME TypeInv, AttemptInv, Deliveries, [Next]_vars
  PROVE  Deliveries'
<1>1. ASSUME published' = published
      PROVE  published' \notin {None, Torn} => (Sound(published))'
  BY <1>1, SoundKept DEF Deliveries, TypeInv, TypeOK
<1>2. CASE Report
  <2>1. ASSUME report' # None
        PROVE  (Sound(report) /\ ClaimsFiled(report))'
    <3>1. CASE report = None
      BY <1>2, <3>1, FirstReport DEF StartReport, Sound, ClaimsFiled
    <3> QED
      BY <1>2, <2>1, <3>1, SoundReport
  <2>2. CASE published' \in {published, Torn}
    BY <1>1, <2>1, <2>2 DEF Deliveries
  <2>3. CASE report # None /\ published' = report /\ report' = None
    BY <2>3, SoundKept DEF Deliveries, TypeInv, TypeOK
  <2> QED
    BY <1>2, <2>2, <2>3, PublishedStep
<1>3. CASE ~Report
  <2>1. /\ published' = published
        /\ report' # None => report # None /\ Unread(report, report')
    BY <1>3, OthersPublished
  <2>2. report # None => report \in Tallies /\ (report.claims # {} => report.attempt # None)
    BY DEF TypeInv, TypeOK, Reading
  <2>3. report' # None => (Sound(report))' /\ (ClaimsFiled(report))'
    BY <2>1, <2>2, SoundKept, ClaimsKept DEF Deliveries, Unread
  <2> QED
    BY <1>1, <2>1, <2>3 DEF Deliveries
<1> QED
  BY <1>2, <1>3

LEMMA DeliveriesHold == Spec => []Deliveries
<1>1. Init => Deliveries
  BY DEF Init, DeliveryInit, Deliveries
<1> QED
  BY <1>1, DeliveriesStep, Typed, AttemptHolds, PTL DEF Spec

(* Whatever a report counts was merged as judged and accepted, and counts  *)
(* as assisted exactly when it repairs another attempt.                    *)
LEMMA DeliveredHolds == Spec => []DeliveredAsJudged
<1>1. Deliveries => DeliveredAsJudged
  BY DEF Deliveries, Sound, Delivered, DeliveredAsJudged
<1> QED
  BY <1>1, DeliveriesHold, PTL

-----------------------------------------------------------------------------
(* What a report counts is as recent as its start.                         *)

Floors(r) ==
  /\ \A a \in Attempts : AtLeast(Latest(reviews[a]), r.floor[a])
  /\ \A c \in r.revoked : Revoked(c.id, Filed(c.attempt))

Recent(r) ==
  /\ \A c \in r.counted : /\ c \notin r.revoked
                          /\ AtLeast(landings[c.attempt][c.id].review, r.floor[c.attempt])
  /\ \A x \in r.accepted : AtLeast(x[2], r.floor[x[1]])

Reached(r) ==
  r.attempt # None =>
    /\ AtLeast(r.latest, r.floor[r.attempt])
    /\ \A c \in r.claims : /\ [attempt |-> r.attempt, id |-> c[1]] \notin r.revoked
                           /\ c[2].review = r.latest

Current ==
  /\ report # None => Floors(report) /\ Recent(report) /\ Reached(report)
  /\ published \notin {None, Torn} => Recent(published)

(* More reviews do not make the latest one older.                          *)
LEMMA LatestGrows ==
  ASSUME NEW rs \in SUBSET Reviews, NEW new \in SUBSET Reviews, rs \subseteq new,
         NEW floor \in Times \cup {None}, AtLeast(Latest(rs), floor)
  PROVE  AtLeast(Latest(new), floor)
<1>1. CASE floor = None
  BY <1>1 DEF AtLeast
<1>2. CASE floor # None
  <2>1. rs # {} /\ Latest(rs) >= floor /\ floor \in Times
    BY <1>2 DEF AtLeast, Latest
  <2>2. PICK r \in rs : r.at = Latest(rs)
    BY <2>1, LatestReview DEF TimesOf
  <2>3. new # {} /\ r.at <= Latest(new) /\ Latest(new) \in Times /\ Latest(rs) \in Times
    BY <2>1, <2>2, LatestReview
  <2>4. Latest(new) >= floor /\ Latest(new) # None
    BY <2>1, <2>2, <2>3 DEF Times
  <2> QED
    BY <2>4 DEF AtLeast
<1> QED
  BY <1>1, <1>2

LEMMA FloorsKept ==
  ASSUME TypeInv, TypeInv', [Next]_vars, NEW r \in Tallies, Floors(r),
         NEW q, q.floor = r.floor, q.revoked = r.revoked
  PROVE  (Floors(q))'
<1>1. ASSUME NEW a \in Attempts
      PROVE  AtLeast(Latest(reviews'[a]), q.floor[a])
  <2>1. reviews[a] \in SUBSET Reviews /\ reviews'[a] \in SUBSET Reviews
    BY DEF TypeInv, TypeOK
  <2>2. r.floor[a] \in Times \cup {None}
    BY FieldsOfReport
  <2>3. reviews[a] \subseteq reviews'[a]
    BY DeliveryKept
  <2> QED
    BY <2>1, <2>2, <2>3, LatestGrows DEF Floors
<1>2. ASSUME NEW c \in r.revoked
      PROVE  (Revoked(c.id, Filed(c.attempt)))'
  <2>1. c.attempt \in Attempts
    BY FieldsOfReport DEF Claims
  <2>2. PICK j \in LandingIDs : /\ landings[c.attempt][j] \in Landings
                                /\ landings[c.attempt][j].revokes = c.id
    BY DEF Floors, Revoked, Filed
  <2>3. landings'[c.attempt][j] = landings[c.attempt][j]
    BY <2>1, <2>2, DeliveryKept DEF Kept
  <2> DEFINE f == <<j, landings'[c.attempt][j]>>
  <2>4. f \in Filed(c.attempt)' /\ f[2].revokes = c.id
    BY <2>2, <2>3 DEF Filed
  <2> QED
    BY <2>4 DEF Revoked
<1> QED
  BY <1>1, <1>2 DEF Floors

LEMMA RecentKept ==
  ASSUME TypeInv, AttemptInv, [Next]_vars, NEW r \in Tallies, Sound(r), Recent(r),
         NEW q, q.counted = r.counted, q.accepted = r.accepted,
         q.floor = r.floor, q.revoked = r.revoked
  PROVE  (Recent(q))'
<1>1. \A c \in r.counted : c.attempt \in Attempts /\ c.id \in LandingIDs
  BY FieldsOfReport DEF Claims
<1>2. \A c \in r.counted : landings'[c.attempt][c.id] = landings[c.attempt][c.id]
  BY <1>1, DeliveredKept DEF Sound
<1> QED
  BY <1>2 DEF Recent

LEMMA StartCurrent ==
  ASSUME TypeInv, StartReport
  PROVE  (Floors(report) /\ Recent(report) /\ Reached(report))'
<1>1. /\ reviews' = reviews /\ landings' = landings
      /\ report'.counted = {} /\ report'.accepted = {} /\ report'.attempt = None
      /\ report'.floor = [a \in Attempts |-> Latest(reviews[a])]
      /\ report'.revoked = {c \in Claims : Revoked(c.id, Filed(c.attempt))}
  BY DEF StartReport
<1>2. \A a \in Attempts : AtLeast(Latest(reviews[a]), Latest(reviews[a]))
  <2>1. \A a \in Attempts : Latest(reviews[a]) \in Times \cup {None}
    <3>1. \A a \in Attempts : reviews[a] \in SUBSET Reviews
      BY DEF TypeInv, TypeOK
    <3> QED
      BY <3>1, LatestReview
  <2> QED
    BY <2>1 DEF AtLeast, Times
<1> QED
  BY <1>1, <1>2 DEF Floors, Recent, Reached, Filed

LEMMA CurrentReport ==
  ASSUME TypeInv, TypeInv', AttemptInv, Deliveries, Current, [Next]_vars, Report,
         report # None, report' # None
  PROVE  (Floors(report) /\ Recent(report) /\ Reached(report))'
<1>1. /\ report \in Tallies /\ Sound(report) /\ ClaimsFiled(report)
      /\ Floors(report) /\ Recent(report) /\ Reached(report)
      /\ report'.floor = report.floor /\ report'.revoked = report.revoked
  BY ReportStep DEF Deliveries, Current, Marks
<1>2. reviews' = reviews /\ landings' = landings
  BY DEF Report, StartReport, Tally, ReadReviews, ReadLandings, VerifyCounted, Publish
<1>3. (Floors(report))'
  BY <1>1, FloorsKept
<1>4. CASE /\ report'.counted = report.counted
           /\ report'.claims = report.claims /\ report'.attempt = report.attempt
           /\ report'.latest = report.latest
           /\ \E a \in Attempts :
                report'.accepted = report.accepted \cup ({a} \X Accepted(a))
  <2>1. PICK a \in Attempts : report'.accepted = report.accepted \cup ({a} \X Accepted(a))
    BY <1>4
  <2>2. \A t \in Accepted(a) : AtLeast(t, report.floor[a])
    BY <1>1 DEF Accepted, Floors
  <2>3. \A x \in report'.accepted : AtLeast(x[2], report.floor[x[1]])
    BY <1>1, <2>1, <2>2 DEF Recent
  <2> QED
    BY <1>1, <1>2, <1>3, <1>4, <2>3 DEF Recent, Reached
<1>5. CASE /\ report'.counted = report.counted
           /\ report'.claims = {} /\ report'.accepted = report.accepted
           /\ \/ report'.attempt = None
              \/ /\ report'.attempt \in Attempts
                 /\ report'.latest = Latest(reviews[report'.attempt])
  BY <1>1, <1>2, <1>3, <1>5 DEF Recent, Reached, Floors
<1>6. CASE /\ report'.counted = report.counted /\ report'.accepted = report.accepted
           /\ report'.attempt = report.attempt /\ report'.latest = report.latest
           /\ report.attempt \in Attempts
           /\ report'.claims = Standing(Filed(report.attempt), report.latest)
  <2>1. PICK a \in Attempts : a = report.attempt
    BY <1>6
  <2>2. \A c \in report'.claims : c[2].review = report.latest /\ ~Revoked(c[1], Filed(a))
    BY <1>6, <2>1, ClaimsType DEF TypeInv
  <2>3. \A c \in report'.claims : [attempt |-> a, id |-> c[1]] \notin report.revoked
    <3> SUFFICES ASSUME NEW c \in report'.claims, [attempt |-> a, id |-> c[1]] \in report.revoked
                 PROVE  FALSE
      OBVIOUS
    <3>1. Revoked(c[1], Filed(a))
      BY <1>1 DEF Floors
    <3> QED
      BY <2>2, <3>1
  <2> QED
    BY <1>1, <1>2, <1>3, <1>6, <2>1, <2>2, <2>3 DEF Recent, Reached
<1>7. CASE /\ report.attempt \in Attempts /\ report.claims # {}
           /\ report'.claims = {} /\ report'.accepted = report.accepted
           /\ report'.attempt = None
           /\ report'.counted = report.counted \cup
                {[attempt |-> report.attempt, id |-> c[1]] : c \in report.claims}
  <2>1. PICK a \in Attempts : a = report.attempt
    BY <1>7
  <2>2. \A c \in report.claims : /\ [attempt |-> a, id |-> c[1]] \notin report.revoked
                                 /\ AtLeast(landings[a][c[1]].review, report.floor[a])
    BY <1>1, <2>1 DEF Reached, ClaimsFiled
  <2>3. \A c \in report'.counted :
          /\ c \notin report.revoked
          /\ AtLeast(landings[c.attempt][c.id].review, report.floor[c.attempt])
    BY <1>1, <1>7, <2>1, <2>2 DEF Recent
  <2> QED
    BY <1>1, <1>2, <1>3, <1>7, <2>3 DEF Recent, Reached
<1> QED
  BY <1>4, <1>5, <1>6, <1>7, ReportStep

LEMMA CurrentStep ==
  ASSUME TypeInv, TypeInv', AttemptInv, Deliveries, Current, [Next]_vars
  PROVE  Current'
<1>0. /\ published \notin {None, Torn} =>
           published \in Tallies /\ Sound(published) /\ Recent(published)
      /\ report # None => /\ report \in Tallies /\ Sound(report)
                          /\ Floors(report) /\ Recent(report) /\ Reached(report)
  BY DEF Current, Deliveries, TypeInv, TypeOK
<1>1. ASSUME published' = published
      PROVE  published' \notin {None, Torn} => (Recent(published))'
  BY <1>0, <1>1, RecentKept
<1>2. CASE Report
  <2>1. ASSUME report' # None
        PROVE  (Floors(report) /\ Recent(report) /\ Reached(report))'
    BY <1>2, <2>1, FirstReport, StartCurrent, CurrentReport
  <2>2. CASE published' \in {published, Torn}
    BY <1>1, <2>1, <2>2 DEF Current
  <2>3. CASE report # None /\ published' = report /\ report' = None
    BY <1>0, <2>3, RecentKept DEF Current
  <2> QED
    BY <1>2, <2>2, <2>3, PublishedStep
<1>3. CASE ~Report
  <2>1. /\ published' = published
        /\ report' # None => report # None /\ Unread(report, report')
    BY <1>3, OthersPublished
  <2>2. report' # None => (Floors(report))' /\ (Recent(report))'
    BY <1>0, <2>1, FloorsKept, RecentKept DEF Unread
  <2>3. report' # None => (Reached(report))'
    BY <1>0, <2>1 DEF Reached, Unread
  <2> QED
    BY <1>1, <2>1, <2>2, <2>3 DEF Current
<1> QED
  BY <1>2, <1>3

(* No report counts what was revoked, or reviewed again, before it began.  *)
THEOREM CurrencyHolds == Spec => []CountedIsCurrent
<1>1. Init => Current
  BY DEF Init, DeliveryInit, Current
<1>2. Current => CountedIsCurrent
  BY DEF Current, Recent, CountedIsCurrent
<1> QED
  BY <1>1, <1>2, CurrentStep, Typed, AttemptHolds, DeliveriesHold, PTL DEF Spec

-----------------------------------------------------------------------------
(* What a report counts was merged and intact while it was made.           *)

Watched(r) ==
  /\ onBranch \subseteq r.landed
  /\ \A a \in r.spoiled : record[a] \in Records /\ ~CandidateIntact(a)

Merged(r) ==
  \A c \in r.counted : /\ landings[c.attempt][c.id].merge \in r.landed
                       /\ c.attempt \notin r.spoiled

Present ==
  /\ report # None => Watched(report) /\ Merged(report)
  /\ published \notin {None, Torn} => Merged(published)

(* A patch that is lost stays lost.                                        *)
LEMMA SpoiledStays ==
  ASSUME TypeInv, AttemptInv, [Next]_vars, NEW a \in Attempts, record[a] \in Records,
         ~CandidateIntact(a)
  PROVE  record'[a] \in Records /\ ~CandidateIntact(a)'
<1>1. record'[a] = record[a]
  BY RecordedHistory
<1>2. patchFile'[a] \in {patchFile[a], Torn}
  <2>1. CASE UNCHANGED attemptFiles
    BY <2>1 DEF attemptFiles
  <2>2. CASE Attempting
    <3>1. PICK b \in Attempts : Acts(b)
      BY <2>2 DEF Attempting, AttemptNext, Acts
    <3>2. stage[a] = "done" /\ AttemptTypeOK
      BY DEF AttemptInv, Files, TypeInv, TypeOK
    <3>3. CASE a # b
      BY <3>1, <3>2, <3>3, OthersSame DEF Same
    <3>4. CASE a = b
      <4>1. ~Kill(a) /\ ~Evaluate(a)
        BY <3>2 DEF Kill, Over, Evaluate, Start, Prepare, PrepareFails, Work, Grade, Check,
           StartVerifier, VerifierReturns, Compare, CheckInputs, Audit, WritePatch, SetStatus,
           WriteRecord, GradeFails
      <4> QED
        BY <3>1, <3>2, <3>4, <4>1 DEF Acts, Meddle, ReplacePatch, AttemptTypeOK
    <3> QED
      BY <3>3, <3>4
  <2> QED
    BY <2>1, <2>2, DeliveryLeavesAttempts DEF vars, attemptVars
<1>3. record[a].patch \in Contents \cup {None}
  BY DEF Records
<1> QED
  BY <1>1, <1>2, <1>3, EvalConstants DEF CandidateIntact

LEMMA MergedKept ==
  ASSUME TypeInv, AttemptInv, [Next]_vars, NEW r \in Tallies, Sound(r), Merged(r),
         NEW q, q.counted = r.counted, q.spoiled = r.spoiled, r.landed \subseteq q.landed
  PROVE  (Merged(q))'
<1>1. \A c \in r.counted : c.attempt \in Attempts /\ c.id \in LandingIDs
  BY FieldsOfReport DEF Claims
<1>2. \A c \in r.counted : landings'[c.attempt][c.id] = landings[c.attempt][c.id]
  BY <1>1, DeliveredKept DEF Sound
<1> QED
  BY <1>2 DEF Merged

LEMMA WatchedKept ==
  ASSUME TypeInv, AttemptInv, [Next]_vars, NEW r \in Tallies, Watched(r),
         NEW q, q.spoiled = r.spoiled, onBranch' \subseteq q.landed
  PROVE  (Watched(q))'
<1>1. r.spoiled \subseteq Attempts
  BY FieldsOfReport
<1> QED
  BY <1>1, SpoiledStays DEF Watched

LEMMA StartPresent ==
  ASSUME TypeInv, StartReport
  PROVE  (Watched(report) /\ Merged(report))'
<1>1. /\ report'.counted = {} /\ report'.spoiled = Spoiled /\ report'.landed = onBranch
      /\ UNCHANGED <<record, patchFile, onBranch>>
  BY DEF StartReport, attemptVars, attemptFiles
<1> QED
  BY <1>1 DEF Watched, Merged, Spoiled, CandidateIntact

LEMMA PresentReport ==
  ASSUME TypeInv, AttemptInv, Deliveries, Present, [Next]_vars, Report,
         report # None, report' # None
  PROVE  (Watched(report) /\ Merged(report))'
<1>1. /\ report \in Tallies /\ Sound(report) /\ ClaimsFiled(report)
      /\ Watched(report) /\ Merged(report) /\ Marks(report, report')
  BY ReportStep DEF Deliveries, Present
<1>2. UNCHANGED <<landings, onBranch>>
  BY DEF Report, StartReport, Tally, ReadReviews, ReadLandings, VerifyCounted, Publish
<1>3. (Watched(report))'
  BY <1>1, <1>2, WatchedKept DEF Marks, Watched
<1>4. CASE report'.counted = report.counted
  BY <1>1, <1>3, <1>4, MergedKept DEF Marks
<1>5. CASE /\ report.attempt \in Attempts
           /\ \A c \in report.claims : Lands(report.attempt, c[2])
           /\ report'.counted = report.counted \cup
                {[attempt |-> report.attempt, id |-> c[1]] : c \in report.claims}
  <2>1. PICK a \in Attempts : a = report.attempt
    BY <1>5
  <2>2. ASSUME NEW c \in report.claims
        PROVE  landings[a][c[1]].merge \in report.landed /\ a \notin report.spoiled
    <3>1. landings[a][c[1]] = c[2] /\ c[2].merge \in onBranch /\ CandidateIntact(a)
      BY <1>1, <1>5, <2>1 DEF ClaimsFiled, Lands
    <3> QED
      BY <1>1, <3>1 DEF Watched
  <2>3. \A c \in report'.counted :
          /\ landings[c.attempt][c.id].merge \in report.landed
          /\ c.attempt \notin report.spoiled
    BY <1>1, <1>5, <2>1, <2>2 DEF Merged
  <2> QED
    BY <1>1, <1>2, <1>3, <2>3 DEF Merged, Marks
<1> QED
  BY <1>4, <1>5, ReportStep

LEMMA PresentStep ==
  ASSUME TypeInv, AttemptInv, Deliveries, Present, [Next]_vars
  PROVE  Present'
<1>0. /\ published \notin {None, Torn} =>
           published \in Tallies /\ Sound(published) /\ Merged(published)
      /\ report # None => /\ report \in Tallies /\ Sound(report)
                          /\ Watched(report) /\ Merged(report)
  BY DEF Present, Deliveries, TypeInv, TypeOK
<1>1. ASSUME published' = published
      PROVE  published' \notin {None, Torn} => (Merged(published))'
  BY <1>0, <1>1, MergedKept
<1>2. CASE Report
  <2>1. ASSUME report' # None
        PROVE  (Watched(report) /\ Merged(report))'
    BY <1>2, <2>1, FirstReport, StartPresent, PresentReport
  <2>2. CASE published' \in {published, Torn}
    BY <1>1, <2>1, <2>2 DEF Present
  <2>3. CASE report # None /\ published' = report /\ report' = None
    BY <1>0, <2>3, MergedKept DEF Present
  <2> QED
    BY <1>2, <2>2, <2>3, PublishedStep
<1>3. CASE ~Report
  <2>1. /\ published' = published
        /\ report' # None => /\ report # None /\ Unread(report, report')
                             /\ onBranch' \subseteq onBranch \cup report'.landed
    BY <1>3, OthersPublished
  <2>2. report' # None => onBranch' \subseteq report'.landed
    BY <1>0, <2>1 DEF Watched, Unread
  <2>3. report' # None => (Watched(report))' /\ (Merged(report))'
    BY <1>0, <2>1, <2>2, WatchedKept, MergedKept DEF Unread
  <2> QED
    BY <1>1, <2>1, <2>3 DEF Present
<1> QED
  BY <1>2, <1>3

(* verifyLanding is called again when a report counts a landing: nothing   *)
(* is counted for what was verified only when it was imported.             *)
LEMMA LandedHolds == Spec => []LandedWhenCounted
<1>1. Init => Present
  BY DEF Init, DeliveryInit, Present
<1>2. Present => LandedWhenCounted
  BY DEF Present, Merged, LandedWhenCounted
<1> QED
  BY <1>1, <1>2, PresentStep, Typed, AttemptHolds, DeliveriesHold, PTL DEF Spec

(* Whatever a published report counts as delivered was merged as judged,   *)
(* and accepted, and was looked at again while the report was made.        *)
THEOREM DeliveryHolds == Spec => []DeliverySound
  BY DeliveredHolds, LandedHolds, PTL DEF DeliverySound

=============================================================================
