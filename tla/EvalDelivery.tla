---------------------------- MODULE EvalDelivery ----------------------------
(***************************************************************************)
(* What follows an attempt: `fanisi review` appends reviews to it,          *)
(* `fanisi import-landing` appends claims that its patch was merged, or     *)
(* revokes them, and `fanisi report` counts what is on file. Each command   *)
(* is a process that reads files one after the other, without a lock, while *)
(* the others write; the target branch moves too.                           *)
(***************************************************************************)
EXTENDS EvalAttempt, FiniteSetsExt

CONSTANTS
  Reviewers,    \* processes that review
  Importers,    \* processes that import landing records
  LandingIDs,   \* identities of landing records
  MaxReviews,   \* bound on the reviews, which are named by the time they are made
  MaxMoves      \* bound on the moves of the target branch

Times == 1..MaxReviews
Reviews == [at : Times, decision : {"accept", "reject", Torn}]
Landings ==   \* a landing, or a revocation, of which nothing else is read
  [review : Times, merge : Contents, revokes : {None}] \cup
  [review : {None}, merge : {Base}, revokes : LandingIDs]

ASSUME DeliveryConstants ==
  /\ MaxReviews \in Nat /\ MaxMoves \in Nat
  /\ None \notin LandingIDs /\ Torn \notin LandingIDs
  /\ None \notin Landings /\ Torn \notin Landings

VARIABLES
  clock,      \* the time at which the last review was stamped
  reviews,    \* reviews[a]: the review files of an attempt
  landings,   \* landings[a][id]: a landing file
  reviewer,   \* the reviews that are being made
  importer,   \* the landing records that are being imported
  onBranch,   \* contents whose merge is on the recorded target branch
  moves,
  report,     \* the report that is being made
  published   \* what it said: None before, Torn when it failed

deliveryVars ==
  <<clock, reviews, landings, reviewer, importer, onBranch, moves, report, published>>
vars == <<attemptVars, deliveryVars>>

Sessions == [place : {"audit", "compare", "inputs", "stamp", "write"},
             attempt : Attempts, decision : {"accept", "reject"},
             at : Times \cup {None},
             changed : SUBSET {"tree", "candidate", "inputs"}] \* since their look
Imports == [attempt : Attempts, id : LandingIDs, landing : Landings]
Claims == [attempt : Attempts, id : LandingIDs]
Tallies == [listed : SUBSET Attempts,
            tallied : SUBSET Attempts,          \* by the first pass
            accepted : SUBSET (Attempts \X Times),
            attempt : Attempts \cup {None},     \* the one the second pass is at
            latest : Times \cup {None},
            claims : SUBSET (LandingIDs \X Landings),
            done : SUBSET Attempts,             \* by the second pass
            counted : SUBSET Claims,
            assisted : BOOLEAN,                 \* one of them repairs another attempt
            floor : [Attempts -> Times \cup {None}], \* the latest reviews, the
            revoked : SUBSET Claims,                 \* revoked landings and the
            spoiled : SUBSET Attempts,               \* lost patches at its start
            landed : SUBSET Contents]   \* merges on the branch at any time since

TypeOK ==
  /\ AttemptTypeOK
  /\ clock \in 0..MaxReviews
  /\ reviews \in [Attempts -> SUBSET Reviews]
  /\ landings \in [Attempts -> [LandingIDs -> Landings \cup {None, Torn}]]
  /\ reviewer \in [Reviewers -> Sessions \cup {None}]
  /\ importer \in [Importers -> Imports \cup {None}]
  /\ onBranch \subseteq Contents /\ moves \in 0..MaxMoves
  /\ report \in Tallies \cup {None}
  /\ published \in Tallies \cup {None, Torn}

DeliveryInit ==
  /\ clock = 0
  /\ reviews = [a \in Attempts |-> {}]
  /\ landings = [a \in Attempts |-> [id \in LandingIDs |-> None]]
  /\ reviewer = [v \in Reviewers |-> None]
  /\ importer = [i \in Importers |-> None]
  /\ onBranch = {} /\ moves = 0
  /\ report = None /\ published = None

Init == AttemptInit /\ DeliveryInit

-----------------------------------------------------------------------------
(* Reviews. An acceptance looks at the worktree again; what it looks at    *)
(* may change while it does.                                               *)

CandidateIntact(a) ==
  /\ record[a] \in Records
  /\ record[a].patch # None /\ patchFile[a] = record[a].patch

BeginReview(v) ==
  /\ reviewer[v] = None
  /\ \E a \in Attempts, d \in {"accept", "reject"} :
       /\ CandidateIntact(a)
       /\ d = "accept" => record[a].verified /\ record[a].scope /\ record[a].passed
       /\ reviewer' = [reviewer EXCEPT ![v] =
            [place |-> IF d = "accept" THEN "audit" ELSE "stamp", attempt |-> a,
             decision |-> d, at |-> None, changed |-> {}]]
  /\ UNCHANGED <<attemptVars, clock, reviews, landings, importer, onBranch, moves,
                 report, published>>

(* A look of the acceptance: it goes on when what it looks at is as it     *)
(* should be, and ends without a review when it is not.                    *)
Look(v, here, ok, next) ==
  /\ reviewer[v] # None /\ reviewer[v].place = here
  /\ reviewer' = [reviewer EXCEPT ![v] = IF ok THEN [@ EXCEPT !.place = next] ELSE None]
  /\ UNCHANGED <<attemptVars, clock, reviews, landings, importer, onBranch, moves,
                 report, published>>

AuditWorktree(v) ==
  reviewer[v] # None /\ Look(v, "audit", worktree[reviewer[v].attempt].tree, "compare")

\* Mutant: the record is trusted to still name what the worktree holds.
TrustCandidate(v) ==
  reviewer[v] # None /\ Look(v, "compare", TRUE, "inputs")

CompareCandidate(v) ==
  reviewer[v] # None /\
  Look(v, "compare",
       worktree[reviewer[v].attempt].candidate = record[reviewer[v].attempt].patch,
       "inputs")

HashInputs(v) ==
  reviewer[v] # None /\ Look(v, "inputs", worktree[reviewer[v].attempt].inputs, "stamp")

(* The file is named by the nanosecond, taken before it is written.        *)
Stamp(v) ==
  /\ reviewer[v] # None /\ reviewer[v].place = "stamp" /\ clock < MaxReviews
  /\ clock' = clock + 1
  /\ reviewer' = [reviewer EXCEPT ![v].at = clock + 1, ![v].place = "write"]
  /\ UNCHANGED <<attemptVars, reviews, landings, importer, onBranch, moves, report,
                 published>>

WriteReview(v) ==
  /\ reviewer[v] # None /\ reviewer[v].place = "write"
  /\ \E d \in {reviewer[v].decision, Torn} :
       /\ reviews' = [reviews EXCEPT ![reviewer[v].attempt] =
                        @ \cup {[at |-> reviewer[v].at, decision |-> d]}]
       /\ IF d = Torn THEN Fault ELSE UNCHANGED bounds
  /\ reviewer' = [reviewer EXCEPT ![v] = None]
  /\ UNCHANGED <<attemptFiles, clock, landings, importer, onBranch, moves, report,
                 published>>

(* Killed, or an error: something cannot be read, git fails, or the write  *)
(* does not even create the file.                                          *)
AbandonReview(v) ==
  /\ reviewer[v] # None
  /\ reviewer' = [reviewer EXCEPT ![v] = None]
  /\ UNCHANGED <<attemptVars, clock, reviews, landings, importer, onBranch, moves,
                 report, published>>

Review(v) ==
  \/ BeginReview(v) \/ AuditWorktree(v) \/ CompareCandidate(v) \/ HashInputs(v)
  \/ Stamp(v) \/ WriteReview(v) \/ AbandonReview(v)

-----------------------------------------------------------------------------
(* Landings.                                                               *)

(* A revocation needs the record it revokes; a landing needs a verified    *)
(* attempt, an acceptance of its patch, the patch itself, and a merge on   *)
(* the target branch whose change of the write paths is the patch.         *)
Revokes(a, l) == l.revokes # None /\ landings[a][l.revokes] \in Landings

\* Mutant: any merge that contains the reviewed base will do.
LandsSomething(a, l) ==
  /\ l.revokes = None
  /\ CandidateIntact(a) /\ record[a].passed /\ record[a].scope
  /\ [at |-> l.review, decision |-> "accept"] \in reviews[a]
  /\ l.merge \in onBranch /\ l.merge # Base

Lands(a, l) ==
  /\ l.revokes = None
  /\ CandidateIntact(a) /\ record[a].passed /\ record[a].scope
  /\ [at |-> l.review, decision |-> "accept"] \in reviews[a]
  /\ l.merge \in onBranch /\ l.merge # Base /\ l.merge = record[a].patch

BeginImport(i) ==
  /\ importer[i] = None
  /\ \E a \in Attempts, id \in LandingIDs, l \in Landings :
       /\ Revokes(a, l) \/ Lands(a, l)
       /\ importer' = [importer EXCEPT ![i] = [attempt |-> a, id |-> id, landing |-> l]]
  /\ UNCHANGED <<attemptVars, clock, reviews, landings, reviewer, onBranch, moves,
                 report, published>>

LandingFile(i) == landings[importer[i].attempt][importer[i].id]

(* An identical record is on file already, a different one is a conflict,  *)
(* and neither changes anything.                                           *)
WriteLanding(i) ==
  /\ importer[i] # None
  /\ \/ /\ LandingFile(i) = None
        /\ \E l \in {importer[i].landing, Torn} :
             /\ landings' = [landings EXCEPT ![importer[i].attempt][importer[i].id] = l]
             /\ IF l = Torn THEN Fault ELSE UNCHANGED bounds
     \/ UNCHANGED <<landings, bounds>>
  /\ importer' = [importer EXCEPT ![i] = None]
  /\ UNCHANGED <<attemptFiles, clock, reviews, reviewer, onBranch, moves, report,
                 published>>

Import(i) == BeginImport(i) \/ WriteLanding(i)

(* The target branch gains a merge, or is rewritten without it.            *)
MoveBranch ==
  /\ moves < MaxMoves /\ moves' = moves + 1
  /\ \E c \in Contents \ {Base} :
       onBranch' = (IF c \in onBranch THEN onBranch \ {c} ELSE onBranch \cup {c})
  /\ report' = IF report = None THEN None
               ELSE [report EXCEPT !.landed = @ \cup onBranch']
  /\ UNCHANGED <<attemptVars, clock, reviews, landings, reviewer, importer, published>>

-----------------------------------------------------------------------------
(* The report.                                                             *)

TimesOf(rs) == {r.at : r \in rs}
Latest(rs) == IF rs = {} THEN None ELSE Max(TimesOf(rs))

Revoked(id, claims) == \E c \in claims : c[2].revokes = id
Filed(a) == {<<id, landings[a][id]>> : id \in
               {j \in LandingIDs : landings[a][j] \in Landings}}

Listed == {a \in Attempts : record[a] # None}

Spoiled == {a \in Attempts : record[a] \in Records /\ ~CandidateIntact(a)}

StartReport ==
  /\ report = None /\ published = None /\ Listed # {}
  /\ report' = [listed |-> Listed, tallied |-> {}, accepted |-> {}, attempt |-> None,
                latest |-> None, claims |-> {}, done |-> {}, counted |-> {},
                assisted |-> FALSE,
                floor |-> [a \in Attempts |-> Latest(reviews[a])],
                revoked |-> {c \in Claims : Revoked(c.id, Filed(c.attempt))},
                spoiled |-> Spoiled, landed |-> onBranch]
  /\ UNCHANGED <<attemptVars, clock, reviews, landings, reviewer, importer, onBranch,
                 moves, published>>

Readable(a) ==
  record[a] \in Records /\ \A r \in reviews[a] : r.decision # Torn

(* A record that cannot be read, or a landing that does not verify, fails  *)
(* the whole report.                                                       *)
FailReport == report' = None /\ published' = Torn

\* Mutant: an attempt without a review is counted with the empty one.
AcceptedIfVerified(a) ==
  {t \in {Latest(reviews[a])} : record[a].passed /\ record[a].scope}

(* The first pass counts attempts and historical acceptances.              *)
Accepted(a) ==
  {t \in {Latest(reviews[a])} : /\ [at |-> t, decision |-> "accept"] \in reviews[a]
                               /\ record[a].passed /\ record[a].scope}

Tally ==
  /\ report # None
  /\ LET left == report.listed \ report.tallied
         a == Min(left)
     IN left # {} /\
        \/ /\ Readable(a) /\ UNCHANGED published
           /\ report' = [report EXCEPT !.tallied = @ \cup {a},
                                       !.accepted = @ \cup ({a} \X Accepted(a))]
        \/ ~Readable(a) /\ FailReport
  /\ UNCHANGED <<attemptVars, clock, reviews, landings, reviewer, importer, onBranch,
                 moves>>

(* The second pass reads an attempt's reviews, then its landings, and then *)
(* verifies those that count once more.                                    *)
ReadReviews ==
  /\ report # None /\ report.tallied = report.listed /\ report.attempt = None
  /\ LET left == report.listed \ report.done
         a == Min(left)
     IN left # {} /\
        \/ /\ Readable(a) /\ UNCHANGED published
           /\ report' = [report EXCEPT !.attempt = a, !.latest = Latest(reviews[a])]
        \/ ~Readable(a) /\ FailReport
  /\ UNCHANGED <<attemptVars, clock, reviews, landings, reviewer, importer, onBranch,
                 moves>>

\* Mutant: a revocation counts only if it is listed before what it revokes.
StandingUnlessRevoking(claims, latest) ==
  {c \in claims : c[2].revokes = None /\ c[2].review = latest}

Standing(claims, latest) ==
  {c \in claims : /\ c[2].revokes = None /\ ~Revoked(c[1], claims)
                  /\ c[2].review = latest}

ReadLandings ==
  /\ report # None /\ report.attempt # None /\ report.claims = {}
  /\ LET a == report.attempt IN
       \/ /\ \E id \in LandingIDs : landings[a][id] = Torn
          /\ FailReport
       \/ /\ \A id \in LandingIDs : landings[a][id] # Torn
          /\ UNCHANGED published
          /\ LET claims == Standing(Filed(a), report.latest) IN
               report' = IF claims = {}
                         THEN [report EXCEPT !.attempt = None, !.latest = None,
                                             !.done = @ \cup {a}]
                         ELSE [report EXCEPT !.claims = claims]
  /\ UNCHANGED <<attemptVars, clock, reviews, landings, reviewer, importer, onBranch,
                 moves>>

\* Mutant: what was verified when it was imported is counted as it is.
CountAsImported ==
  /\ report # None /\ report.claims # {}
  /\ LET a == report.attempt IN
       report' = [report EXCEPT
         !.attempt = None, !.latest = None, !.claims = {},
         !.done = @ \cup {a},
         !.counted = @ \cup {[attempt |-> a, id |-> c[1]] : c \in report.claims},
         !.assisted = @ \/ Parent[a] # None]
  /\ UNCHANGED <<attemptVars, clock, reviews, landings, reviewer, importer, onBranch,
                 moves, published>>

VerifyCounted ==
  /\ report # None /\ report.claims # {}
  /\ LET a == report.attempt IN
       \/ /\ \A c \in report.claims : Lands(a, c[2])
          /\ UNCHANGED published
          /\ report' = [report EXCEPT
               !.attempt = None, !.latest = None, !.claims = {},
               !.done = @ \cup {a},
               !.counted = @ \cup {[attempt |-> a, id |-> c[1]] : c \in report.claims},
               !.assisted = @ \/ Parent[a] # None]
       \/ (\E c \in report.claims : ~Lands(a, c[2])) /\ FailReport
  /\ UNCHANGED <<attemptVars, clock, reviews, landings, reviewer, importer, onBranch,
                 moves>>

Publish ==
  /\ report # None /\ report.done = report.listed
  /\ published' = report /\ report' = None
  /\ UNCHANGED <<attemptVars, clock, reviews, landings, reviewer, importer, onBranch,
                 moves>>

Report ==
  \/ StartReport \/ Tally \/ ReadReviews \/ ReadLandings \/ VerifyCounted \/ Publish

-----------------------------------------------------------------------------
(* What an acceptance has looked at when it comes to a place, and what of  *)
(* that a write to the worktree changes behind its back.                   *)
Seen == [audit |-> {}, compare |-> {"tree"}, inputs |-> {"tree", "candidate"},
         stamp |-> {"tree", "candidate", "inputs"},
         write |-> {"tree", "candidate", "inputs"}]

Changes(s) ==
  {p \in Seen[s.place] : /\ s.decision = "accept"
                         /\ worktree'[s.attempt][p] # worktree[s.attempt][p]}

Disturb ==
  reviewer' = [v \in Reviewers |->
    IF reviewer[v] = None THEN None
    ELSE [reviewer[v] EXCEPT !.changed = @ \cup Changes(reviewer[v])]]

Attempting ==
  /\ AttemptNext /\ Disturb
  /\ UNCHANGED <<clock, reviews, landings, importer, onBranch, moves, report, published>>

Next ==
  \/ Attempting
  \/ \E v \in Reviewers : Review(v)
  \/ \E i \in Importers : Import(i)
  \/ MoveBranch \/ Report

Spec == Init /\ [][Next]_vars

-----------------------------------------------------------------------------
(* A review that is about to accept is about an attempt that passed the    *)
(* verifier, and everything it looked at is as it should be: a part of the *)
(* worktree that was wrong before its look, or was written to by then, is  *)
(* noticed, and only a write after that part's own look is not.            *)
AcceptanceSound ==
  \A v \in Reviewers : reviewer[v] # None =>
    LET s == reviewer[v]
        a == s.attempt
    IN (s.place \in {"stamp", "write"} /\ s.decision = "accept") =>
         /\ history[a].passed
         /\ "tree" \notin s.changed => worktree[a].tree
         /\ "candidate" \notin s.changed => worktree[a].candidate = record[a].patch
         /\ "inputs" \notin s.changed => worktree[a].inputs

EvidenceSound == VerdictSound /\ AcceptanceSound

(* No report counts a landing, or an acceptance, that a revocation or a    *)
(* later review on file when it began had overtaken, whatever is reviewed, *)
(* imported and revoked while it reads.                                    *)
AtLeast(t, floor) == floor = None \/ (t # None /\ t >= floor)

CountedIsCurrent ==
  published \notin {None, Torn} =>
    /\ \A c \in published.counted :
         /\ c \notin published.revoked
         /\ AtLeast(landings[c.attempt][c.id].review, published.floor[c.attempt])
    /\ \A x \in published.accepted : AtLeast(x[2], published.floor[x[1]])

(* What a report counts as delivered was merged as the verifier judged it, *)
(* unless the candidate was edited after the verifier had started, and is  *)
(* backed by a review that accepts it; a task is autonomous only if no     *)
(* counted attempt repairs another.                                        *)
DeliveredAsJudged ==
  published \notin {None, Torn} =>
    /\ \A c \in published.counted :
         LET a == c.attempt
             l == landings[a][c.id]
         IN /\ l.merge # Base
            /\ history[a].passed
            /\ ~history[a].edited => l.merge = history[a].judged
            /\ [at |-> l.review, decision |-> "accept"] \in reviews[a]
    /\ published.assisted <=> \E c \in published.counted : Parent[c.attempt] # None

(* Whatever was imported before, a report counts only merges that were on  *)
(* the target branch at some time while it was made, of attempts whose     *)
(* patch was still the recorded one when it began.                         *)
LandedWhenCounted ==
  published \notin {None, Torn} =>
    \A c \in published.counted :
      /\ landings[c.attempt][c.id].merge \in published.landed
      /\ c.attempt \notin published.spoiled

DeliverySound == DeliveredAsJudged /\ LandedWhenCounted

(* Records, patches, reviews and landings are never rewritten or removed,  *)
(* whatever is evaluated, reviewed or imported again; only a program       *)
(* outside changes a patch.                                                *)
Kept(old, new) == old # None => new = old

LedgerAppendOnly ==
  [][\A a \in Attempts :
       /\ Kept(record[a], record'[a])
       /\ meddling' = meddling => Kept(patchFile[a], patchFile'[a])
       /\ reviews[a] \subseteq reviews'[a]
       /\ \A id \in LandingIDs : Kept(landings[a][id], landings'[a][id])]_vars
=============================================================================
