---------------------------- MODULE MCEvaluation ----------------------------
(***************************************************************************)
(* An attempt and its repair, from three states an evaluation comes to: an *)
(* attempt is to be evaluated, after one that failed and was reported; the *)
(* repair of a rejected attempt is to be evaluated; a report begins on an  *)
(* attempt that has been accepted and has landed, perhaps to be rejected   *)
(* or revoked later, whose worktree was used or whose patch was replaced   *)
(* since, and whose merge may have left the branch, and on its repair.     *)
(***************************************************************************)
EXTENDS EvalDelivery, Sequences, TLC

MCParent == (1 :> None) @@ (2 :> 1)
Symmetries == Permutations(LandingIDs) \cup Permutations(Contents \ {Base})

Fresh(c) == [candidate |-> c, tree |-> TRUE, inputs |-> TRUE]
Good(c) == [verified |-> TRUE, passed |-> TRUE, scope |-> TRUE, patch |-> c]
Unseen == [judged |-> None, passed |-> FALSE, clean |-> FALSE, edited |-> FALSE,
           meddled |-> FALSE]
Judged(c) == [Unseen EXCEPT !.judged = c, !.passed = TRUE, !.clean = TRUE]
Began(attempts) ==
  [listed |-> attempts, tallied |-> {}, accepted |-> {}, attempt |-> None,
   latest |-> None, claims |-> {}, done |-> {}, counted |-> {},
   assisted |-> FALSE, floor |-> [a \in Attempts |-> None], revoked |-> {},
   spoiled |-> {}, landed |-> {}]
Reported(attempts) == [Began(attempts) EXCEPT !.tallied = attempts, !.done = attempts]
Empty == [id \in LandingIDs |-> None]
Two(x, y) == (1 :> x) @@ (2 :> y)

ToEvaluate ==
  /\ meddling = 0 /\ stage = Two("new", "done")
  /\ worktree = Two(Fresh(Base), Fresh(Base)) /\ initial = Two(Base, Base)
  /\ memory = Two(NoRecord, NoRecord) /\ record = Two(None, NoRecord)
  /\ patchFile = Two(None, None) /\ history = Two(Unseen, Unseen)
  /\ clock = 0 /\ reviews = Two({}, {}) /\ report = None /\ published = Torn
  /\ onBranch = {} /\ landings = Two(Empty, Empty)

ToRepair == \E c \in Contents \ {Base} :
  /\ meddling = 0 /\ stage = Two("done", "new")
  /\ worktree = Two(Fresh(c), Fresh(Base)) /\ initial = Two(Base, Base)
  /\ memory = Two(Good(c), NoRecord) /\ record = Two(Good(c), None)
  /\ patchFile = Two(c, None) /\ history = Two(Judged(c), Unseen)
  /\ clock = MaxReviews /\ report = None /\ published = None
  /\ reviews = Two({[at |-> t, decision |-> "reject"] : t \in Times}, {})
  /\ onBranch = {} /\ landings = Two(Empty, Empty)

ToDeliver == \E c, d \in Contents \ {Base} :
  /\ c # d
  /\ meddling = 1 /\ stage = Two("done", "done")
  /\ initial = Two(Base, c)
  /\ memory = Two(Good(c), Good(d)) /\ record = Two(Good(c), Good(d))
  /\ \/ /\ worktree = Two([Fresh(c) EXCEPT !.tree = FALSE], Fresh(d))
        /\ patchFile = Two(c, d)
        /\ history = Two([Judged(c) EXCEPT !.meddled = TRUE], Judged(d))
     \/ /\ worktree = Two(Fresh(c), Fresh(d))
        /\ patchFile = Two(Torn, d)
        /\ history = Two(Judged(c), Judged(d))
  /\ onBranch \in {{}, {c}} /\ published = None
  /\ \E ds \in {<<"accept">>, <<"accept", "reject">>}, id \in LandingIDs,
        revoked \in BOOLEAN :
       /\ clock = Len(ds)
       /\ reviews = Two({[at |-> t, decision |-> ds[t]] : t \in DOMAIN ds}, {})
       /\ landings = Two([j \in LandingIDs |->
            IF j = id THEN [review |-> 1, merge |-> c, revokes |-> None]
            ELSE IF revoked THEN [review |-> None, merge |-> Base, revokes |-> id]
            ELSE None], Empty)
       /\ report = [Began({1, 2}) EXCEPT
            !.floor = Two(Len(ds), None),
            !.revoked = IF revoked THEN {[attempt |-> 1, id |-> id]} ELSE {},
            !.spoiled = {a \in {1, 2} : patchFile[a] = Torn}, !.landed = onBranch]

MCInit ==
  /\ ToEvaluate \/ ToRepair \/ ToDeliver
  /\ faults = 0 /\ moves = 0
  /\ reviewer = [v \in Reviewers |-> None] /\ importer = [i \in Importers |-> None]

MCSpec == MCInit /\ [][Next]_vars
=============================================================================
