----------------------------- MODULE EvalAttempt -----------------------------
(***************************************************************************)
(* `fanisi eval`: the attempts at one task of a study. An attempt prepares *)
(* a worktree, lets a worker change it, and grades what it finds there with *)
(* the fixed verifier: the rest of the worktree and the protected inputs    *)
(* must be as they were, before the verifier and after it. What it decided  *)
(* is in attempt.json, which only the deferred function of evalRun writes;  *)
(* the candidate itself is in candidate.patch.                              *)
(*                                                                          *)
(* A patch stands for what the write paths hold once it is applied. A file  *)
(* is None, or Torn when its write failed half-way, or its content.         *)
(***************************************************************************)
EXTENDS Integers, FiniteSets

CONSTANTS
  Attempts,    \* the numbers of the attempts, in the order a report lists them
  Parent,      \* Parent[a]: the attempt that a repairs, or None
  Contents,    \* what the write paths may hold
  Base,        \* what they hold at the frozen base
  None, Torn,
  MaxFaults,   \* bound on the failing writes and kills
  MaxMeddling  \* bound on the writes by programs outside

\* What evalRun records of an attempt.
Records == [verified : BOOLEAN, passed : BOOLEAN, scope : BOOLEAN,
            patch : Contents \cup {None}]

ASSUME EvalConstants ==
  /\ Attempts \subseteq Nat
  /\ Parent \in [Attempts -> Attempts \cup {None}]
  /\ Base \in Contents
  /\ None \notin Contents /\ Torn \notin Contents /\ None # Torn
  /\ None \notin Records /\ Torn \notin Records
  /\ None \notin Nat /\ MaxFaults \in Nat /\ MaxMeddling \in Nat

VARIABLES
  stage,      \* where evalRun is
  worktree,   \* what the write paths hold, and whether the rest is unchanged
  initial,    \* the snapshot before the worker
  memory,     \* the Attempt record evalRun fills in
  record,     \* attempt.json
  patchFile,  \* candidate.patch
  faults,     \* failing writes and kills
  meddling,   \* writes by programs outside
  history     \* what really happened to the candidate; no action reads it

attemptFiles == <<stage, worktree, initial, memory, record, patchFile, history>>
attemptVars == <<attemptFiles, faults, meddling>>

Stages == {"new", "prepare", "worker", "check", "verify", "verifying", "compare",
           "inputs", "audit", "patch", "status", "record", "done", "killed"}
Over == {"new", "done", "killed"}
Worktrees == [candidate : Contents, tree : BOOLEAN, inputs : BOOLEAN]
Histories == [judged : Contents \cup {None}, \* what the verifier was started on
              passed : BOOLEAN,              \* what it said
              clean : BOOLEAN,    \* tree and inputs were intact at both looks
              edited : BOOLEAN,   \* the candidate changed after its start
              meddled : BOOLEAN]  \* a program outside wrote here

NoRecord == [verified |-> FALSE, passed |-> FALSE, scope |-> FALSE, patch |-> None]

AttemptTypeOK ==
  /\ stage \in [Attempts -> Stages]
  /\ worktree \in [Attempts -> Worktrees]
  /\ initial \in [Attempts -> Contents]
  /\ memory \in [Attempts -> Records]
  /\ record \in [Attempts -> Records \cup {None, Torn}]
  /\ patchFile \in [Attempts -> Contents \cup {None, Torn}]
  /\ faults \in 0..MaxFaults /\ meddling \in 0..MaxMeddling
  /\ history \in [Attempts -> Histories]

AttemptInit ==
  /\ stage = [a \in Attempts |-> "new"]
  /\ worktree = [a \in Attempts |-> [candidate |-> Base, tree |-> TRUE, inputs |-> TRUE]]
  /\ initial = [a \in Attempts |-> Base]
  /\ memory = [a \in Attempts |-> NoRecord]
  /\ record = [a \in Attempts |-> None]
  /\ patchFile = [a \in Attempts |-> None]
  /\ faults = 0 /\ meddling = 0
  /\ history = [a \in Attempts |->
       [judged |-> None, passed |-> FALSE, clean |-> FALSE, edited |-> FALSE,
        meddled |-> FALSE]]

Goto(a, place) == stage' = [stage EXCEPT ![a] = place]

(* Every return goes through the deferred function.                        *)
Fail(a) == Goto(a, "record") /\ UNCHANGED <<memory, patchFile, history>>

Fault == faults < MaxFaults /\ faults' = faults + 1 /\ UNCHANGED meddling
bounds == <<faults, meddling>>

Intact(a) == worktree[a].tree /\ worktree[a].inputs

(* What a program may leave of a worktree: an edit of the candidate, and a  *)
(* change of the tree or of the inputs, or both.                            *)
Writes(a) ==
  {w \in Worktrees : /\ w.tree => worktree[a].tree
                     /\ w.inputs => worktree[a].inputs}

(* An edit is remembered once the verifier has been started on the         *)
(* candidate.                                                              *)
Rewrite(a, w) == worktree' = [worktree EXCEPT ![a] = w]
Edited(a, w) ==
  \/ history[a].edited
  \/ history[a].judged # None /\ w.candidate # worktree[a].candidate

-----------------------------------------------------------------------------
(* Preparation: a fresh attempt directory, a new worktree at the base, the *)
(* patch of the repaired attempt, and a verifier that reproduces the       *)
(* defect before anything is changed.                                      *)

\* Mutant: an attempt directory that exists already is used again.
StartInside(a) ==
  /\ stage[a] \in {"new", "done"}
  /\ Goto(a, "prepare")
  /\ memory' = [memory EXCEPT ![a] = NoRecord]
  /\ UNCHANGED <<worktree, initial, record, patchFile, bounds, history>>

Start(a) ==
  /\ stage[a] = "new"
  /\ Goto(a, "prepare")
  /\ UNCHANGED <<worktree, initial, memory, record, patchFile, bounds, history>>

(* A parent is read back: its record, and a patch with the hash it names.  *)
Repairable(p) ==
  /\ record[p] \in Records
  /\ patchFile[p] \in Contents
  /\ patchFile[p] = record[p].patch

Prepare(a) ==
  /\ stage[a] = "prepare"
  /\ \E c \in Contents :
       /\ \/ Parent[a] = None /\ c = Base
          \/ Parent[a] # None /\ Repairable(Parent[a]) /\ c = patchFile[Parent[a]]
       /\ Rewrite(a, [worktree[a] EXCEPT !.candidate = c])
       /\ initial' = [initial EXCEPT ![a] = c]
  /\ Goto(a, "worker")
  /\ UNCHANGED <<memory, record, patchFile, bounds, history>>

(* A step of the preparation fails, or the baseline verifier does not exit *)
(* with 1.                                                                 *)
PrepareFails(a) ==
  /\ stage[a] = "prepare"
  /\ Fail(a)
  /\ UNCHANGED <<worktree, initial, record, bounds>>

(* The worker, of whichever arm, within its time limit. Whether it failed  *)
(* does not matter to the grading.                                         *)
Work(a) ==
  /\ stage[a] = "worker"
  /\ \E w \in Writes(a) : Rewrite(a, w)
  /\ Goto(a, "check")
  /\ UNCHANGED <<initial, memory, record, patchFile, bounds, history>>

-----------------------------------------------------------------------------
(* Grading.                                                                *)

(* The protected inputs still have their hashes and the audit of the       *)
(* worktree against its inventory passes.                                  *)
Check(a) ==
  /\ stage[a] = "check"
  /\ \/ Intact(a) /\ Goto(a, "verify") /\ UNCHANGED <<memory, patchFile, history>>
     \/ ~Intact(a) /\ Fail(a)
  /\ UNCHANGED <<worktree, initial, record, bounds>>

StartVerifier(a) ==
  /\ stage[a] = "verify"
  /\ history' = [history EXCEPT ![a].judged = worktree[a].candidate,
                                ![a].clean = Intact(a)]
  /\ Goto(a, "verifying")
  /\ UNCHANGED <<worktree, initial, memory, record, patchFile, bounds>>

(* The verifier may write anywhere while it runs.                          *)
VerifierReturns(a) ==
  /\ stage[a] = "verifying"
  /\ \E passed \in BOOLEAN, w \in Writes(a) :
       /\ Rewrite(a, w)
       /\ memory' = [memory EXCEPT ![a].passed = passed]
       /\ history' = [history EXCEPT ![a].passed = passed, ![a].edited = Edited(a, w)]
  /\ Goto(a, "compare")
  /\ UNCHANGED <<initial, record, patchFile, bounds>>

(* A snapshot that equals the one before the worker is no candidate.       *)
Compare(a) ==
  /\ stage[a] = "compare"
  /\ \/ worktree[a].candidate # initial[a] /\ Goto(a, "inputs")
     \/ worktree[a].candidate = initial[a] /\ Goto(a, "record")
  /\ UNCHANGED <<worktree, initial, memory, record, patchFile, bounds, history>>

\* Mutant: the inputs are not hashed again after the verifier.
TrustInputs(a) ==
  /\ stage[a] = "inputs"
  /\ Goto(a, "audit")
  /\ UNCHANGED <<worktree, initial, memory, record, patchFile, bounds, history>>

CheckInputs(a) ==
  /\ stage[a] = "inputs"
  /\ \/ worktree[a].inputs /\ Goto(a, "audit")
     \/ ~worktree[a].inputs /\ Goto(a, "record")
  /\ UNCHANGED <<worktree, initial, memory, record, patchFile, bounds, history>>

Audit(a) ==
  /\ stage[a] = "audit"
  /\ memory' = [memory EXCEPT ![a].scope = worktree[a].tree]
  /\ \/ worktree[a].tree /\ Goto(a, "patch")
     \/ ~worktree[a].tree /\ Goto(a, "record")
  /\ UNCHANGED <<worktree, initial, record, patchFile, bounds, history>>

(* The patch is taken from the worktree as it is now. Its hash stays in    *)
(* the record also when candidate.patch cannot be written.                 *)
WritePatch(a) ==
  /\ stage[a] = "patch"
  /\ memory' = [memory EXCEPT ![a].patch = worktree[a].candidate]
  /\ history' = [history EXCEPT ![a].clean = @ /\ Intact(a)]
  /\ \/ /\ patchFile' = [patchFile EXCEPT ![a] = worktree[a].candidate]
        /\ Goto(a, "status") /\ UNCHANGED bounds
     \/ /\ Fault /\ Goto(a, "record")
        /\ patchFile' \in {patchFile, [patchFile EXCEPT ![a] = Torn]}
  /\ UNCHANGED <<worktree, initial, record>>

SetStatus(a) ==
  /\ stage[a] = "status"
  /\ memory' = [memory EXCEPT ![a].verified = memory[a].scope /\ memory[a].passed]
  /\ Goto(a, "record")
  /\ UNCHANGED <<worktree, initial, record, patchFile, bounds, history>>

(* The deferred function, whose write may fail too.                        *)
WriteRecord(a) ==
  /\ stage[a] = "record"
  /\ \/ record' = [record EXCEPT ![a] = memory[a]] /\ UNCHANGED bounds
     \/ Fault /\ record' \in {record, [record EXCEPT ![a] = Torn]}
  /\ Goto(a, "done")
  /\ UNCHANGED <<worktree, initial, memory, patchFile, history>>

(* A file cannot be read, or git fails.                                    *)
GradeFails(a) ==
  /\ stage[a] \in {"check", "compare", "inputs", "audit", "patch"}
  /\ Fail(a)
  /\ UNCHANGED <<worktree, initial, record, bounds>>

Grade(a) ==
  \/ Check(a) \/ StartVerifier(a) \/ VerifierReturns(a) \/ Compare(a)
  \/ CheckInputs(a) \/ Audit(a) \/ WritePatch(a) \/ SetStatus(a) \/ WriteRecord(a)
  \/ GradeFails(a)

Evaluate(a) == Start(a) \/ Prepare(a) \/ PrepareFails(a) \/ Work(a) \/ Grade(a)

-----------------------------------------------------------------------------
(* The environment: a killed evaluation, and programs outside it that      *)
(* write to the worktree, which is kept, or to the candidate.              *)

Kill(a) ==
  /\ stage[a] \notin Over /\ Fault
  /\ Goto(a, "killed")
  /\ UNCHANGED <<worktree, initial, memory, record, patchFile, history>>

Meddle(a) ==
  /\ stage[a] \notin {"new", "prepare"} /\ meddling < MaxMeddling
  /\ meddling' = meddling + 1
  /\ \E w \in Writes(a) :
       /\ Cardinality({p \in DOMAIN w : w[p] # worktree[a][p]}) = 1
       /\ Rewrite(a, w)
       /\ history' = [history EXCEPT ![a].edited = Edited(a, w), ![a].meddled = TRUE]
  /\ UNCHANGED <<stage, initial, memory, record, patchFile, faults>>

ReplacePatch(a) ==
  /\ patchFile[a] \in Contents /\ meddling < MaxMeddling
  /\ meddling' = meddling + 1
  /\ patchFile' = [patchFile EXCEPT ![a] = Torn]
  /\ UNCHANGED <<stage, worktree, initial, memory, record, history, faults>>

AttemptNext ==
  \E a \in Attempts : Evaluate(a) \/ Kill(a) \/ Meddle(a) \/ ReplacePatch(a)

-----------------------------------------------------------------------------
(* An attempt recorded as verified passed the verifier, has a patch that   *)
(* changes what the worker was given, and, unless programs outside wrote   *)
(* to its worktree, everything but the candidate was intact when the       *)
(* verifier started and when the patch was taken, whatever worker and      *)
(* verifier did. Unless the candidate changed after the verifier started,  *)
(* the patch is what it judged.                                            *)
VerdictSound ==
  \A a \in Attempts : record[a] \in Records /\ record[a].verified =>
    /\ history[a].passed
    /\ ~history[a].meddled => history[a].clean /\ record[a].patch # initial[a]
    /\ ~history[a].edited => record[a].patch = history[a].judged
=============================================================================
