----------------------------- MODULE MCDispatch -----------------------------
(***************************************************************************)
(* Instances of ComposeDispatch. Two dispatchers, one workspace they       *)
(* compete for, and up to four requests of two parents: p1's budget is for *)
(* one attempt, and its two requests exceed it in number and not in USD;   *)
(* p2's is for two attempts, and its two exceed it in USD alone.           *)
(***************************************************************************)
EXTENDS ComposeDispatch, TLC

CONSTANTS r1, r2, r3, r4, a1, a2, p1, p2, k1, k2, w1

\* Two unrelated attempts that want the same workspace.
Pair == {r1, r2}
\* With each, another payload of its parent that has its key and the attempt
\* id of the other.
Clash == {r1, r2, r3, r4}

MCAttemptOf == [r \in Requests |-> IF r \in {r1, r4} THEN a1 ELSE a2]
MCParentOf == [r \in Requests |-> IF r \in {r1, r3} THEN p1 ELSE p2]
MCKeyOf == [r \in Requests |-> IF r \in {r1, r3} THEN k1 ELSE k2]
MCWorkspaceOf == [r \in Requests |-> w1]
MCUSDOf == [r \in Requests |-> IF r \in {r1, r3} THEN 1 ELSE 2]
MCBudgetOf ==
  [r \in Requests |-> [maxAttempts |-> IF r \in {r1, r3} THEN 1 ELSE 2, maxUSD |-> 3]]

(* Bounds: a candidate is written once and then cleaned, and not under its *)
(* verifier, where VerifiedMeansJudged makes its exception and the run of  *)
(* MCVerifierRewrites.cfg shows why; an editor strikes behind the last     *)
(* check of an attempt.                                                    *)
WrittenOnce ==
  /\ \A w \in Workspaces : cand'[w] # cand[w] /\ cand[w] # Base => Clean(w)'
  /\ rewritten' = rewritten

EditsMeetLastCheck ==
  edits' # edits => \E d \in Dispatchers : pc[d] = "lastCheck"

Symmetry == Permutations(Dispatchers)

=============================================================================
