---------------------------- MODULE NativeProofs ----------------------------
(***************************************************************************)
(* What a native run accepts, and what it says it cost, for all budgets,   *)
(* contents and batches.                                                   *)
(***************************************************************************)
EXTENDS NativeRun, SetLemmas

USE RunConstants

(* Every kind of a tool's end keeps the types of what it changes, and only *)
(* the controller's own verification can accept, with the files and the    *)
(* verdict it has.                                                         *)
LEMMA ToolEndsEffect ==
  ASSUME TypeOK, NEW error \in BOOLEAN, NEW pass \in BOOLEAN, ToolEnds(error, pass),
         pc \in {"tool", "command", "snapshot"}, todo # 0
  PROVE  /\ messages' \in Nat /\ todo' \in 0..MaxBatch /\ prose' \in BOOLEAN
         /\ command' \in {"format", "verify"} /\ anyFailed' \in BOOLEAN
         /\ pc' \in {"return", "loop", "judge", "tool"}
         /\ pc' = "tool" => todo' # 0
         /\ UNCHANGED result
         /\ \/ UNCHANGED <<accepted, final>>
            \/ ~error /\ pass /\ pc' = "return" /\ accepted' /\ final' = files
<1>1. PICK unlogged \in BOOLEAN :
        /\ UNCHANGED <<prose, command>>
        /\ IF prose
           THEN /\ UNCHANGED <<anyFailed, todo>>
                /\ \/ (error \/ unlogged) /\ Fail /\ UNCHANGED messages
                   \/ ~error /\ ~unlogged /\ pass /\ Accept /\ UNCHANGED messages
                   \/ /\ ~error /\ ~unlogged /\ ~pass
                      /\ Goto("loop") /\ messages' = messages + 1 /\ UNCHANGED outcome
           ELSE /\ anyFailed' = (anyFailed \/ error \/ unlogged)
                /\ todo' = todo - 1
                /\ messages' = messages + 1
                /\ Goto(IF todo = 1 THEN "judge" ELSE "tool")
                /\ UNCHANGED outcome
  BY DEF ToolEnds
<1>2. CASE prose
  BY <1>1, <1>2 DEF TypeOK, Fail, Accept, Goto, outcome
<1>3. CASE ~prose
  <2>1. todo' = todo - 1 /\ todo \in 0..MaxBatch
    BY <1>1, <1>3 DEF TypeOK
  <2>2. todo' \in 0..MaxBatch /\ (todo # 1 => todo' # 0)
    BY <2>1
  <2>3. anyFailed' \in BOOLEAN
    BY <1>1, <1>3 DEF TypeOK
  <2> QED
    BY <1>1, <1>3, <2>2, <2>3 DEF TypeOK, Goto, outcome
<1> QED
  BY <1>2, <1>3

(* A batch being executed has a tool left. *)
Busy == pc \in {"tool", "command", "snapshot"} => todo # 0

TypedRun == TypeOK /\ Busy

LEMMA InitTyped == Init => TypedRun
<1> SUFFICES ASSUME Init PROVE TypedRun
  OBVIOUS
<1>1. responses \in [1..MaxCalls -> Responses \cup {None}]
  BY DEF Init
<1>2. calls \in 0..MaxCalls /\ todo \in 0..MaxBatch
  BY DEF Init
<1>3. result \in [verified : BOOLEAN, complete : BOOLEAN, tokens : Nat] \cup {None}
  BY DEF Init
<1>4. overrun \in 0..MaxOverrun
  BY RunConstants DEF Init
<1> QED
  BY <1>1, <1>2, <1>3, <1>4 DEF Init, TypedRun, TypeOK, Busy, Places, Snapshots

LEMMA StepTyped == TypedRun /\ [Next]_vars => TypedRun'
<1> SUFFICES ASSUME TypedRun, [Next]_vars PROVE TypedRun'
  OBVIOUS
<1> USE DEF TypedRun, Goto, Fail, workspace, checks, account, talk, outcome
<1>1. CASE Prepare
  BY <1>1 DEF Prepare, TypeOK, Busy, Places, Snapshots
<1>2. CASE PrepareFails
  BY <1>2 DEF PrepareFails, TypeOK, Busy, Places
<1>3. CASE LimitReached
  BY <1>3 DEF LimitReached, TypeOK, Busy, Places
<1>4. CASE Call
  <2>1. calls' = calls + 1 /\ calls < MaxCalls /\ calls \in Nat
    BY <1>4 DEF Call, MayCall, TypeOK
  <2>2. calls' \in 0..MaxCalls
    BY <1>4, <2>1 DEF Call, TypeOK
  <2>3. 1..calls \subseteq 1..calls' /\ calls + 1 \in 1..calls'
    BY <2>1
  <2>4. requests' \subseteq 1..calls'
    BY <1>4, <2>3 DEF Call, TypeOK
  <2> QED
    BY <1>4, <2>2, <2>4 DEF Call, TypeOK, Busy, Places
<1>5. CASE Unanswered
  <2>1. PICK charge \in Charges : Bill(charge)
    BY <1>5 DEF Unanswered
  <2>2. billed' \in Nat /\ overrun' \in 0..MaxOverrun
    BY <2>1, RunConstants DEF TypeOK, Charges, Bill, Estimate
  <2>3. [fresh |-> TRUE, usable |-> FALSE, total |-> 0] \in Responses
    BY DEF Responses
  <2>4. responses' \in [1..MaxCalls -> Responses \cup {None}]
    BY <1>5, <2>3 DEF Unanswered, TypeOK
  <2> QED
    BY <1>5, <2>2, <2>4 DEF Unanswered, TypeOK, Busy, Places
<1>6. CASE Answer
  <2>1. PICK total \in Charges \ {0}, charge \in Charges, fresh \in BOOLEAN,
             usable \in BOOLEAN :
          LET reply == [fresh |-> fresh, usable |-> usable, total |-> total] IN
          /\ Charged(reply, charge)
          /\ fresh \/ accounted > 0
          /\ responses' = [responses EXCEPT ![calls] = reply]
          /\ Bill(charge)
          /\ IF Accountable(reply)
             THEN /\ accounted' = accounted + 1
                  /\ tokens' = tokens + total
                  /\ \/ Fail /\ UNCHANGED talk
                     \/ /\ \E n \in 0..MaxBatch : Batch(n)
                        /\ Goto("tool")
                        /\ UNCHANGED outcome
             ELSE /\ Fail
                  /\ UNCHANGED <<accounted, tokens, talk>>
    BY <1>6 DEF Answer
  <2>2. total \in Nat /\ charge \in Nat /\ charge <= Estimate + MaxOverrun /\ Estimate \in Nat
    BY RunConstants DEF TypeOK, Charges, Estimate
  <2>3. [fresh |-> fresh, usable |-> usable, total |-> total] \in Responses
    BY <2>2 DEF Responses
  <2>4. responses' \in [1..MaxCalls -> Responses \cup {None}]
    BY <2>1, <2>3 DEF TypeOK
  <2>5. /\ billed' \in Nat /\ overrun' \in 0..MaxOverrun
        /\ tokens' \in Nat /\ accounted' \in Nat
    BY <2>1, <2>2, RunConstants DEF TypeOK, Bill
  <2>6. pc = "sent" /\ UNCHANGED <<expired, workspace, checks, calls, requests>>
    BY <1>6 DEF Answer
  <2>7. /\ messages' \in Nat /\ todo' \in 0..MaxBatch /\ prose' \in BOOLEAN
        /\ command' \in {"format", "verify"} /\ anyFailed' \in BOOLEAN
        /\ pc' \in {"tool", "return"} /\ (pc' = "tool" => todo' # 0)
        /\ UNCHANGED outcome
    <3>1. CASE Fail /\ UNCHANGED talk
      BY <3>1 DEF TypeOK
    <3>2. CASE Accountable([fresh |-> fresh, usable |-> usable, total |-> total])
               /\ ~(Fail /\ UNCHANGED talk)
      <4>1. PICK n \in 0..MaxBatch : Batch(n)
        BY <2>1, <3>2
      <4>2. (n = 0) \in BOOLEAN /\ n \in Nat
        OBVIOUS
      <4>3. todo' \in 0..MaxBatch /\ todo' # 0 /\ prose' \in BOOLEAN
        BY <4>1, <4>2 DEF Batch
      <4> QED
        <5>1. /\ messages' = messages + 1 /\ anyFailed' = FALSE
              /\ UNCHANGED command
          BY <4>1 DEF Batch
        <5>2. pc' = "tool" /\ UNCHANGED outcome
          BY <2>1, <3>2
        <5>3. messages' \in Nat /\ command' \in {"format", "verify"}
          BY <5>1 DEF TypeOK
        <5>4. anyFailed' \in BOOLEAN
          BY <5>1
        <5> QED
          BY <4>3, <5>2, <5>3, <5>4
    <3> QED
      BY <2>1, <3>1, <3>2
  <2> QED
    BY <2>4, <2>5, <2>6, <2>7 DEF TypeOK, Busy, Places
<1>7. CASE Look
  BY <1>7, ToolEndsEffect DEF Look, AtTool, TypeOK, Busy, Places
<1>8. CASE Edit
  BY <1>8, ToolEndsEffect DEF Edit, AtTool, Forget, TypeOK, Busy, Places, Snapshots
<1>9. CASE StartCommand
  BY <1>9 DEF StartCommand, Forget, TypeOK, Busy, Places, Snapshots
<1>10. CASE CommandExits
  BY <1>10, ToolEndsEffect, ZenonT(40) DEF CommandExits, TypeOK, Busy, Places, Snapshots
<1>11. CASE CommandKilled
  BY <1>11, ToolEndsEffect DEF CommandKilled, TypeOK, Busy, Places, Snapshots
<1>12. CASE TakeSnapshot
  BY <1>12, ToolEndsEffect, ZenonT(40) DEF TakeSnapshot, TypeOK, Busy, Places, Snapshots
<1>13. CASE Judge
  <2>1. UNCHANGED <<expired, workspace, checks, account, talk, result>>
    BY <1>13 DEF Judge, Accept
  <2>2. pc' \in {"return", "loop"}
    BY <1>13 DEF Judge, Accept
  <2>3. accepted' \in BOOLEAN /\ final' \in Snapshots
    BY <1>13 DEF Judge, Accept, TypeOK, Snapshots
  <2> QED
    BY <2>1, <2>2, <2>3 DEF TypeOK, Busy, Places
<1>14. CASE WriteResult
  <2>1. (calls = accounted) \in BOOLEAN /\ accepted \in BOOLEAN /\ tokens \in Nat
    BY DEF TypeOK
  <2>2. [verified |-> accepted, complete |-> calls = accounted, tokens |-> tokens]
          \in [verified : BOOLEAN, complete : BOOLEAN, tokens : Nat]
    BY <2>1, Zenon
  <2>3. result' \in [verified : BOOLEAN, complete : BOOLEAN, tokens : Nat] \cup {None}
    BY <1>14, <2>2 DEF WriteResult, TypeOK
  <2> QED
    BY <1>14, <2>3 DEF WriteResult, TypeOK, Busy, Places
<1>15. CASE Expire
  BY <1>15 DEF Expire, TypeOK, Busy
<1>16. CASE Stray
  BY <1>16 DEF Stray, TypeOK, Busy
<1>17. CASE Kill
  BY <1>17 DEF Kill, TypeOK, Busy, Places
<1>18. CASE Finished \/ UNCHANGED vars
  BY <1>18, ZenonT(40) DEF Finished, vars, TypeOK, Busy
<1> QED
  BY <1>1, <1>2, <1>3, <1>4, <1>5, <1>6, <1>7, <1>8, <1>9, <1>10, <1>11, <1>12,
     <1>13, <1>14, <1>15, <1>16, <1>17, <1>18 DEF Next, Controller

(* Type correctness of the run, its files and its result.                  *)
THEOREM NativeTypeCorrect == Spec => []TypeOK
<1>1. Spec => []TypedRun
  BY InitTyped, StepTyped, PTL DEF Spec
<1>2. TypedRun => TypeOK
  BY DEF TypedRun
<1> QED
  BY <1>1, <1>2, PTL

LEMMA TypedAlways == Spec => []TypedRun
  BY InitTyped, StepTyped, PTL DEF Spec

-----------------------------------------------------------------------------
(* Acceptance. While a verification is remembered it is of the last        *)
(* verify command, and of other files than the initial ones.               *)
VerificationCurrent ==
  /\ verified # None => verified # initial /\ (verified = judged \/ slipped)
  /\ pc \in {"start", "command", "snapshot"} => verified = None
  /\ pc = "snapshot" => files = judged \/ slipped
  /\ accepted => pc \in {"return", "returned", "killed"}
  /\ AcceptedIsJudged

LEMMA StepCurrent ==
  TypedRun /\ VerificationCurrent /\ [Next]_vars => VerificationCurrent'
<1> SUFFICES ASSUME TypedRun, VerificationCurrent, [Next]_vars
             PROVE  VerificationCurrent'
  OBVIOUS
<1> USE DEF TypedRun, Goto, Fail, workspace, checks, account, talk, outcome,
            VerificationCurrent, AcceptedIsJudged
<1>1. CASE Prepare
  BY <1>1 DEF Prepare, TypeOK
<1>2. CASE PrepareFails \/ LimitReached \/ Unanswered
  BY <1>2 DEF PrepareFails, LimitReached, Unanswered
<1>3. CASE Call
  BY <1>3 DEF Call
<1>4. CASE Answer
  BY <1>4 DEF Answer
<1>5. CASE Look
  BY <1>5, ToolEndsEffect DEF Look, AtTool, Busy
<1>6. CASE Edit
  BY <1>6, ToolEndsEffect DEF Edit, AtTool, Forget, Busy
<1>7. CASE StartCommand
  BY <1>7 DEF StartCommand, Forget
<1>8. CASE CommandExits
  BY <1>8, ToolEndsEffect DEF CommandExits, Busy
<1>9. CASE CommandKilled
  BY <1>9, ToolEndsEffect DEF CommandKilled, Busy
<1>10. CASE TakeSnapshot
  BY <1>10, ToolEndsEffect DEF TakeSnapshot, Busy, TypeOK
<1>11. CASE Judge
  BY <1>11 DEF Judge, Accept, TypeOK, Snapshots
<1>12. CASE WriteResult \/ Kill
  BY <1>12 DEF WriteResult, Kill
<1>13. CASE Expire \/ Finished \/ UNCHANGED vars
  BY <1>13 DEF Expire, Finished, vars
<1>14. CASE Stray
  BY <1>14 DEF Stray
<1> QED
  BY <1>1, <1>2, <1>3, <1>4, <1>5, <1>6, <1>7, <1>8, <1>9, <1>10, <1>11, <1>12,
     <1>13, <1>14 DEF Next, Controller

(* runWithClient: whatever was called before, with any errors in between,  *)
(* what the run accepts is what the last verify command passed on, and a   *)
(* change of the initial files.                                            *)
THEOREM AcceptanceHolds == Spec => []AcceptedIsJudged
<1>1. Init => VerificationCurrent
  BY DEF Init, VerificationCurrent, AcceptedIsJudged
<1>2. VerificationCurrent => AcceptedIsJudged
  BY DEF VerificationCurrent
<1> QED
  BY <1>1, <1>2, StepCurrent, TypedAlways, PTL DEF Spec

-----------------------------------------------------------------------------
(* Accounting. Until a call fails, what was charged is what was counted;   *)
(* an unanswered call, the last one, was within the budget.                *)
ChargesKnown ==
  /\ pc \in {"start", "loop", "tool", "command", "snapshot", "judge"} =>
       calls = accounted
  /\ pc = "sent" => calls = accounted + 1 /\ billed = tokens /\ Admissible
  /\ accounted <= calls
  /\ calls = accounted => billed = tokens
  /\ BilledWithinBudget
  /\ result # None => pc = "returned"
  /\ ResultAccounts

LEMMA StepCharges ==
  TypedRun /\ ChargesKnown /\ [Next]_vars => ChargesKnown'
<1> SUFFICES ASSUME TypedRun, ChargesKnown, [Next]_vars PROVE ChargesKnown'
  OBVIOUS
<1> USE DEF TypedRun, Goto, Fail, workspace, checks, account, talk, outcome,
            ChargesKnown, ResultAccounts, Admissible, BilledWithinBudget
<1>1. CASE Prepare \/ PrepareFails \/ LimitReached
  BY <1>1 DEF Prepare, PrepareFails, LimitReached
<1>2. CASE Call
  BY <1>2 DEF Call, MayCall, TypeOK
<1>3. CASE Unanswered
  <2>1. PICK charge \in Charges : Bill(charge)
    BY <1>3 DEF Unanswered
  <2>2. billed' <= MaxTokens + overrun'
    BY <1>3, <2>1, RunConstants DEF Unanswered, Charges, Bill, Estimate, TypeOK
  <2> QED
    BY <1>3, <2>2 DEF Unanswered, TypeOK
<1>4. CASE Answer
  <2>1. PICK total \in Charges \ {0}, charge \in Charges, fresh \in BOOLEAN,
             usable \in BOOLEAN :
          /\ fresh /\ usable => charge = total
          /\ Bill(charge)
          /\ pc' \in {"return", "tool"}
          /\ IF fresh /\ usable
             THEN accounted' = accounted + 1 /\ tokens' = tokens + total
             ELSE pc' = "return" /\ UNCHANGED <<accounted, tokens>>
          /\ UNCHANGED result
    BY <1>4 DEF Answer, Accountable, Charged
  <2>2. pc = "sent" /\ UNCHANGED calls /\ result = None
    BY <1>4 DEF Answer
  <2>3. billed' <= MaxTokens + overrun'
    BY <2>1, <2>2, RunConstants DEF Charges, Bill, Estimate, TypeOK
  <2>4. CASE fresh /\ usable
    <3>1. charge = total /\ total \in Nat
      BY <2>1, <2>4, RunConstants DEF Charges, Estimate, TypeOK
    <3>2. accounted' = accounted + 1 /\ tokens' = tokens + total /\ billed' = billed + total
      BY <2>1, <2>4, <3>1 DEF Bill
    <3> QED
      BY <2>1, <2>2, <2>3, <3>1, <3>2 DEF TypeOK
  <2>5. CASE ~(fresh /\ usable)
    BY <2>1, <2>2, <2>3, <2>5 DEF TypeOK
  <2> QED
    BY <2>4, <2>5
<1>5. CASE Look
  BY <1>5, ToolEndsEffect DEF Look, AtTool, Busy
<1>6. CASE Edit
  BY <1>6, ToolEndsEffect DEF Edit, AtTool, Busy
<1>7. CASE StartCommand
  BY <1>7 DEF StartCommand
<1>8. CASE CommandExits
  BY <1>8, ToolEndsEffect DEF CommandExits, Busy
<1>9. CASE CommandKilled
  BY <1>9, ToolEndsEffect DEF CommandKilled, Busy
<1>10. CASE TakeSnapshot
  BY <1>10, ToolEndsEffect DEF TakeSnapshot, Busy
<1>11. CASE Judge
  <2>1. pc' \in {"return", "loop"} /\ UNCHANGED <<account, result>> /\ pc = "judge"
    BY <1>11 DEF Judge, Accept
  <2> QED
    BY <2>1
<1>12. CASE WriteResult
  <2>1. CASE result' = [verified |-> accepted, complete |-> calls = accounted,
                        tokens |-> tokens]
    <3>1. result'.complete = (calls = accounted) /\ result'.tokens = tokens
      BY <2>1, Zenon
    <3>2. result'.complete => result'.tokens = billed
      BY <3>1
    <3> QED
      BY <1>12, <3>2 DEF WriteResult
  <2>2. CASE UNCHANGED result
    BY <1>12, <2>2 DEF WriteResult
  <2> QED
    BY <1>12, <2>1, <2>2 DEF WriteResult
<1>13. CASE Expire \/ Stray \/ Kill
  <2>1. /\ UNCHANGED <<account, talk, result>> /\ pc # "returned"
        /\ (UNCHANGED pc \/ pc' = "killed")
    BY <1>13 DEF Expire, Stray, Kill, Ended
  <2> QED
    BY <2>1
<1>14. CASE Finished \/ UNCHANGED vars
  BY <1>14 DEF Finished, vars
<1> QED
  BY <1>1, <1>2, <1>3, <1>4, <1>5, <1>6, <1>7, <1>8, <1>9, <1>10, <1>11, <1>12,
     <1>13, <1>14 DEF Next, Controller

LEMMA ChargesAlways == Spec => []ChargesKnown
<1>1. Init => ChargesKnown
  BY RunConstants DEF Init, ChargesKnown, BilledWithinBudget, ResultAccounts
<1> QED
  BY <1>1, StepCharges, TypedAlways, PTL DEF Spec

(* The admission check of runWithClient: the provider never charges more   *)
(* than max_tokens_total, lost answers included, beyond what its last   *)
(* reply cost over the estimate.                                           *)
THEOREM BudgetHolds == Spec => []BilledWithinBudget
<1>1. ChargesKnown => BilledWithinBudget
  BY DEF ChargesKnown, BilledWithinBudget
<1> QED
  BY <1>1, ChargesAlways, PTL

(* A result with usage_complete has every token charged in its total.      *)
THEOREM ResultSound == Spec => []ResultAccounts
<1>1. ChargesKnown => ResultAccounts
  BY DEF ChargesKnown
<1> QED
  BY <1>1, ChargesAlways, PTL

-----------------------------------------------------------------------------
(* The profile. What `fanisi profile` would count in responses r, as a sum *)
(* over the replies that are usable and have an identity of their own.     *)
Counted(r) == {n \in 1..MaxCalls : r[n] # None /\ r[n].usable /\ r[n].fresh}
Totals(r) == [n \in 1..MaxCalls |-> r[n].total]
CountedTotal(r) == SumOver(Totals(r), Counted(r))

(* Only the last call, whose reply is not there yet while it is awaited,   *)
(* can be one whose charge is not known; its request is then on file, and  *)
(* its reply is not usable or has an identity of another.                  *)
ProfileKnown ==
  /\ \A n \in 1..MaxCalls : n > calls => responses[n] = None
  /\ pc = "sent" => calls \in requests /\ responses[calls] = None
  /\ CountedTotal(responses) = tokens
  /\ billed # tokens => calls \in requests /\ calls \notin Counted(responses)

LEMMA CountedReplies ==
  ASSUME NEW r \in [1..MaxCalls -> Responses \cup {None}]
  PROVE  /\ IsFiniteSet(Counted(r))
         /\ \A n \in Counted(r) : r[n] \in Responses /\ Totals(r)[n] \in Int
<1>1. IsFiniteSet(1..MaxCalls) /\ Counted(r) \in SUBSET (1..MaxCalls)
  BY FS_Interval DEF Counted
<1>2. \A n \in Counted(r) : r[n] \in Responses
  BY DEF Counted
<1>3. \A n \in Counted(r) : Totals(r)[n] = r[n].total
  BY DEF Counted, Totals
<1> QED
  BY <1>1, <1>2, <1>3, FS_Subset DEF Responses

(* The first reply to a call adds its total if it counts.                  *)
LEMMA ReplyCounts ==
  ASSUME NEW r \in [1..MaxCalls -> Responses \cup {None}],
         NEW c \in 1..MaxCalls, r[c] = None, NEW reply \in Responses
  PROVE  CountedTotal([r EXCEPT ![c] = reply]) =
           CountedTotal(r) + (IF reply.usable /\ reply.fresh THEN reply.total ELSE 0)
<1> DEFINE q == [r EXCEPT ![c] = reply]
<1>1. q \in [1..MaxCalls -> Responses \cup {None}] /\ c \notin Counted(r)
  BY DEF Counted
<1>2. \A n \in Counted(r) : Totals(q)[n] = Totals(r)[n]
  BY DEF Counted, Totals
<1>3. /\ IsFiniteSet(Counted(r)) /\ IsFiniteSet(Counted(q))
      /\ \A n \in Counted(r) : Totals(r)[n] \in Int
      /\ \A n \in Counted(q) : Totals(q)[n] \in Int
  BY <1>1, CountedReplies
<1>4. SumOver(Totals(q), Counted(r)) = SumOver(Totals(r), Counted(r))
  BY <1>2, <1>3, SumSame
<1>5. SumOver(Totals(r), Counted(r)) \in Int
  BY <1>3, SumInt
<1>6. CASE reply.usable /\ reply.fresh
  <2>1. reply # None /\ q[c] = reply
    BY NoneIsNoResponse
  <2>2. Counted(q) = Counted(r) \cup {c}
    BY <1>6, <2>1 DEF Counted
  <2>3. Totals(q)[c] = reply.total
    BY <2>1 DEF Totals
  <2>4. SumOver(Totals(q), Counted(q)) = Totals(q)[c] + SumOver(Totals(q), Counted(r))
    <3> HIDE DEF q
    <3> QED
      BY <1>1, <1>3, <2>2, SumAdd
  <2>5. reply.total \in Nat
    BY DEF Responses
  <2> QED
    BY <1>4, <1>5, <1>6, <2>3, <2>4, <2>5 DEF CountedTotal
<1>7. CASE ~(reply.usable /\ reply.fresh)
  <2>1. Counted(q) = Counted(r)
    BY <1>1, <1>7 DEF Counted
  <2> QED
    BY <1>4, <1>5, <1>7, <2>1 DEF CountedTotal
<1> QED
  BY <1>6, <1>7

(* The total of the profile is that sum.                                   *)
LEMMA ProfileSums ==
  ASSUME TypeOK
  PROVE  ProfileTotal = CountedTotal(responses)
<1> DEFINE S == Counted(responses)
           IsTotal(g) == g = [s \in SUBSET S |->
              IF s = {} THEN 0
              ELSE responses[FirstOf(s)].total + g[s \ {FirstOf(s)}]]
           h == CHOOSE g : IsTotal(g)
<1>1. S = {n \in Usable : responses[n].fresh}
  BY DEF Counted, Usable
<1>2. ProfileTotal = h[S]
  BY <1>1 DEF ProfileTotal, MapThenSumSet, MapThenFoldSet, FirstOf
<1>3. IsFiniteSet(S) /\ \A n \in S : Totals(responses)[n] \in Int
  BY CountedReplies DEF TypeOK
<1>4. PICK g \in [SUBSET S -> Int] : IsSum(Totals(responses), g, S)
  BY <1>3, SumExists
<1>5. \A s \in SUBSET S : s # {} =>
        Totals(responses)[FirstOf(s)] = responses[FirstOf(s)].total
  BY FirstMember DEF Totals, Counted
<1>6. \A f : IsTotal(f) <=> IsSum(Totals(responses), f, S)
  BY <1>5 DEF IsSum, SumStep
<1>7. IsTotal(h)
  BY <1>4, <1>6
<1>8. IsSum(Totals(responses), h, S)
  BY <1>6, <1>7
<1>9. SumOver(Totals(responses), S) = h[S]
  <2> HIDE DEF S, h
  <2> QED
    BY <1>3, <1>8, SumValue
<1> QED
  BY <1>2, <1>9 DEF CountedTotal

LEMMA StepProfile ==
  TypedRun /\ ChargesKnown /\ ProfileKnown /\ [Next]_vars => ProfileKnown'
<1> SUFFICES ASSUME TypedRun, ChargesKnown, ProfileKnown, [Next]_vars
             PROVE  ProfileKnown'
  OBVIOUS
<1> USE DEF TypedRun, Goto, Fail, workspace, checks, account, talk, outcome
<1>1. ASSUME UNCHANGED account, pc' # "sent" \/ UNCHANGED pc PROVE ProfileKnown'
  BY <1>1 DEF ProfileKnown
<1>2. CASE Call
  <2>1. /\ calls' = calls + 1 /\ calls \in Nat /\ calls < MaxCalls
        /\ UNCHANGED <<responses, tokens, billed>> /\ billed = tokens
        /\ pc' = "sent" => requests' = requests \cup {calls + 1}
    BY <1>2 DEF Call, MayCall, ChargesKnown, TypeOK
  <2> QED
    BY <2>1 DEF ProfileKnown
<1>3. ASSUME pc = "sent" PROVE calls \in 1..MaxCalls /\ billed = tokens
  <2>1. calls \in 0..MaxCalls /\ requests \subseteq 1..calls
    BY DEF TypeOK
  <2> QED
    BY <1>3, <2>1 DEF ProfileKnown, ChargesKnown
<1>4. CASE Unanswered
  <2>1. /\ pc = "sent" /\ pc' = "return"
        /\ UNCHANGED <<calls, tokens, requests>>
    BY <1>4 DEF Unanswered
  <2>2. CASE UNCHANGED responses
    BY <1>3, <2>1, <2>2 DEF ProfileKnown, Counted
  <2>3. CASE responses' = [responses EXCEPT
               ![calls] = [fresh |-> TRUE, usable |-> FALSE, total |-> 0]]
    <3>1. [fresh |-> TRUE, usable |-> FALSE, total |-> 0] \in Responses
      BY DEF Responses
    <3>2. CountedTotal(responses') = CountedTotal(responses) + 0
      BY <1>3, <2>1, <2>3, <3>1, ReplyCounts DEF TypeOK, ProfileKnown
    <3>3. tokens \in Nat
      BY DEF TypeOK
    <3>4. calls \notin Counted(responses')
      BY <2>3, <1>3, <2>1 DEF Counted, TypeOK
    <3>5. \A n \in 1..MaxCalls : n > calls => responses'[n] = None
      BY <2>3, <1>3, <2>1 DEF ProfileKnown, TypeOK
    <3> QED
      BY <2>1, <3>2, <3>3, <3>4, <3>5 DEF ProfileKnown
  <2> QED
    BY <1>4, <2>2, <2>3 DEF Unanswered
<1>5. CASE Answer
  <2>1. PICK total \in Charges \ {0}, charge \in Charges, fresh \in BOOLEAN,
             usable \in BOOLEAN :
          /\ fresh /\ usable => charge = total
          /\ responses' = [responses EXCEPT
               ![calls] = [fresh |-> fresh, usable |-> usable, total |-> total]]
          /\ Bill(charge)
          /\ pc' \in {"return", "tool"}
          /\ tokens' = IF fresh /\ usable THEN tokens + total ELSE tokens
    <3>1. PICK total \in Charges \ {0}, charge \in Charges, fresh \in BOOLEAN,
               usable \in BOOLEAN :
            LET reply == [fresh |-> fresh, usable |-> usable, total |-> total] IN
            /\ Charged(reply, charge)
            /\ fresh \/ accounted > 0
            /\ responses' = [responses EXCEPT ![calls] = reply]
            /\ Bill(charge)
            /\ IF Accountable(reply)
               THEN /\ accounted' = accounted + 1
                    /\ tokens' = tokens + total
                    /\ \/ Fail /\ UNCHANGED talk
                       \/ /\ \E n \in 0..MaxBatch : Batch(n)
                          /\ Goto("tool")
                          /\ UNCHANGED outcome
               ELSE /\ Fail
                    /\ UNCHANGED <<accounted, tokens, talk>>
      BY <1>5 DEF Answer
    <3> QED
      BY <3>1, ZenonT(30) DEF Accountable, Charged
  <2> DEFINE reply == [fresh |-> fresh, usable |-> usable, total |-> total]
  <2>2. pc = "sent" /\ UNCHANGED <<calls, requests>>
    BY <1>5 DEF Answer
  <2>3. total \in Nat /\ tokens \in Nat /\ reply \in Responses
    BY <2>1, RunConstants DEF TypeOK, Charges, Estimate, Responses
  <2>4. CountedTotal(responses') =
          CountedTotal(responses) + (IF usable /\ fresh THEN total ELSE 0)
    BY <1>3, <2>1, <2>2, <2>3, ReplyCounts DEF TypeOK, ProfileKnown
  <2>5. CountedTotal(responses') = tokens'
    BY <2>1, <2>3, <2>4 DEF ProfileKnown
  <2>6. ~(fresh /\ usable) => calls \notin Counted(responses')
    BY <1>3, <2>1, <2>2 DEF Counted, TypeOK
  <2>7. fresh /\ usable => billed' = tokens'
    BY <1>3, <2>1, <2>2 DEF Bill
  <2>8. \A n \in 1..MaxCalls : n > calls => responses'[n] = None
    BY <1>3, <2>1, <2>2 DEF ProfileKnown, TypeOK
  <2> QED
    BY <2>1, <2>2, <2>5, <2>6, <2>7, <2>8 DEF ProfileKnown
<1>6. CASE Prepare \/ PrepareFails \/ LimitReached
  BY <1>1, <1>6 DEF Prepare, PrepareFails, LimitReached
<1>7. CASE Look
  BY <1>1, <1>7, ToolEndsEffect DEF Look, AtTool, Busy
<1>8. CASE Edit
  BY <1>1, <1>8, ToolEndsEffect DEF Edit, AtTool, Busy
<1>9. CASE StartCommand
  BY <1>1, <1>9 DEF StartCommand
<1>10. CASE CommandExits
  BY <1>1, <1>10, ToolEndsEffect DEF CommandExits, Busy
<1>11. CASE CommandKilled
  BY <1>1, <1>11, ToolEndsEffect DEF CommandKilled, Busy
<1>12. CASE TakeSnapshot
  BY <1>1, <1>12, ToolEndsEffect DEF TakeSnapshot, Busy
<1>13. CASE Judge
  BY <1>1, <1>13 DEF Judge, Accept
<1>14. CASE WriteResult \/ Expire \/ Stray \/ Kill
  BY <1>1, <1>14 DEF WriteResult, Expire, Stray, Kill
<1>15. CASE Finished \/ UNCHANGED vars
  BY <1>1, <1>15 DEF Finished, vars
<1> QED
  BY <1>2, <1>4, <1>5, <1>6, <1>7, <1>8, <1>9, <1>10, <1>11, <1>12, <1>13, <1>14,
     <1>15 DEF Next, Controller

LEMMA InitProfile == Init => ProfileKnown
<1> SUFFICES ASSUME Init PROVE ProfileKnown
  OBVIOUS
<1>1. Counted(responses) = {}
  BY DEF Init, Counted
<1>2. CountedTotal(responses) = 0
  BY <1>1, SumEmpty DEF CountedTotal
<1> QED
  BY <1>2 DEF Init, ProfileKnown

(* result.json and `fanisi profile` of any run, killed ones included: what *)
(* either calls complete is all the provider has charged, unless it has    *)
(* answered two requests with one identity.                                *)
THEOREM UsageHolds == Spec => []UsageAccounted
<1>1. TypedRun /\ ChargesKnown /\ ProfileKnown => UsageAccounted
  <2> SUFFICES ASSUME TypedRun, ChargesKnown, ProfileKnown PROVE UsageAccounted
    OBVIOUS
  <2>1. ASSUME ProfileComplete, \A n \in Usable : responses[n].fresh
        PROVE  ProfileTotal = billed
    <3>1. requests \subseteq Counted(responses)
      BY <2>1 DEF ProfileComplete, Usable, Counted
    <3> QED
      BY <3>1, ProfileSums DEF ProfileKnown, TypedRun
  <2> QED
    BY <2>1 DEF UsageAccounted, ProfileAccounts, ChargesKnown
<1> QED
  BY <1>1, InitProfile, StepProfile, ChargesAlways, TypedAlways, PTL DEF Spec
=============================================================================
