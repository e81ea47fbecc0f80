------------------------------ MODULE NativeRun ------------------------------
(***************************************************************************)
(* `fanisi run`: one native run in a workspace it has claimed (the claim   *)
(* is ComposeDispatch!ClaimLease). The controller asks the model for tool  *)
(* calls, executes them, and ends when the trusted verifier has passed on  *)
(* the files as they are; result.json then says what was verified and what *)
(* the calls cost, and `fanisi profile` says the latter again from the     *)
(* request and response files alone.                                       *)
(*                                                                         *)
(* The write paths together hold one of Contents. A message adds one unit  *)
(* to the size of the request, which also counts its tokens; costs follow  *)
(* the tokens and are left out. Any write may fail.                        *)
(***************************************************************************)
EXTENDS Integers, FiniteSets, FiniteSetsExt

CONSTANTS
  Contents,        \* what the write paths may hold
  None,            \* no snapshot, no file
  MaxCalls,        \* max_calls
  MaxTokens,       \* max_tokens_total
  MaxOutputTokens, \* max_output_tokens
  MaxContext,      \* max_context_bytes, in messages
  MaxBatch,        \* bound on the tool calls of one reply
  MaxOverrun,      \* bound on what a request costs beyond its estimate
  MaxStrays        \* bound on the edits by programs outside the run

ASSUME RunConstants ==
  /\ None \notin Contents
  /\ MaxCalls \in Nat \ {0} /\ MaxTokens \in Nat \ {0}
  /\ MaxOutputTokens \in Nat \ {0} /\ MaxContext \in Nat \ {0}
  /\ MaxBatch \in Nat \ {0} /\ MaxOverrun \in Nat /\ MaxStrays \in Nat

VARIABLES
  pc,           \* where the controller is
  expired,      \* the context of the run is over
  files,        \* what the write paths hold
  initial,      \* initial-files.json
  verified,     \* Harness.verified, a snapshot or None
  verifiedFile, \* verified-files.json
  calls, accounted, tokens,
  messages,     \* the conversation so far, which every request repeats
  todo,         \* tool calls of the batch still to be executed
  prose,        \* the reply had no tool call: the controller verifies itself
  command,      \* the trusted command that runs
  anyFailed,    \* a tool of this batch returned an error
  accepted,
  requests,     \* numbers of the call-NN-request.json files
  responses,    \* responses[n]: what call-NN-response.json says, or None
  result,       \* result.json
  billed,       \* tokens the provider has charged
  overrun,      \* what the last charge was beyond its request's estimate
  judged,       \* what the last verify command passed on, or None
  final,        \* what the write paths held when the run accepted them
  slipped,      \* an edit came between that command's end and the snapshot
  strays        \* edits by programs outside the run

workspace == <<files, strays>>
checks == <<initial, verified, verifiedFile, judged, slipped>>
account == <<calls, accounted, tokens, requests, responses, billed, overrun>>
talk == <<messages, todo, prose, command, anyFailed>>
outcome == <<accepted, final, result>>
vars == <<pc, expired, workspace, checks, account, talk, outcome>>

Estimate == messages + MaxOutputTokens
Responses == [fresh : BOOLEAN, usable : BOOLEAN, total : Nat]
ASSUME NoneIsNoResponse == None \notin Responses

Snapshots == Contents \cup {None}
Places == {"start", "loop", "sent", "tool", "command", "snapshot", "judge",
           "return", "returned", "killed"}
Ended == {"returned", "killed"}

TypeOK ==
  /\ pc \in Places
  /\ expired \in BOOLEAN
  /\ files \in Contents /\ strays \in Nat
  /\ initial \in Snapshots /\ verified \in Snapshots /\ verifiedFile \in Snapshots
  /\ judged \in Snapshots /\ slipped \in BOOLEAN
  /\ calls \in 0..MaxCalls /\ accounted \in Nat /\ tokens \in Nat
  /\ requests \subseteq 1..calls
  /\ responses \in [1..MaxCalls -> Responses \cup {None}]
  /\ billed \in Nat /\ overrun \in 0..MaxOverrun
  /\ messages \in Nat /\ todo \in 0..MaxBatch /\ prose \in BOOLEAN
  /\ command \in {"format", "verify"} /\ anyFailed \in BOOLEAN
  /\ accepted \in BOOLEAN /\ final \in Snapshots
  /\ result \in [verified : BOOLEAN, complete : BOOLEAN, tokens : Nat] \cup {None}

Init ==
  /\ pc = "start" /\ expired = FALSE
  /\ files \in Contents /\ strays = 0
  /\ initial = None /\ verified = None /\ verifiedFile = None
  /\ judged = None /\ slipped = FALSE
  /\ calls = 0 /\ accounted = 0 /\ tokens = 0
  /\ requests = {} /\ responses = [n \in 1..MaxCalls |-> None] /\ billed = 0
  /\ overrun = 0
  /\ messages = 2 /\ todo = 0 /\ prose = FALSE
  /\ command = "verify" /\ anyFailed = FALSE
  /\ accepted = FALSE /\ final = None /\ result = None

Goto(place) == pc' = place

(* An error return: the deferred function still writes result.json.        *)
Fail == Goto("return") /\ UNCHANGED outcome

Accept == Goto("return") /\ accepted' = TRUE /\ final' = files /\ UNCHANGED result

(* The output directory is fresh; the packet and the hashes of the write   *)
(* paths are saved before the first request.                               *)
Prepare ==
  /\ pc = "start"
  /\ initial' = files
  /\ Goto("loop")
  /\ UNCHANGED <<expired, workspace, verified, verifiedFile, judged, slipped,
                 account, talk, outcome>>

PrepareFails ==
  /\ pc = "start"
  /\ Fail
  /\ UNCHANGED <<expired, workspace, checks, account, talk>>

-----------------------------------------------------------------------------
(* Requests and their accounting.                                          *)

\* Mutant: the estimate forgets the output the request may have.
AdmissibleInput == tokens + messages <= MaxTokens

(* The admission estimate is the bytes of the request and all the output   *)
(* it may have.                                                            *)
Admissible == tokens + messages + MaxOutputTokens <= MaxTokens

\* Mutant: off by one in the number of calls.
MayCallOnceMore == calls <= MaxCalls /\ ~expired /\ Admissible /\ messages <= MaxContext

MayCall ==
  /\ calls < MaxCalls
  /\ ~expired
  /\ Admissible
  /\ messages <= MaxContext

LimitReached ==
  /\ pc = "loop"
  /\ ~MayCall
  /\ Fail
  /\ UNCHANGED <<expired, workspace, checks, account, talk>>

(* calls counts the request before its two files are written.              *)
Call ==
  /\ pc = "loop"
  /\ MayCall
  /\ calls' = calls + 1
  /\ \/ requests' = requests \cup {calls + 1} /\ (Goto("sent") \/ Goto("return"))
     \/ requests' = requests /\ Goto("return")
  /\ UNCHANGED <<expired, workspace, checks, accounted, tokens, responses,
                 billed, overrun, talk, outcome>>

(* The estimate is of a request, and no limit on what the provider makes   *)
(* of it: the charge may exceed it.                                        *)
Charges == 0..(Estimate + MaxOverrun)
Bill(charge) ==
  /\ billed' = billed + charge
  /\ overrun' = (IF charge > Estimate THEN charge - Estimate ELSE 0)

(* No answer, an answer that cannot be read or kept, or a status other     *)
(* than 200, whose body is kept: the provider may have charged for it all  *)
(* the same. The client gives up after six minutes.                        *)
Unanswered ==
  /\ pc = "sent"
  /\ \E charge \in Charges : Bill(charge)
  /\ \/ UNCHANGED responses
     \/ responses' = [responses EXCEPT
          ![calls] = [fresh |-> TRUE, usable |-> FALSE, total |-> 0]]
  /\ Fail
  /\ UNCHANGED <<expired, workspace, checks, calls, accounted, tokens, requests, talk>>

\* Mutant: identities are not compared.
AccountableUsage(reply) == reply.usable

(* A call is accounted for if its generation identity is new and its usage *)
(* consistent.                                                             *)
Accountable(reply) == reply.fresh /\ reply.usable

(* The provider charges what it reports under an identity of its own; what *)
(* it charges for a call it answers with an old identity, or with usage    *)
(* that does not add up, is not known.                                     *)
Charged(reply, charge) ==
  reply.fresh /\ reply.usable => charge = reply.total

(* Names the next batch: n tool calls, or none, when the controller runs   *)
(* the verifier itself.                                                    *)
Batch(n) ==
  /\ todo' = (IF n = 0 THEN 1 ELSE n)
  /\ prose' = (n = 0)
  /\ anyFailed' = FALSE
  /\ messages' = messages + 1
  /\ UNCHANGED command

(* Metrics that cannot be written, another model or endpoint, a truncated  *)
(* answer, and tool identities that clash end the run, accounted or not.   *)
Answer ==
  /\ pc = "sent"
  /\ \E total \in Charges \ {0}, charge \in Charges, fresh, usable \in BOOLEAN :
       LET reply == [fresh |-> fresh, usable |-> usable, total |-> total] IN
       /\ Charged(reply, charge)
       /\ fresh \/ accounted > 0
       /\ responses' = [responses EXCEPT ![calls] = reply]
       /\ Bill(charge)
       /\ IF Accountable(reply)
          THEN /\ accounted' = accounted + 1
               /\ tokens' = tokens + total
               /\ \/ Fail /\ UNCHANGED talk
                  \/ /\ \E n \in 0..MaxBatch : Batch(n)
                     /\ Goto("tool")
                     /\ UNCHANGED outcome
          ELSE /\ Fail
               /\ UNCHANGED <<accounted, tokens, talk>>
  /\ UNCHANGED <<expired, workspace, checks, calls, requests>>

-----------------------------------------------------------------------------
(* Tools. The record of a call is written last, and a failure to write it  *)
(* is an error of the tool.                                                *)

ToolEnds(error, pass) ==
  \E unlogged \in BOOLEAN :
    /\ UNCHANGED <<prose, command>>
    /\ IF prose
       THEN /\ UNCHANGED <<anyFailed, todo>>
            /\ \/ /\ error \/ unlogged
                  /\ Fail /\ UNCHANGED messages
               \/ /\ ~error /\ ~unlogged /\ pass
                  /\ Accept /\ UNCHANGED messages
               \/ /\ ~error /\ ~unlogged /\ ~pass
                  /\ Goto("loop") /\ messages' = messages + 1 /\ UNCHANGED outcome
       ELSE /\ anyFailed' = (anyFailed \/ error \/ unlogged)
            /\ todo' = todo - 1
            /\ messages' = messages + 1
            /\ Goto(IF todo = 1 THEN "judge" ELSE "tool")
            /\ UNCHANGED outcome

AtTool == pc = "tool" /\ ~prose

(* read, search, and any call whose arguments cannot be decoded.           *)
Look ==
  /\ AtTool
  /\ \E error \in BOOLEAN : ToolEnds(error, FALSE)
  /\ UNCHANGED <<expired, workspace, checks, account>>

\* Mutant: a verification is kept until the next one passes.
KeepVerified == UNCHANGED verified

(* Every other call forgets the last verification before it does anything. *)
Forget == verified' = None

(* replace and create, which may fail halfway when the file is new, and    *)
(* calls of tools that do not exist or are out of scope.                   *)
Edit ==
  /\ AtTool
  /\ Forget
  /\ files' \in Contents
  /\ \E error \in BOOLEAN : ToolEnds(error, FALSE)
  /\ UNCHANGED <<expired, strays, initial, verifiedFile, judged, slipped, account>>

StartCommand ==
  /\ pc = "tool"
  /\ Forget
  /\ command' \in (IF prose THEN {"verify"} ELSE {"format", "verify"})
  /\ Goto("command")
  /\ UNCHANGED <<expired, workspace, initial, verifiedFile, judged, slipped,
                 account, messages, todo, prose, anyFailed, outcome>>

(* The command exits, having written what it likes; only a verify command  *)
(* that exits with 0 before the context ends has passed.                   *)
CommandExits ==
  /\ pc = "command"
  /\ files' \in Contents
  /\ \/ /\ command = "verify" /\ ~expired
        /\ judged' = files' /\ slipped' = FALSE
        /\ Goto("snapshot")
        /\ UNCHANGED <<talk, outcome>>
     \/ /\ \E error \in BOOLEAN : (expired => error) /\ ToolEnds(error, FALSE)
        /\ judged' = (IF command = "verify" THEN None ELSE judged)
        /\ UNCHANGED slipped
  /\ UNCHANGED <<expired, strays, initial, verified, verifiedFile, account>>

\* Mutant: the controller's own verification has no timeout.
CommandKilledInBatch ==
  /\ pc = "command" /\ ~prose
  /\ ToolEnds(TRUE, FALSE)
  /\ judged' = (IF command = "verify" THEN None ELSE judged)
  /\ UNCHANGED <<expired, workspace, initial, verified, verifiedFile, slipped, account>>

(* After 180 seconds, or when the run's context ends, its group is killed. *)
CommandKilled ==
  /\ pc = "command"
  /\ ToolEnds(TRUE, FALSE)
  /\ judged' = (IF command = "verify" THEN None ELSE judged)
  /\ UNCHANGED <<expired, workspace, initial, verified, verifiedFile, slipped, account>>

(* The write paths are hashed when the verifier has passed. Checks that    *)
(* pass on the initial files are no verification. The snapshot is kept     *)
(* also when verified-files.json cannot be written.                        *)
TakeSnapshot ==
  /\ pc = "snapshot"
  /\ \/ UNCHANGED <<verified, verifiedFile>> /\ ToolEnds(TRUE, FALSE)
     \/ /\ files = initial
        /\ UNCHANGED <<verified, verifiedFile>>
        /\ ToolEnds(FALSE, FALSE)
     \/ /\ files # initial
        /\ verified' = files
        /\ \/ verifiedFile' = files /\ ToolEnds(FALSE, TRUE)
           \/ verifiedFile' = None /\ ToolEnds(TRUE, FALSE)
  /\ UNCHANGED <<expired, workspace, initial, judged, slipped, account>>

(* After a batch without an error: accepted if the last verification is    *)
(* still there and the files are still those.                              *)
Judge ==
  /\ pc = "judge"
  /\ \/ ~anyFailed /\ verified # None /\ files = verified /\ Accept
     \/ ~anyFailed /\ verified # None /\ Fail
     \/ /\ anyFailed \/ verified = None \/ files # verified
        /\ Goto("loop") /\ UNCHANGED outcome
  /\ UNCHANGED <<expired, workspace, checks, account, talk>>

-----------------------------------------------------------------------------
(* The deferred function.                                                  *)
WriteResult ==
  /\ pc = "return"
  /\ Goto("returned")
  /\ \/ result' = [verified |-> accepted, complete |-> calls = accounted,
                   tokens |-> tokens]
     \/ UNCHANGED result
  /\ UNCHANGED <<expired, workspace, checks, account, talk, accepted, final>>

Expire ==
  /\ pc \notin Ended /\ ~expired
  /\ expired' = TRUE
  /\ UNCHANGED <<pc, workspace, checks, account, talk, outcome>>

(* A program outside the run, or a child a command has left behind.        *)
Stray ==
  /\ pc \notin Ended /\ strays < MaxStrays
  /\ strays' = strays + 1
  /\ files' \in Contents \ {files}
  /\ slipped' = (slipped \/ pc = "snapshot")
  /\ UNCHANGED <<pc, expired, initial, verified, verifiedFile, judged, account,
                 talk, outcome>>

Kill ==
  /\ pc \notin Ended
  /\ Goto("killed")
  /\ UNCHANGED <<expired, workspace, checks, account, talk, outcome>>

Finished == pc \in Ended /\ UNCHANGED vars

Controller ==
  \/ Prepare \/ PrepareFails
  \/ LimitReached \/ Call \/ Unanswered \/ Answer
  \/ Look \/ Edit \/ StartCommand \/ CommandExits \/ CommandKilled \/ TakeSnapshot
  \/ Judge \/ WriteResult

Next == Controller \/ Expire \/ Stray \/ Kill \/ Finished

(* The controller runs, a request and a command end by their timeouts at   *)
(* the latest; nothing is assumed of the provider or the commands.         *)
Fairness ==
  /\ WF_vars(Prepare \/ PrepareFails)
  /\ WF_vars(LimitReached \/ Call)
  /\ WF_vars(Unanswered)
  /\ WF_vars(Look \/ Edit \/ StartCommand)
  /\ WF_vars(CommandKilled)
  /\ WF_vars(TakeSnapshot)
  /\ WF_vars(Judge)
  /\ WF_vars(WriteResult)

Spec == Init /\ [][Next]_vars /\ Fairness

-----------------------------------------------------------------------------
(* What the run promises.                                                  *)

(* runWithClient: a result that says verified comes from a verify command  *)
(* that was the last one to run and passed, on files that differ from the  *)
(* initial ones and were the files at acceptance - unless a program        *)
(* outside the run wrote between the command's end and the snapshot.       *)
AcceptedIsJudged ==
  accepted =>
    /\ final \in Contents \ {initial}
    /\ final = verified
    /\ final = judged \/ slipped

(* The admission check: whatever becomes of the requests, answered or not, *)
(* and whatever the provider makes of their estimates, what it has charged *)
(* for the run exceeds max_tokens at most by what the last of them cost    *)
(* beyond its own estimate: an overrun is never added to.                  *)
BilledWithinBudget == billed <= MaxTokens + overrun

(* profile, from the files alone: totals over the responses it can use,    *)
(* one per identity, complete if no request lacks one.                     *)
Usable == {n \in 1..MaxCalls : responses[n] # None /\ responses[n].usable}
ProfileTotal == MapThenSumSet(LAMBDA n : responses[n].total,
                              {n \in Usable : responses[n].fresh})
ProfileComplete == requests \subseteq Usable

(* usage_complete in result.json: every token charged is in its total. And *)
(* profile, whose input is the files of a run that ended anyhow, killed    *)
(* ones included, is complete only with the provider's total, unless the   *)
(* provider answered two requests with one identity.                       *)
ResultAccounts == result # None /\ result.complete => result.tokens = billed
ProfileAccounts ==
  /\ pc \in Ended /\ ProfileComplete
  /\ \A n \in Usable : responses[n].fresh
  => ProfileTotal = billed
UsageAccounted == ResultAccounts /\ ProfileAccounts

(* A run that is not killed returns, whatever the provider and the trusted *)
(* commands do.                                                            *)
Returns == <>(pc \in Ended)
=============================================================================
