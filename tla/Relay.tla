------------------------------- MODULE Relay -------------------------------
(***************************************************************************)
(* The provider relay of one Claude run: concurrent HTTP handlers that     *)
(* draw on one request allowance, forward to the provider, and retain the  *)
(* generation identities found in the streamed answers; its shutdown; and  *)
(* `fanisi reconcile`, which later decides from the files the handlers     *)
(* left whether the provider ledger covers everything that was billed.     *)
(*                                                                         *)
(* writeRelayMetadata replaces a file by a rename, so a write either       *)
(* succeeds or leaves the previous file. The identity of a generation is   *)
(* one of Generations; what else a frame carries is left out.              *)
(***************************************************************************)
EXTENDS Integers, FiniteSets, FiniteSetsExt

CONSTANTS
  Handlers,    \* requests received, one handler each; a retry is another one
  Generations, \* generations the provider bills, each with its own identity
  Allowances,  \* values of max_requests the run may be configured with
  MaxIds,      \* identities retained per response (8 in the code)
  Unbounded,   \* no admission configured: claude_admission is absent
  Absent       \* a file that does not exist

ASSUME RelayConstants ==
  /\ IsFiniteSet(Handlers) /\ IsFiniteSet(Generations)
  /\ Allowances \subseteq Nat \ {0}
  /\ Unbounded \notin Nat
  /\ MaxIds \in Nat \ {0}

VARIABLES
  limit,     \* the allowance of this run, or Unbounded
  relay,     \* open, finished (admission closed), closed (server), exited
  claude,    \* Claude's terminal record: none, success or error
  admitted,  \* requests admitted, in memory: evidence.Admitted
  stored,    \* the same in claude-admission.json
  count,     \* the numbers drawn so far
  pc,        \* where each handler is
  number,    \* the number a handler drew, 0 before
  record,    \* the metadata a handler keeps in memory
  stopped,   \* generationStream.stopped of the handler's response
  file,      \* file[n]: relay-request-<n>.json
  forwarded, \* handlers whose request reached the provider
  heard,     \* generations announced in frames the handler read
  lost,      \* generations a handler heard and could not write down
  logged,    \* generations named in Claude's own log
  ledger     \* provider-ledger.json

admissionVars == <<limit, admitted, stored>>
answers == <<stopped, heard, lost>>
others == <<logged, ledger>>
vars == <<limit, relay, claude, admitted, stored, count, pc, number, record,
          stopped, file, forwarded, heard, lost, logged, ledger>>

Records == [status : {"none", "2xx", "other"}, ids : SUBSET Generations,
            complete : BOOLEAN, gap : BOOLEAN]

NewRecord == [status |-> "none", ids |-> {}, complete |-> FALSE, gap |-> FALSE]

ASSUME AbsentIsNew == Absent \notin Records

Terminals == {"none", "success", "error"}

Numbers == 1..Cardinality(Handlers)

TypeOK ==
  /\ limit \in Allowances \cup {Unbounded}
  /\ relay \in {"open", "finished", "closed", "exited"}
  /\ claude \in Terminals
  /\ admitted \in Nat
  /\ stored \in Nat
  /\ count \in Nat
  /\ pc \in [Handlers -> {"idle", "admitted", "numbered", "recorded",
                         "forwarded", "streaming", "done"}]
  /\ number \in [Handlers -> Nat]
  /\ record \in [Handlers -> Records]
  /\ stopped \in [Handlers -> BOOLEAN]
  /\ file \in [Numbers -> Records \cup {Absent}]
  /\ forwarded \subseteq Handlers
  /\ heard \in [Handlers -> SUBSET Generations]
  /\ lost \in [Handlers -> SUBSET Generations]
  /\ logged \subseteq Generations
  /\ ledger \in [generations : SUBSET Generations, complete : BOOLEAN] \cup {Absent}

(* providerRelay has saved the empty evidence and serves; Claude runs.     *)
Init ==
  /\ limit \in Allowances \cup {Unbounded}
  /\ relay = "open"
  /\ claude = "none"
  /\ admitted = 0
  /\ stored = 0
  /\ count = 0
  /\ pc = [h \in Handlers |-> "idle"]
  /\ number = [h \in Handlers |-> 0]
  /\ record = [h \in Handlers |-> NewRecord]
  /\ stopped = [h \in Handlers |-> FALSE]
  /\ file = [n \in Numbers |-> Absent]
  /\ forwarded = {}
  /\ heard = [h \in Handlers |-> {}]
  /\ lost = [h \in Handlers |-> {}]
  /\ logged = {}
  /\ ledger = Absent

Up == relay # "exited"
At(h, place) == Up /\ pc[h] = place
Goto(h, place) == pc' = [pc EXCEPT ![h] = place]

-----------------------------------------------------------------------------
(* requestAdmission: each operation runs under its mutex.                  *)

(* The whole evidence is saved, with it a count whose own save failed. The *)
(* counts of refusals and their reasons are left out: no decision reads    *)
(* them.                                                                   *)
Save(n, written) ==
  /\ admitted' = n
  /\ stored' = IF written THEN n ELSE stored
  /\ UNCHANGED limit

(* A request is received by a handler while the server is open. The checks *)
(* before the admission touch nothing shared, so they are one step with    *)
(* it: once the server is closed the admission has been closed too.        *)
Received(h) == At(h, "idle") /\ relay \in {"open", "finished"}

(* Seeded fault: a refusal returns a reservation.                          *)
RefuseRefunds(h) ==
  /\ Received(h)
  /\ Goto(h, "done")
  /\ \/ UNCHANGED admissionVars
     \/ limit # Unbounded /\ relay = "open" /\ Save(admitted - 1, TRUE)
  /\ UNCHANGED <<relay, claude, count, number, record, answers, file,
                 forwarded, others>>

(* An unauthorized request leaves no trace; any other invalid one is       *)
(* counted as refused, and saved, while the admission is open.             *)
Refuse(h) ==
  /\ Received(h)
  /\ Goto(h, "done")
  /\ \/ UNCHANGED admissionVars
     \/ limit # Unbounded /\ relay = "open" /\ Save(admitted, TRUE)
  /\ UNCHANGED <<relay, claude, count, number, record, answers, file,
                 forwarded, others>>

(* Seeded fault: the count is only raised once it has been saved.          *)
AdmitIfSaved(h) ==
  /\ Received(h)
  /\ \E written \in BOOLEAN :
       IF limit = Unbounded
       THEN Goto(h, "admitted") /\ UNCHANGED admissionVars
       ELSE /\ relay = "open"
            /\ admitted < limit
            /\ Save(IF written THEN admitted + 1 ELSE admitted, written)
            /\ Goto(h, "admitted")
  /\ UNCHANGED <<relay, claude, count, number, record, answers, file,
                 forwarded, others>>

(* A reservation is never refunded, not even when it cannot be saved; the  *)
(* request goes on only when it was saved.                                 *)
Admit(h) ==
  /\ Received(h)
  /\ \/ /\ limit = Unbounded
        /\ Goto(h, "admitted")
        /\ UNCHANGED admissionVars
     \/ /\ limit # Unbounded /\ relay # "open"
        /\ Goto(h, "done")
        /\ UNCHANGED admissionVars
     \/ /\ limit # Unbounded /\ relay = "open"
        /\ \E written \in BOOLEAN :
             \/ /\ admitted >= limit
                /\ Save(admitted, written)
                /\ Goto(h, "done")
             \/ /\ admitted < limit
                /\ Save(admitted + 1, written)
                /\ Goto(h, IF written THEN "admitted" ELSE "done")
  /\ UNCHANGED <<relay, claude, count, number, record, answers, file,
                 forwarded, others>>

-----------------------------------------------------------------------------
(* The handler's own record, and the provider's answer.                    *)

(* Seeded fault: the number is taken from the records written so far.      *)
NumberByFiles(h) ==
  /\ At(h, "admitted")
  /\ number' = [number EXCEPT ![h] =
                  Cardinality({n \in Numbers : file[n] # Absent}) + 1]
  /\ count' = count + 1
  /\ Goto(h, "numbered")
  /\ UNCHANGED <<relay, claude, admissionVars, record, answers, file,
                 forwarded, others>>

DrawNumber(h) ==
  /\ At(h, "admitted")
  /\ count' = count + 1
  /\ number' = [number EXCEPT ![h] = count + 1]
  /\ Goto(h, "numbered")
  /\ UNCHANGED <<relay, claude, admissionVars, record, answers, file,
                 forwarded, others>>

WriteRecord(h) ==
  /\ At(h, "numbered")
  /\ \/ /\ file' = [file EXCEPT ![number[h]] = record[h]]
        /\ Goto(h, "recorded")
     \/ /\ Goto(h, "done")
        /\ UNCHANGED file
  /\ UNCHANGED <<relay, claude, admissionVars, count, number, record, answers,
                 forwarded, others>>

Forward(h) ==
  /\ At(h, "recorded")
  /\ Goto(h, "forwarded")
  /\ forwarded' = forwarded \cup {h}
  /\ UNCHANGED <<relay, claude, admissionVars, count, number, record, answers,
                 file, others>>

(* The generations gs announced by the frame at hand are not in the file   *)
(* of h, except those the record has from an earlier frame.                *)
Lose(h, gs) == lost' = [lost EXCEPT ![h] = @ \cup (gs \ record[h].ids)]

(* The record is now r and its file is rewritten; when that fails, nothing *)
(* more is read for h, and what the frame announced is lost.               *)
Write(h, r, gs) ==
  /\ record' = [record EXCEPT ![h] = r]
  /\ \/ file' = [file EXCEPT ![number[h]] = r] /\ UNCHANGED <<pc, lost>>
     \/ Goto(h, "done") /\ Lose(h, gs) /\ UNCHANGED file

(* ErrorHandler: a last write, whose own failure is ignored. The record    *)
(* says transport_error, which nothing reads.                              *)
LastWrite(h, r) ==
  /\ Goto(h, "done")
  /\ record' = [record EXCEPT ![h] = r]
  /\ file' \in {file, [file EXCEPT ![number[h]] = r]}

TransportError(h) ==
  /\ At(h, "recorded") \/ At(h, "forwarded")
  /\ LastWrite(h, record[h])
  /\ UNCHANGED <<relay, claude, admissionVars, count, number, answers,
                 forwarded, others>>

(* ModifyResponse: the status is recorded; a response whose headers cannot *)
(* be recorded is dropped by ErrorHandler, and one that is not an event    *)
(* stream is copied without looking for identities.                        *)
Headers(h, status, streamed) ==
  /\ At(h, "forwarded")
  /\ LET r == [record[h] EXCEPT !.status = status] IN
       \/ /\ record' = [record EXCEPT ![h] = r]
          /\ file' = [file EXCEPT ![number[h]] = r]
          /\ Goto(h, IF streamed THEN "streaming" ELSE "done")
       \/ LastWrite(h, r)
  /\ UNCHANGED <<relay, claude, admissionVars, count, number, answers,
                 forwarded, others>>

-----------------------------------------------------------------------------
(* generationStream.capture, one frame at a time. An error ends the copy   *)
(* of the response, and nothing is written for it any more.                *)

(* A frame announces at most one generation, which another response may    *)
(* have announced too.                                                     *)
Announcements == {{}} \cup {{g} : g \in Generations}
Hear(h, gs) == heard' = [heard EXCEPT ![h] = @ \cup gs]

(* A message_start with an identity this response has not named before.    *)
Start(h, g) ==
  /\ At(h, "streaming")
  /\ g \notin record[h].ids
  /\ Cardinality(record[h].ids) < MaxIds
  /\ Hear(h, {g})
  /\ stopped' = [stopped EXCEPT ![h] = FALSE]
  /\ Write(h, [record[h] EXCEPT !.ids = @ \cup {g}, !.complete = FALSE], {g})
  /\ UNCHANGED <<relay, claude, admissionVars, count, number, forwarded, others>>

(* The same message_start once more: only the stream's own flag changes.   *)
Restart(h) ==
  /\ At(h, "streaming")
  /\ record[h].ids # {}
  /\ stopped' = [stopped EXCEPT ![h] = FALSE]
  /\ UNCHANGED <<relay, claude, admissionVars, count, pc, number, record, file,
                 heard, lost, forwarded, others>>

(* Seeded fault: the stop rewrites the record without its gap.             *)
StopForgetsGap(h) ==
  /\ At(h, "streaming")
  /\ ~stopped[h]
  /\ stopped' = [stopped EXCEPT ![h] = TRUE]
  /\ Write(h, [record[h] EXCEPT !.complete = TRUE, !.gap = FALSE], {})
  /\ UNCHANGED <<relay, claude, admissionVars, count, number, heard,
                 forwarded, others>>

(* message_stop. A second one in a row is ignored.                         *)
Stop(h) ==
  /\ At(h, "streaming")
  /\ ~stopped[h]
  /\ stopped' = [stopped EXCEPT ![h] = TRUE]
  /\ Write(h, [record[h] EXCEPT !.complete = TRUE], {})
  /\ UNCHANGED <<relay, claude, admissionVars, count, number, heard,
                 forwarded, others>>

(* A frame nothing can be made of: malformed, oversized, cut off by the    *)
(* end of the response, a [DONE] before the stop, or a message_start       *)
(* without a usable identity. It may have announced a generation.          *)
Unreadable(h, gs) ==
  /\ At(h, "streaming")
  /\ Hear(h, gs)
  /\ Write(h, [record[h] EXCEPT !.gap = TRUE], gs)
  /\ UNCHANGED <<relay, claude, admissionVars, count, number, stopped,
                 forwarded, others>>

(* One identity more than MaxIds is a gap, and an error whether the gap is *)
(* recorded or not.                                                        *)
TooMany(h, gs) ==
  /\ At(h, "streaming")
  /\ Cardinality(record[h].ids) >= MaxIds
  /\ gs \cap record[h].ids = {}
  /\ Hear(h, gs)
  /\ stopped' = [stopped EXCEPT ![h] = FALSE]
  /\ LET r == [record[h] EXCEPT !.gap = TRUE] IN
       /\ LastWrite(h, r)
       /\ IF file'[number[h]] = r THEN UNCHANGED lost ELSE Lose(h, gs)
  /\ UNCHANGED <<relay, claude, admissionVars, count, number, forwarded, others>>

(* The response ends: completely, by a reset, or since the client is gone. *)
End(h) ==
  /\ At(h, "streaming")
  /\ Goto(h, "done")
  /\ UNCHANGED <<relay, claude, admissionVars, count, number, record, answers,
                 file, forwarded, others>>

-----------------------------------------------------------------------------
(* executeClaude: Claude ends, the relay is closed, the process exits. It  *)
(* does not wait for handlers, and may be killed at any time.              *)

(* Claude's terminal record, if any, and what its log names: some of the   *)
(* generations announced, whose frames reach it even when their own record *)
(* cannot be written. Only reconcile reads them.                           *)
ClaudeEnds(terminal, named) ==
  /\ claude' = terminal
  /\ named \subseteq UNION {heard[h] : h \in Handlers}
  /\ logged' = named

Finish(terminal, named) ==
  /\ relay = "open"
  /\ relay' = "finished"
  /\ ClaudeEnds(terminal, named)
  /\ \E written \in BOOLEAN : Save(admitted, written /\ limit # Unbounded)
  /\ UNCHANGED <<count, pc, number, record, answers, file, forwarded, ledger>>

CloseServer ==
  /\ relay = "finished"
  /\ relay' = "closed"
  /\ UNCHANGED <<claude, admissionVars, count, pc, number, record, answers,
                 file, forwarded, others>>

(* No handler goes on, and the records in memory are gone.                 *)
ProcessEnds ==
  /\ relay' = "exited"
  /\ pc' = [h \in Handlers |-> "done"]
  /\ record' = [h \in Handlers |-> NewRecord]
  /\ stopped' = [h \in Handlers |-> FALSE]

Exit ==
  /\ relay \in {"finished", "closed"}
  /\ ProcessEnds
  /\ UNCHANGED <<claude, admissionVars, count, number, heard, lost, file,
                 forwarded, others>>

(* Killed while Claude runs; Claude ends by itself.                        *)
Kill(terminal, named) ==
  /\ relay = "open"
  /\ ProcessEnds
  /\ ClaudeEnds(terminal, named)
  /\ UNCHANGED <<admissionVars, count, number, heard, lost, file, forwarded,
                 ledger>>

-----------------------------------------------------------------------------
(* fanisi reconcile, once the run's process has exited.                    *)

Written == {n \in Numbers : file[n] # Absent}

GenerationIDs == logged \cup UNION {file[n].ids : n \in Written}

(* Seeded fault: a record with the identity of another one is accepted.    *)
AdmissionCoversRepeats(ids) ==
  /\ stored \in 1..limit
  /\ Cardinality(Written) = stored
  /\ \A n \in 1..stored :
       /\ n \in Written
       /\ file[n].status = "2xx" /\ file[n].complete /\ ~file[n].gap
       /\ Cardinality(file[n].ids) = 1
  /\ ids = UNION {file[n].ids : n \in Written}

(* completeAdmissionCoverage: the records are numbered without a hole, as  *)
(* many as were admitted, and each holds one identity of its own.          *)
AdmissionCovers(ids) ==
  /\ stored \in 1..limit
  /\ Cardinality(Written) = stored
  /\ \A n \in 1..stored :
       /\ n \in Written
       /\ file[n].status = "2xx" /\ file[n].complete /\ ~file[n].gap
       /\ Cardinality(file[n].ids) = 1
  /\ \A m, n \in Written : m # n => file[m].ids # file[n].ids
  /\ ids = UNION {file[n].ids : n \in Written}

(* Seeded fault: a complete stream counts although it has a gap.           *)
FinishedRecord(r) == r.ids # {} /\ r.complete

RecordCovers(r) == r.ids # {} /\ ~r.gap /\ r.complete

(* A run that ended in error is complete only by its admission coverage.   *)
LedgerComplete(ids, fetched) ==
  /\ fetched = ids
  /\ limit # Unbounded => AdmissionCovers(ids)
  /\ \/ claude = "success"
     \/ claude = "error" /\ limit # Unbounded /\ AdmissionCovers(ids)
  /\ \A n \in Written : RecordCovers(file[n])

(* Each lookup of a receipt may fail; without identities there is no       *)
(* ledger. A later reconcile replaces the ledger.                          *)
Reconcile(fetched) ==
  /\ ~Up
  /\ GenerationIDs # {}
  /\ fetched \subseteq GenerationIDs
  /\ ledger' = [generations |-> fetched,
                complete |-> LedgerComplete(GenerationIDs, fetched)]
  /\ UNCHANGED <<relay, claude, admissionVars, count, pc, number, record,
                 answers, file, forwarded, logged>>

-----------------------------------------------------------------------------
Handler(h) ==
  \/ Refuse(h)
  \/ Admit(h)
  \/ DrawNumber(h)
  \/ WriteRecord(h)
  \/ Forward(h)
  \/ TransportError(h)
  \/ \E status \in {"2xx", "other"}, streamed \in BOOLEAN : Headers(h, status, streamed)
  \/ \E g \in Generations : Start(h, g)
  \/ Restart(h)
  \/ Stop(h)
  \/ \E gs \in Announcements : Unreadable(h, gs) \/ TooMany(h, gs)
  \/ End(h)

Process ==
  \/ \E terminal \in Terminals, named \in SUBSET Generations : Finish(terminal, named)
  \/ CloseServer
  \/ Exit
  \/ \E terminal \in Terminals, named \in SUBSET Generations : Kill(terminal, named)

Next ==
  \/ \E h \in Handlers : Handler(h)
  \/ Process
  \/ \E fetched \in SUBSET Generations : Reconcile(fetched)

Spec == Init /\ [][Next]_vars

-----------------------------------------------------------------------------
(* However requests, retries and the shutdown interleave, and whatever     *)
(* write fails, the provider sees no more requests than the allowance, and *)
(* the saved evidence never counts fewer than it saw.                      *)
AllowanceRespected == limit # Unbounded =>
  /\ Cardinality(forwarded) <= stored
  /\ stored <= limit

(* Every request the provider saw has a record file of its own, which no   *)
(* other handler writes.                                                   *)
ForwardedIsRecorded ==
  /\ \A h \in forwarded : number[h] \in Written
  /\ \A h, i \in Handlers : h # i /\ number[h] # 0 => number[h] # number[i]

(* What a record file says is only added to: identities and gaps stay, and *)
(* so does the status.                                                     *)
RecordsOnlyGrow ==
  [][\A n \in Written :
       /\ file'[n] # Absent
       /\ file[n].ids \subseteq file'[n].ids
       /\ file[n].gap => file'[n].gap
       /\ file[n].status \in {"none", file'[n].status}]_vars

(* A ledger that calls itself complete has a receipt for every request     *)
(* that reached the provider, and misses no generation the relay heard of  *)
(* unless the frame's own record could not be written. Under an allowance  *)
(* it also accounts for each request admitted, and no receipt answers for  *)
(* two of them, even if the provider repeats an identity.                  *)
CoverageSound ==
  ledger # Absent /\ ledger.complete =>
    /\ \A h \in forwarded :
         /\ heard[h] \cap ledger.generations # {}
         /\ heard[h] \ lost[h] \subseteq ledger.generations
    /\ limit # Unbounded =>
         /\ Cardinality(forwarded) = stored
         /\ \A h, i \in forwarded :
              h # i => (heard[h] \ lost[h]) \cap (heard[i] \ lost[i]) = {}

=============================================================================
