---------------------------- MODULE RelayProofs ----------------------------
(***************************************************************************)
(* The relay for any number of requests, any allowance and any number of   *)
(* generations: its types, its records, its allowance and what a ledger    *)
(* that calls itself complete accounts for.                                *)
(***************************************************************************)
EXTENDS Relay, FiniteSetTheorems, TLAPS

(* Every variable of the relay keeps its type.                             *)
THEOREM RelayTypeCorrect == Spec => []TypeOK
<1>1. Init => TypeOK
  BY RelayConstants DEF Init, TypeOK, NewRecord, Records, Terminals
<1>2. TypeOK /\ [Next]_vars => TypeOK'
  <2> SUFFICES ASSUME TypeOK, [Next]_vars PROVE TypeOK'
    OBVIOUS
  <2> USE DEF TypeOK, admissionVars, answers, others
  <2>1. ASSUME NEW h \in Handlers, Handler(h) PROVE TypeOK'
    <3>1. record[h] \in Records /\ Records # {} /\ heard[h] \subseteq Generations
      BY DEF Records
    <3>2. ASSUME NEW ids \in SUBSET Generations, NEW b \in BOOLEAN, NEW s \in {"2xx", "other"}
          PROVE  /\ [record[h] EXCEPT !.status = s] \in Records
                 /\ [record[h] EXCEPT !.ids = ids, !.complete = b] \in Records
                 /\ [record[h] EXCEPT !.complete = b] \in Records
                 /\ [record[h] EXCEPT !.gap = b] \in Records
      BY <3>1 DEF Records
    <3>3. CASE Refuse(h)
      BY <3>3 DEF Refuse, Received, At, Goto, Save
    <3>4. CASE Admit(h)
      BY <3>4 DEF Admit, Received, At, Goto, Save
    <3>5. CASE DrawNumber(h)
      BY <3>5 DEF DrawNumber, At, Goto
    <3>6. CASE WriteRecord(h)
      BY <3>6 DEF WriteRecord, At, Goto
    <3>7. CASE Forward(h)
      BY <3>7 DEF Forward, At, Goto
    <3>8. CASE TransportError(h)
      BY <3>8 DEF TransportError, LastWrite, At, Goto
    <3>9. ASSUME NEW status \in {"2xx", "other"}, NEW streamed \in BOOLEAN,
                 Headers(h, status, streamed)
          PROVE  TypeOK'
      <4> DEFINE r == [record[h] EXCEPT !.status = status]
      <4>1. r \in Records
        BY <3>2, <3>9
      <4>2. /\ record' = [record EXCEPT ![h] = r]
            /\ file' \in {file, [file EXCEPT ![number[h]] = r]}
            /\ pc' \in {[pc EXCEPT ![h] = "streaming"], [pc EXCEPT ![h] = "done"]}
        BY <3>9 DEF Headers, LastWrite, Goto
      <4>3. UNCHANGED <<relay, claude, admissionVars, count, number, answers,
                        forwarded, others>>
        BY <3>9 DEF Headers
      <4> HIDE DEF r
      <4> QED
        BY <4>1, <4>2, <4>3
    <3>10. ASSUME NEW g \in Generations, Start(h, g) PROVE TypeOK'
      <4>1. record[h].ids \cup {g} \in SUBSET Generations
        BY <3>1 DEF Records
      <4>2. [record[h] EXCEPT !.ids = record[h].ids \cup {g}, !.complete = FALSE] \in Records
        BY <3>2, <4>1
      <4> QED
        BY <3>10, <4>2 DEF Start, Write, Lose, Hear, At, Goto
    <3>11. CASE Restart(h)
      BY <3>11 DEF Restart, At
    <3>12. CASE Stop(h)
      BY <3>2, <3>12 DEF Stop, Write, Lose, At, Goto
    <3>13. ASSUME NEW gs \in Announcements, Unreadable(h, gs) PROVE TypeOK'
      <4>1. gs \subseteq Generations
        BY DEF Announcements
      <4> QED
        BY <3>2, <3>13, <4>1 DEF Unreadable, Write, Lose, Hear, At, Goto
    <3>14. ASSUME NEW gs \in Announcements, TooMany(h, gs) PROVE TypeOK'
      <4>1. gs \subseteq Generations
        BY DEF Announcements
      <4>2. lost' \in [Handlers -> SUBSET Generations]
        BY <3>14, <4>1 DEF TooMany, Lose
      <4> QED
        BY <3>2, <3>14, <4>1, <4>2 DEF TooMany, LastWrite, Hear, At, Goto
    <3>15. CASE End(h)
      BY <3>15 DEF End, At, Goto
    <3> QED
      BY <2>1, <3>3, <3>4, <3>5, <3>6, <3>7, <3>8, <3>9, <3>10, <3>11, <3>12,
         <3>13, <3>14, <3>15 DEF Handler
  <2>2. CASE Process
    <3>1. NewRecord \in Records
      BY DEF NewRecord, Records
    <3> QED
      BY <2>2, <3>1 DEF Process, Finish, CloseServer, Exit, Kill, ProcessEnds, ClaudeEnds, Save
  <2>3. ASSUME NEW fetched \in SUBSET Generations, Reconcile(fetched) PROVE TypeOK'
    <3>1. LedgerComplete(GenerationIDs, fetched) \in BOOLEAN
      BY DEF LedgerComplete
    <3> QED
      BY <2>3, <3>1 DEF Reconcile
  <2>4. CASE UNCHANGED vars
    BY <2>4 DEF vars
  <2> QED
    BY <2>1, <2>2, <2>3, <2>4 DEF Next
<1> QED
  BY <1>1, <1>2, PTL DEF Spec

-----------------------------------------------------------------------------
(* The number h drew is its own, its file exists once it may forward, and  *)
(* follows the record in memory as long as h still writes. What was heard  *)
(* is in the file, or was lost, or the file has a gap.                     *)

Numbered == {h \in Handlers : number[h] # 0}

Before(h) == pc[h] \in {"idle", "admitted"}
Writing(h) == pc[h] \in {"recorded", "forwarded", "streaming"}

NumberInv ==
  /\ count = Cardinality(Numbered)
  /\ \A h \in Handlers :
       /\ number[h] <= count
       /\ Before(h) => number[h] = 0
       /\ pc[h] = "numbered" \/ Writing(h) \/ h \in forwarded => number[h] # 0
  /\ \A h, i \in Handlers : h # i /\ number[h] # 0 => number[h] # number[i]

RecordInv(h) ==
  /\ Before(h) \/ pc[h] \in {"numbered", "recorded"} => h \notin forwarded
  /\ pc[h] \in {"forwarded", "streaming"} => h \in forwarded
  /\ Before(h) \/ pc[h] \in {"numbered", "recorded", "forwarded"} =>
       record[h] = NewRecord /\ heard[h] = {}
  /\ pc[h] = "numbered" => file[number[h]] = Absent
  /\ Writing(h) => file[number[h]] = record[h]
  /\ h \in forwarded => file[number[h]] # Absent
  /\ h \in forwarded => /\ file[number[h]].ids \subseteq heard[h]
                         /\ \/ file[number[h]].gap
                            \/ heard[h] \ lost[h] \subseteq file[number[h]].ids
  /\ number[h] # 0 /\ file[number[h]] # Absent =>
       file[number[h]].status = "none" \/ h \in forwarded

FileInv ==
  /\ \A h \in Handlers : RecordInv(h)
  /\ \A n \in Written : \E h \in Handlers : number[h] = n

Holders == {h \in Handlers : pc[h] \in {"admitted", "numbered", "recorded"}}
             \cup forwarded

AllowanceInv == limit # Unbounded =>
  /\ Cardinality(Holders) <= stored
  /\ stored <= admitted
  /\ admitted <= limit

LedgerInv == CoverageSound /\ (ledger # Absent => relay = "exited")

-----------------------------------------------------------------------------
(* What a step of h leaves alone.                                          *)
Apart(h) ==
  /\ \A i \in Handlers \ {h} :
       /\ pc'[i] = pc[i] /\ number'[i] = number[i] /\ record'[i] = record[i]
       /\ heard'[i] = heard[i] /\ lost'[i] = lost[i]
       /\ (i \in forwarded' <=> i \in forwarded)
  /\ \A n \in Numbers \ {number[h]} : file'[n] = file[n]

(* What a step of h does, one disjunct per kind of step.                   *)
Moves(h) ==
  \/ /\ pc[h] = "idle" /\ pc'[h] \in {"admitted", "done"}
     /\ UNCHANGED <<number, count, record, file, heard, lost, forwarded>>
  \/ DrawNumber(h)
  \/ WriteRecord(h)
  \/ Forward(h)
  \/ /\ Writing(h) /\ pc'[h] \in {pc[h], "streaming", "done"}
     /\ UNCHANGED <<number, count, forwarded>>

LEMMA HandlerMoves ==
  ASSUME TypeOK, NEW h \in Handlers, Handler(h)
  PROVE  Apart(h) /\ Moves(h)
<1> USE DEF TypeOK, admissionVars, answers, others, Apart, Moves, Writing, At, Goto
<1>1. CASE Refuse(h)
  BY <1>1 DEF Refuse, Received
<1>2. CASE Admit(h)
  BY <1>2 DEF Admit, Received
<1>3. CASE DrawNumber(h)
  BY <1>3 DEF DrawNumber
<1>4. CASE WriteRecord(h)
  BY <1>4 DEF WriteRecord
<1>5. CASE Forward(h)
  BY <1>5 DEF Forward
<1>6. CASE TransportError(h)
  BY <1>6 DEF TransportError, LastWrite
<1>7. ASSUME NEW status \in {"2xx", "other"}, NEW streamed \in BOOLEAN,
             Headers(h, status, streamed)
      PROVE  Apart(h) /\ Moves(h)
  BY <1>7 DEF Headers, LastWrite
<1>8. ASSUME NEW g \in Generations, Start(h, g) PROVE Apart(h) /\ Moves(h)
  BY <1>8 DEF Start, Write, Lose, Hear
<1>9. CASE Restart(h)
  BY <1>9 DEF Restart
<1>10. CASE Stop(h)
  BY <1>10 DEF Stop, Write, Lose
<1>11. ASSUME NEW gs \in Announcements, Unreadable(h, gs) PROVE Apart(h) /\ Moves(h)
  BY <1>11 DEF Unreadable, Write, Lose, Hear
<1>12. ASSUME NEW gs \in Announcements, TooMany(h, gs) PROVE Apart(h) /\ Moves(h)
  BY <1>12 DEF TooMany, LastWrite, Lose, Hear
<1>13. CASE End(h)
  BY <1>13 DEF End
<1> QED
  BY <1>1, <1>2, <1>3, <1>4, <1>5, <1>6, <1>7, <1>8, <1>9, <1>10, <1>11, <1>12,
     <1>13 DEF Handler

(* Steps of the process and of reconcile leave the handlers alone, or end  *)
(* them all.                                                               *)
handlerVars == <<limit, count, number, file, forwarded, heard, lost>>

Elsewhere ==
  /\ UNCHANGED handlerVars /\ admitted' = admitted /\ stored' \in {stored, admitted}
  /\ UNCHANGED <<pc, record>> \/ pc' = [h \in Handlers |-> "done"]

LEMMA OtherSteps ==
  ASSUME [Next]_vars
  PROVE  (\E h \in Handlers : Handler(h)) \/ Elsewhere
BY DEF Elsewhere, Next, Process, Finish, CloseServer, Exit, Kill, ProcessEnds, Save, Reconcile, vars,
       handlerVars, admissionVars, answers, others

LEMMA NumberedBound ==
  ASSUME TypeOK, NumberInv
  PROVE  /\ IsFiniteSet(Numbered)
         /\ count <= Cardinality(Handlers)
         /\ \A h \in Handlers : number[h] # 0 => number[h] \in Numbers
<1>1. Numbered \subseteq Handlers
  BY DEF Numbered
<1>2. IsFiniteSet(Numbered) /\ Cardinality(Numbered) <= Cardinality(Handlers)
  BY <1>1, RelayConstants, FS_Subset
<1>3. Cardinality(Handlers) \in Nat
  BY RelayConstants, FS_CardinalityType
<1> QED
  BY <1>2, <1>3 DEF NumberInv, Numbers, TypeOK

LEMMA NumberInductive ==
  ASSUME TypeOK, TypeOK', NumberInv, [Next]_vars
  PROVE  NumberInv'
<1>1. CASE Elsewhere
  BY <1>1 DEF Elsewhere, handlerVars, NumberInv, Numbered, Before, Writing
<1>2. ASSUME NEW h \in Handlers, Handler(h) PROVE NumberInv'
  <2>1. Apart(h) /\ Moves(h)
    BY <1>2, HandlerMoves
  <2>2. CASE DrawNumber(h)
    <3>1. number[h] = 0 /\ number'[h] = count + 1 /\ count' = count + 1
      BY <2>2 DEF DrawNumber, At, NumberInv, Before, TypeOK
    <3>2. Numbered' = Numbered \cup {h} /\ h \notin Numbered
      BY <2>1, <3>1 DEF Apart, Numbered, TypeOK
    <3>3. Cardinality(Numbered') = Cardinality(Numbered) + 1
      BY <3>2, NumberedBound, FS_AddElement
    <3>4. pc'[h] = "numbered" /\ forwarded' = forwarded
      BY <2>2 DEF DrawNumber, Goto, TypeOK
    <3> QED
      BY <2>1, <3>1, <3>3, <3>4 DEF NumberInv, Apart, Before, Writing, TypeOK
  <2>3. CASE number' = number /\ count' = count
    <3>1. Numbered' = Numbered
      BY <2>3 DEF Numbered
    <3>2. /\ Before(h)' => Before(h)
          /\ (pc[h] = "numbered" \/ Writing(h) \/ h \in forwarded)' =>
               number[h] # 0
      <4>1. CASE WriteRecord(h) \/ Forward(h)
        BY <4>1 DEF NumberInv, Before, Writing, TypeOK, WriteRecord, Forward, At, Goto
      <4> QED
        BY <2>1, <2>3, <4>1 DEF Moves, NumberInv, Before, Writing, TypeOK, DrawNumber, At
    <3> QED
      BY <2>1, <2>3, <3>1, <3>2 DEF NumberInv, Apart, Before, Writing, TypeOK
  <2> QED
    BY <2>1, <2>2, <2>3 DEF Moves, WriteRecord, Forward, TypeOK
<1> QED
  BY <1>1, <1>2, OtherSteps

-----------------------------------------------------------------------------
(* The record r is written for h, which has just heard gs.                 *)
Rewrites(h, r, gs) ==
  /\ h \in forwarded /\ pc[h] = "streaming" /\ UNCHANGED <<number, forwarded>>
  /\ record'[h] = r /\ heard'[h] = heard[h] \cup gs /\ lost[h] \subseteq lost'[h]
  /\ \/ file'[number[h]] = r /\ pc'[h] \in {"streaming", "done"}
     \/ /\ file'[number[h]] = file[number[h]] /\ pc'[h] = "done"
        /\ gs \ record[h].ids \subseteq lost'[h]

LEMMA RecordApart ==
  ASSUME TypeOK, TypeOK', NumberInv, NumberInv', NEW h \in Handlers, Apart(h),
         number'[h] = number[h] \/ file' = file,
         NEW i \in Handlers \ {h}, RecordInv(i)
  PROVE  RecordInv(i)'
<1>1. /\ pc'[i] = pc[i] /\ number'[i] = number[i] /\ record'[i] = record[i]
      /\ heard'[i] = heard[i] /\ lost'[i] = lost[i]
      /\ (i \in forwarded' <=> i \in forwarded)
  BY DEF Apart
<1>2. number[i] # 0 => file'[number[i]] = file[number[i]]
  BY NumberedBound DEF Apart, NumberInv
<1>3. pc[i] = "numbered" \/ Writing(i) \/ i \in forwarded => number[i] # 0
  BY DEF NumberInv
<1>4. /\ Before(i)' <=> Before(i)
      /\ Writing(i)' <=> Writing(i)
  BY <1>1 DEF Before, Writing
<1> QED
  BY <1>1, <1>2, <1>3, <1>4 DEF RecordInv

(* A write of r for the answer to h: either r becomes the file, or the old *)
(* file stays, nothing more is written, and what is heard now is lost.     *)
LEMMA RecordWritten ==
  ASSUME TypeOK, FileInv, NEW h \in Handlers, h \in forwarded, NEW r \in Records,
         pc'[h] \in {"streaming", "done"}, UNCHANGED <<number, forwarded>>,
         heard[h] \subseteq heard'[h],
         \/ /\ record'[h] = r /\ file'[number[h]] = r
            /\ r.ids \subseteq heard'[h]
            /\ r.gap \/ heard'[h] \ lost'[h] \subseteq r.ids
         \/ /\ pc'[h] = "done" /\ file'[number[h]] = file[number[h]]
            /\ heard'[h] \ lost'[h] \subseteq
                 (heard[h] \ lost[h]) \cup file[number[h]].ids
  PROVE  RecordInv(h)'
<1>1. RecordInv(h)
  BY DEF FileInv
<1>2. r # Absent
  BY AbsentIsNew
<1> QED
  BY <1>1, <1>2 DEF RecordInv, Before, Writing

(* The step of h itself.                                                   *)
LEMMA RecordStep ==
  ASSUME TypeOK, NumberInv, FileInv, NEW h \in Handlers, Handler(h)
  PROVE  RecordInv(h)'
<1>1. RecordInv(h)
  BY DEF FileInv
<1>2. number[h] # 0 => number[h] \in Numbers
  BY NumberedBound
<1>3. /\ pc[h] = "numbered" \/ Writing(h) \/ h \in forwarded => number[h] # 0
      /\ Before(h) => number[h] = 0
  BY DEF NumberInv
<1>4. /\ record[h] \in Records /\ NewRecord \in Records
      /\ NewRecord # Absent /\ record[h] # Absent
  <2>1. record[h] \in Records /\ NewRecord \in Records
    BY DEF TypeOK, NewRecord, Records
  <2> QED
    BY <2>1, AbsentIsNew
<1> USE DEF TypeOK, admissionVars, answers, others, At, Goto, RecordInv, Before, Writing
<1>5. CASE Refuse(h)
  BY <1>1, <1>3, <1>5 DEF Refuse, Received
<1>6. CASE Admit(h)
  BY <1>1, <1>3, <1>6 DEF Admit, Received
<1>7. CASE DrawNumber(h)
  <2>1. number'[h] = count + 1 /\ file' = file /\ pc'[h] = "numbered"
    BY <1>7 DEF DrawNumber
  <2>2. \A i \in Handlers : number[i] # count + 1
    BY DEF NumberInv
  <2>3. count + 1 \in Numbers
    <3>1. h \notin Numbered /\ Numbered \subseteq Handlers
      BY <1>3, <1>7 DEF DrawNumber, Numbered
    <3>2. Cardinality(Numbered \cup {h}) = count + 1 /\ Numbered \cup {h} \subseteq Handlers
      BY <3>1, NumberedBound, FS_AddElement DEF NumberInv
    <3>3. count + 1 <= Cardinality(Handlers) /\ Cardinality(Handlers) \in Nat
      BY <3>2, RelayConstants, FS_Subset, FS_CardinalityType
    <3> QED
      BY <3>3 DEF Numbers
  <2>4. file'[number'[h]] = Absent
    BY <2>1, <2>2, <2>3 DEF FileInv, Written
  <2> QED
    BY <1>1, <1>7, <2>1, <2>4 DEF DrawNumber
<1>8. CASE WriteRecord(h)
  BY <1>1, <1>2, <1>3, <1>4, <1>8 DEF WriteRecord, NewRecord
<1>9. CASE Forward(h)
  BY <1>1, <1>2, <1>3, <1>4, <1>9 DEF Forward, NewRecord
<1>10. CASE TransportError(h)
  BY <1>1, <1>2, <1>3, <1>4, <1>10 DEF TransportError, LastWrite, NewRecord
<1>11. ASSUME NEW status \in {"2xx", "other"}, NEW streamed \in BOOLEAN,
              Headers(h, status, streamed)
       PROVE  RecordInv(h)'
  <2> DEFINE r == [record[h] EXCEPT !.status = status]
  <2>1. r \in Records /\ r.ids = {}
    BY <1>1, <1>4, <1>11 DEF Headers, NewRecord, Records
  <2>2. /\ file'[number[h]] \in {r, file[number[h]]} /\ record'[h] = r
        /\ pc'[h] \in {"streaming", "done"}
        /\ file'[number[h]] = r \/ pc'[h] = "done"
        /\ h \in forwarded /\ heard[h] = {} /\ heard' = heard /\ lost' = lost
        /\ UNCHANGED <<number, forwarded>>
    BY <1>1, <1>2, <1>3, <1>11 DEF Headers, LastWrite
  <2> HIDE DEF r
  <2> QED
    BY <2>1, <2>2, RecordWritten
<1>12. ASSUME NEW g \in Generations, Start(h, g) PROVE RecordInv(h)'
  <2> DEFINE r == [record[h] EXCEPT !.ids = record[h].ids \cup {g}, !.complete = FALSE]
  <2>1. /\ r \in Records
        /\ r.ids = record[h].ids \cup {g} /\ r.gap = record[h].gap
    BY <1>4 DEF Records
  <2>2. Rewrites(h, r, {g})
    BY <1>1, <1>2, <1>3, <1>12 DEF Start, Write, Lose, Hear, Rewrites
  <2> HIDE DEF r
  <2> QED
    BY <1>1, <2>1, <2>2, RecordWritten DEF Rewrites
<1>13. CASE Restart(h)
  BY <1>1, <1>13 DEF Restart
<1>14. CASE Stop(h)
  <2> DEFINE r == [record[h] EXCEPT !.complete = TRUE]
  <2>1. r \in Records /\ r.ids = record[h].ids /\ r.gap = record[h].gap
    BY <1>4 DEF Records
  <2>2. Rewrites(h, r, {})
    BY <1>1, <1>2, <1>3, <1>14 DEF Stop, Write, Lose, Rewrites
  <2> HIDE DEF r
  <2> QED
    BY <1>1, <2>1, <2>2, RecordWritten DEF Rewrites
<1>15. ASSUME NEW gs \in Announcements, Unreadable(h, gs) PROVE RecordInv(h)'
  <2> DEFINE r == [record[h] EXCEPT !.gap = TRUE]
  <2>1. r \in Records /\ r.ids = record[h].ids /\ r.gap
    BY <1>4 DEF Records
  <2>2. Rewrites(h, r, gs)
    <3>1. heard'[h] = heard[h] \cup gs
      BY <1>15 DEF Unreadable, Hear
    <3>2. \/ file' = [file EXCEPT ![number[h]] = r] /\ UNCHANGED <<pc, lost>>
          \/ /\ pc' = [pc EXCEPT ![h] = "done"] /\ UNCHANGED file
             /\ lost' = [lost EXCEPT ![h] = lost[h] \cup (gs \ record[h].ids)]
      BY <1>15 DEF Unreadable, Write, Lose
    <3>3. /\ pc[h] = "streaming" /\ record' = [record EXCEPT ![h] = r]
          /\ UNCHANGED <<number, forwarded>>
      BY <1>15 DEF Unreadable, Write
    <3> HIDE DEF r
    <3> QED
      BY <1>1, <1>2, <1>3, <3>1, <3>2, <3>3 DEF Rewrites
  <2> HIDE DEF r
  <2> QED
    BY <1>1, <2>1, <2>2, RecordWritten DEF Rewrites
<1>16. ASSUME NEW gs \in Announcements, TooMany(h, gs) PROVE RecordInv(h)'
  <2> DEFINE r == [record[h] EXCEPT !.gap = TRUE]
  <2>1. r \in Records /\ r.ids = record[h].ids /\ r.gap
    BY <1>4 DEF Records
  <2>2. Rewrites(h, r, gs)
    <3>1. heard'[h] = heard[h] \cup gs
      BY <1>16 DEF TooMany, Hear
    <3>2. /\ pc' = [pc EXCEPT ![h] = "done"] /\ record' = [record EXCEPT ![h] = r]
          /\ file' \in {file, [file EXCEPT ![number[h]] = r]}
          /\ \/ file'[number[h]] = r /\ UNCHANGED lost
             \/ /\ file'[number[h]] # r
                /\ lost' = [lost EXCEPT ![h] = lost[h] \cup (gs \ record[h].ids)]
      BY <1>16 DEF TooMany, LastWrite, Lose
    <3>3. /\ pc[h] = "streaming" /\ h \in forwarded /\ UNCHANGED <<number, forwarded>>
      BY <1>1, <1>16 DEF TooMany
    <3> HIDE DEF r
    <3>4. number[h] \in Numbers /\ number[h] \in DOMAIN file
      BY <1>2, <1>3, <3>3
    <3>5. record'[h] = r /\ pc'[h] = "done"
      BY <3>2
    <3>6. lost[h] \subseteq lost'[h]
      BY <3>2
    <3>7. \/ file'[number[h]] = r
          \/ /\ file'[number[h]] = file[number[h]]
             /\ gs \ record[h].ids \subseteq lost'[h]
      BY <3>2, <3>4
    <3> QED
      BY <3>1, <3>3, <3>5, <3>6, <3>7 DEF Rewrites
  <2> HIDE DEF r
  <2> QED
    BY <1>1, <2>1, <2>2, RecordWritten DEF Rewrites
<1>17. CASE End(h)
  BY <1>1, <1>17 DEF End
<1> QED
  BY <1>5, <1>6, <1>7, <1>8, <1>9, <1>10, <1>11, <1>12, <1>13, <1>14, <1>15, <1>16,
     <1>17 DEF Handler

(* A step changes one file at most, that of the handler that steps.        *)
LEMMA OneFile ==
  ASSUME NEW h \in Handlers, Moves(h)
  PROVE  number'[h] = number[h] \/ file' = file
BY DEF Moves, DrawNumber, WriteRecord, Forward

LEMMA FileInductive ==
  ASSUME TypeOK, TypeOK', NumberInv, NumberInv', FileInv, [Next]_vars
  PROVE  FileInv'
<1>1. CASE Elsewhere
  BY <1>1 DEF Elsewhere, handlerVars, FileInv, RecordInv, Before, Writing, Written
<1>2. ASSUME NEW h \in Handlers, Handler(h) PROVE FileInv'
  <2>1. Apart(h) /\ Moves(h)
    BY <1>2, HandlerMoves
  <2>2. number'[h] = number[h] \/ file' = file
    BY <2>1, OneFile
  <2>3. ASSUME NEW i \in Handlers PROVE RecordInv(i)'
    <3>1. CASE i = h
      BY <1>2, <3>1, RecordStep
    <3>2. CASE i # h
      BY <2>1, <2>2, <3>2, RecordApart DEF FileInv
    <3> QED
      BY <3>1, <3>2
  <2>4. ASSUME NEW n \in Written' PROVE \E i \in Handlers : number'[i] = n
    <3>1. CASE n \in Written
      <4>1. PICK i \in Handlers : number[i] = n
        BY <3>1 DEF FileInv
      <4>2. n # 0
        BY DEF Written, Numbers
      <4>3. i # h => number'[i] = n
        BY <2>1, <4>1 DEF Apart
      <4>4. CASE i = h
        <5>1. ~Before(h)
          BY <4>1, <4>2, <4>4 DEF NumberInv
        <5> QED
          BY <2>1, <4>1, <4>4, <5>1
             DEF Moves, DrawNumber, WriteRecord, Forward, At, Before
      <4> QED
        BY <4>1, <4>3, <4>4
    <3>2. CASE n \notin Written
      BY <2>1, <2>2, <3>2 DEF Written, Apart
    <3> QED
      BY <3>1, <3>2
  <2> QED
    BY <2>3, <2>4 DEF FileInv
<1> QED
  BY <1>1, <1>2, OtherSteps

THEOREM RecordsHold == Spec => [](NumberInv /\ FileInv)
<1>1. Init => NumberInv /\ FileInv
  <2> SUFFICES ASSUME Init PROVE NumberInv /\ FileInv
    OBVIOUS
  <2>1. Numbered = {} /\ Written = {}
    BY DEF Init, Numbered, Written
  <2>2. Cardinality(Numbered) = 0
    BY <2>1, FS_EmptySet
  <2> QED
    BY <2>1, <2>2 DEF Init, NumberInv, FileInv, RecordInv, Before, Writing
<1>2. TypeOK /\ TypeOK' /\ NumberInv /\ FileInv /\ [Next]_vars
        => NumberInv' /\ FileInv'
  BY NumberInductive, FileInductive
<1> QED
  BY <1>1, <1>2, RelayTypeCorrect, PTL DEF Spec

(* Every request the provider saw has a record file, and no two handlers   *)
(* ever share one (the atomic counter of relayHandlerWithAdmission).       *)
THEOREM EveryForwardedRecorded == Spec => []ForwardedIsRecorded
<1>1. TypeOK /\ NumberInv /\ FileInv => ForwardedIsRecorded
  <2> SUFFICES ASSUME TypeOK, NumberInv, FileInv PROVE ForwardedIsRecorded
    OBVIOUS
  <2>1. ASSUME NEW h \in forwarded PROVE number[h] \in Written
    <3>1. h \in Handlers
      BY DEF TypeOK
    <3>2. number[h] # 0 /\ file[number[h]] # Absent
      BY <3>1 DEF NumberInv, FileInv, RecordInv
    <3> QED
      BY <3>1, <3>2, NumberedBound DEF Written
  <2> QED
    BY <2>1 DEF ForwardedIsRecorded, NumberInv
<1> QED
  BY <1>1, RelayTypeCorrect, RecordsHold, PTL

-----------------------------------------------------------------------------
Extends(new, old) ==
  /\ new # Absent
  /\ old.ids \subseteq new.ids /\ (old.gap => new.gap)
  /\ old.status \in {"none", new.status}

LEMMA FileExtends ==
  ASSUME TypeOK, NumberInv, FileInv, NEW h \in Handlers, Handler(h), NEW n \in Written
  PROVE  Extends(file'[n], file[n])
<1>1. /\ file[n] \in Records \ {Absent} /\ n \in Numbers
      /\ Extends(file[n], file[n])
  BY DEF Written, TypeOK, Extends
<1>2. CASE file'[n] = file[n]
  BY <1>1, <1>2
<1>3. CASE file'[n] # file[n]
  <2>1. n = number[h] /\ Moves(h)
    BY <1>1, <1>3, HandlerMoves DEF Apart
  <2>2. RecordInv(h)
    BY DEF FileInv
  <2>3. pc[h] # "numbered"
    BY <1>1, <2>1, <2>2 DEF RecordInv, Written
  <2>4. Writing(h)
    BY <1>3, <2>1, <2>3 DEF Moves, DrawNumber, WriteRecord, Forward, At
  <2>5. file[n] = record[h] /\ record[h] \in Records
    BY <1>1, <2>1, <2>2, <2>4 DEF RecordInv
  <2> DEFINE Adds(r) == /\ r.status = record[h].status \/ pc[h] = "forwarded"
                        /\ r \in Records
                        /\ record[h].ids \subseteq r.ids
                        /\ record[h].gap => r.gap
  <2>6. Adds(file'[n])
    <3> USE <1>1, <1>3, <2>1, <2>4, <2>5
        DEF TypeOK, At, Goto, admissionVars, answers, others, Writing
    <3>1. CASE Refuse(h) \/ Admit(h)
      BY <3>1 DEF Refuse, Admit, Received
    <3>2. CASE DrawNumber(h) \/ WriteRecord(h) \/ Forward(h) \/ Restart(h) \/ End(h)
      BY <3>2 DEF DrawNumber, WriteRecord, Forward, Restart, End
    <3>3. CASE TransportError(h)
      BY <3>3 DEF TransportError, LastWrite
    <3>4. ASSUME NEW status \in {"2xx", "other"}, NEW streamed \in BOOLEAN,
                 Headers(h, status, streamed)
          PROVE  Adds(file'[n])
      <4>1. file'[n] = [record[h] EXCEPT !.status = status] /\ pc[h] = "forwarded"
        BY <3>4 DEF Headers, LastWrite
      <4> QED
        BY <4>1 DEF Records
    <3>5. ASSUME NEW g \in Generations, Start(h, g) PROVE Adds(file'[n])
      <4> DEFINE r == [record[h] EXCEPT !.ids = record[h].ids \cup {g}, !.complete = FALSE]
      <4>1. file'[n] = r
        BY <3>5 DEF Start, Write
      <4>2. /\ r \in Records /\ r.ids = record[h].ids \cup {g}
            /\ r.status = record[h].status /\ r.gap = record[h].gap
        BY DEF Records
      <4> QED
        BY <4>1, <4>2
    <3>6. CASE Stop(h)
      <4>1. file'[n] = [record[h] EXCEPT !.complete = TRUE]
        BY <3>6 DEF Stop, Write
      <4> QED
        BY <4>1 DEF Records
    <3>7. ASSUME NEW gs \in Announcements, Unreadable(h, gs) \/ TooMany(h, gs)
          PROVE  Adds(file'[n])
      <4>1. file'[n] = [record[h] EXCEPT !.gap = TRUE]
        BY <3>7 DEF Unreadable, TooMany, Write, LastWrite
      <4> QED
        BY <4>1 DEF Records
    <3> HIDE DEF Adds
    <3> QED
      BY <3>1, <3>2, <3>3, <3>4, <3>5, <3>6, <3>7 DEF Handler
  <2>7. pc[h] = "forwarded" => record[h].status = "none"
    BY <2>2 DEF RecordInv, NewRecord
  <2> QED
    BY <2>5, <2>6, <2>7, AbsentIsNew DEF Extends
<1> QED
  BY <1>2, <1>3

(* A record file is only added to: writeRelayMetadata replaces it whole,   *)
(* from a record that still says everything the file said.                 *)
THEOREM RecordsGrow == Spec => RecordsOnlyGrow
<1>1. TypeOK /\ NumberInv /\ FileInv /\ [Next]_vars =>
        [\A n \in Written :
           /\ file'[n] # Absent
           /\ file[n].ids \subseteq file'[n].ids
           /\ file[n].gap => file'[n].gap
           /\ file[n].status \in {"none", file'[n].status}]_vars
  <2> SUFFICES ASSUME TypeOK, NumberInv, FileInv, [Next]_vars, NEW n \in Written
               PROVE  Extends(file'[n], file[n])
    BY DEF Extends
  <2>1. CASE Elsewhere
    BY <2>1 DEF Elsewhere, handlerVars, Extends, Written
  <2> QED
    BY <2>1, OtherSteps, FileExtends
<1> QED
  BY <1>1, RelayTypeCorrect, RecordsHold, PTL DEF Spec, RecordsOnlyGrow

-----------------------------------------------------------------------------
(* The handlers that hold a reservation or have used one are no more than  *)
(* the saved evidence counts: a reservation is saved before its holder     *)
(* goes on, and what is saved only grows.                                  *)

LEMMA HoldersFinite ==
  ASSUME TypeOK
  PROVE  IsFiniteSet(Holders) /\ Cardinality(Holders) \in Nat
<1>1. Holders \subseteq Handlers
  BY DEF Holders, TypeOK
<1> QED
  BY <1>1, RelayConstants, FS_Subset, FS_CardinalityType

LEMMA FewerHolders ==
  ASSUME TypeOK, TypeOK', AllowanceInv, Holders' \subseteq Holders, limit' = limit,
         \/ UNCHANGED <<admitted, stored>>
         \/ admitted' = admitted /\ stored' = admitted
         \/ limit # Unbounded /\ admitted < limit /\ admitted' = admitted + 1
            /\ stored' \in {stored, admitted + 1}
  PROVE  AllowanceInv'
<1>1. Cardinality(Holders') <= Cardinality(Holders) /\ Cardinality(Holders') \in Nat
  BY HoldersFinite, FS_Subset, FS_CardinalityType
<1>2. limit # Unbounded => limit \in Nat
  BY RelayConstants DEF TypeOK
<1> QED
  BY <1>1, <1>2, HoldersFinite DEF AllowanceInv, TypeOK

LEMMA AllowanceInductive ==
  ASSUME TypeOK, TypeOK', AllowanceInv, [Next]_vars
  PROVE  AllowanceInv'
<1> USE DEF admissionVars, answers, others, At, Goto
<1>1. ASSUME NEW h \in Handlers, Admit(h) PROVE AllowanceInv'
  <2>1. CASE /\ limit # Unbounded /\ admitted < limit
             /\ Save(admitted + 1, TRUE) /\ pc' = [pc EXCEPT ![h] = "admitted"]
    <3>1. Holders' = Holders \cup {h}
      BY <1>1, <2>1 DEF Admit, Holders, TypeOK
    <3>2. Cardinality(Holders') <= Cardinality(Holders) + 1
      BY <3>1, HoldersFinite, FS_AddElement
    <3>3. Cardinality(Holders') \in Nat /\ limit \in Nat
      BY <2>1, <3>1, HoldersFinite, FS_AddElement, FS_CardinalityType, RelayConstants DEF TypeOK
    <3> QED
      BY <2>1, <3>2, <3>3, HoldersFinite DEF AllowanceInv, TypeOK, Save
  <2>2. CASE /\ limit # Unbounded
             /\ Holders' \subseteq Holders
    <3>1. \/ UNCHANGED <<admitted, stored>>
          \/ admitted' = admitted /\ stored' = admitted
          \/ admitted < limit /\ admitted' = admitted + 1 /\ stored' \in {stored, admitted + 1}
      BY <1>1, <2>2 DEF Admit, Save
    <3> QED
      BY <1>1, <2>2, <3>1, FewerHolders DEF Admit, Save
  <2>3. CASE limit = Unbounded
    BY <1>1, <2>3 DEF Admit, AllowanceInv
  <2>4. \/ pc' = [pc EXCEPT ![h] = "done"] /\ forwarded' = forwarded
        \/ limit = Unbounded
        \/ /\ admitted < limit
           /\ Save(admitted + 1, TRUE) /\ pc' = [pc EXCEPT ![h] = "admitted"]
    BY <1>1 DEF Admit
  <2>5. pc' = [pc EXCEPT ![h] = "done"] /\ forwarded' = forwarded => Holders' \subseteq Holders
    BY DEF Holders, TypeOK
  <2> QED
    BY <2>1, <2>2, <2>3, <2>4, <2>5
<1>2. ASSUME NEW h \in Handlers, Refuse(h) PROVE AllowanceInv'
  <2>1. Holders' \subseteq Holders /\ limit' = limit
    BY <1>2 DEF Refuse, Holders, TypeOK, Save
  <2>2. UNCHANGED <<admitted, stored>> \/ (admitted' = admitted /\ stored' = admitted)
    BY <1>2 DEF Refuse, Save
  <2> QED
    BY <2>1, <2>2, FewerHolders
<1>3. ASSUME NEW h \in Handlers, Handler(h), ~Admit(h), ~Refuse(h) PROVE AllowanceInv'
  <2>1. UNCHANGED <<limit, admitted, stored>>
    BY <1>3 DEF Handler, DrawNumber, WriteRecord, Forward, TransportError, Headers, Start,
       Restart, Stop, Unreadable, TooMany, End
  <2>2. Apart(h) /\ Moves(h) /\ pc[h] # "idle"
    BY <1>3, HandlerMoves DEF Handler, DrawNumber, WriteRecord, Forward, TransportError,
       Headers, Start, Restart, Stop, Unreadable, TooMany, End
  <2>3. h \in Holders' => h \in Holders
    BY <2>2 DEF Moves, Holders, Writing, DrawNumber, WriteRecord, Forward, TypeOK
  <2>4. Holders' \subseteq Holders
    BY <2>2, <2>3 DEF Apart, Holders, TypeOK
  <2> QED
    BY <2>1, <2>4, FewerHolders
<1>4. CASE Elsewhere
  <2>1. Holders' \subseteq Holders /\ limit' = limit
    BY <1>4 DEF Elsewhere, handlerVars, Holders
  <2>2. UNCHANGED <<admitted, stored>> \/ (admitted' = admitted /\ stored' = admitted)
    BY <1>4 DEF Elsewhere
  <2> QED
    BY <2>1, <2>2, FewerHolders
<1> QED
  BY <1>1, <1>2, <1>3, <1>4, OtherSteps

(* docs/evaluation.md: concurrent requests cannot exceed the reserved      *)
(* count, and the saved evidence counts every request the provider saw.    *)
THEOREM AllowanceHolds == Spec => []AllowanceRespected
<1>1. Init => AllowanceInv
  <2> SUFFICES ASSUME Init PROVE AllowanceInv
    OBVIOUS
  <2>1. Holders = {}
    BY DEF Init, Holders
  <2> QED
    BY <2>1, FS_EmptySet, RelayConstants DEF Init, AllowanceInv
<1>2. TypeOK /\ TypeOK' /\ AllowanceInv /\ [Next]_vars => AllowanceInv'
  BY AllowanceInductive
<1>3. TypeOK /\ AllowanceInv => AllowanceRespected
  <2> SUFFICES ASSUME TypeOK, AllowanceInv, limit # Unbounded PROVE AllowanceRespected
    BY DEF AllowanceRespected
  <2>1. Cardinality(forwarded) <= Cardinality(Holders) /\ Cardinality(forwarded) \in Nat
    BY HoldersFinite, FS_Subset, FS_CardinalityType DEF Holders
  <2>2. limit \in Nat
    BY RelayConstants DEF TypeOK
  <2> QED
    BY <2>1, <2>2, HoldersFinite DEF AllowanceInv, AllowanceRespected, TypeOK
<1> QED
  BY <1>1, <1>2, <1>3, RelayTypeCorrect, PTL DEF Spec

-----------------------------------------------------------------------------
(* The records with an answer of the provider belong to requests it saw,   *)
(* each to another one.                                                    *)
LEMMA AnsweredAreForwarded ==
  ASSUME TypeOK, NumberInv, FileInv, \A n \in Written : file[n].status # "none"
  PROVE  Cardinality(forwarded) = Cardinality(Written)
<1> DEFINE f == [h \in forwarded |-> number[h]]
<1>1. IsFiniteSet(forwarded)
  BY RelayConstants, FS_Subset DEF TypeOK
<1>2. ASSUME NEW h \in forwarded PROVE number[h] \in Written
  <2>1. h \in Handlers /\ RecordInv(h) /\ number[h] # 0
    BY DEF TypeOK, FileInv, NumberInv
  <2> QED
    BY <2>1, NumberedBound DEF RecordInv, Written
<1>3. f \in Injection(forwarded, Written)
  <2>1. f \in [forwarded -> Written]
    BY <1>2
  <2>2. ASSUME NEW h \in forwarded, NEW i \in forwarded, f[h] = f[i] PROVE h = i
    <3>1. h \in Handlers /\ i \in Handlers /\ number[h] # 0 /\ number[h] = number[i]
      BY <2>2 DEF TypeOK, NumberInv
    <3> QED
      BY <3>1 DEF NumberInv
  <2> QED
    BY <2>1, <2>2 DEF Injection, IsInjective
<1>4. ASSUME NEW n \in Written PROVE \E h \in forwarded : f[h] = n
  <2>1. PICK h \in Handlers : number[h] = n
    BY DEF FileInv
  <2>2. RecordInv(h) /\ n # 0 /\ file[n] # Absent
    BY DEF FileInv, Written, Numbers
  <2>3. h \in forwarded
    BY <2>1, <2>2 DEF RecordInv
  <2> QED
    BY <2>1, <2>3
<1>5. f \in Surjection(forwarded, Written)
  BY <1>3, <1>4 DEF Injection, Surjection
<1>6. f \in Bijection(forwarded, Written)
  BY <1>3, <1>5 DEF Bijection
<1> QED
  BY <1>1, <1>6, FS_Bijection DEF ExistsBijection

LEMMA ReconcileSound ==
  ASSUME TypeOK, NumberInv, FileInv, NEW fetched \in SUBSET Generations, Reconcile(fetched)
  PROVE  CoverageSound'
<1> SUFFICES ASSUME LedgerComplete(GenerationIDs, fetched)
             PROVE  /\ \A h \in forwarded :
                         /\ heard[h] \cap fetched # {}
                         /\ heard[h] \ lost[h] \subseteq fetched
                    /\ limit # Unbounded =>
                         /\ Cardinality(forwarded) = stored
                         /\ \A h, i \in forwarded : h # i =>
                              (heard[h] \ lost[h]) \cap (heard[i] \ lost[i]) = {}
  BY DEF Reconcile, CoverageSound, admissionVars, answers, others
<1>1. fetched = GenerationIDs /\ \A n \in Written : RecordCovers(file[n])
  BY DEF LedgerComplete
<1>2. ASSUME NEW h \in forwarded
      PROVE  /\ heard[h] \cap fetched # {} /\ heard[h] \ lost[h] \subseteq fetched
             /\ number[h] \in Written
             /\ heard[h] \ lost[h] \subseteq file[number[h]].ids
  <2>1. h \in Handlers /\ RecordInv(h) /\ number[h] # 0
    BY DEF TypeOK, FileInv, NumberInv
  <2>2. number[h] \in Written
    BY <2>1, NumberedBound DEF RecordInv, Written
  <2>3. file[number[h]].ids \subseteq GenerationIDs
    BY <2>2 DEF GenerationIDs
  <2>4. file[number[h]].ids # {} /\ ~file[number[h]].gap
    BY <1>1, <2>2 DEF RecordCovers
  <2> QED
    BY <1>1, <2>1, <2>2, <2>3, <2>4 DEF RecordInv
<1>3. ASSUME limit # Unbounded
      PROVE  Cardinality(forwarded) = stored /\ Written = 1..stored
  <2>1. /\ stored \in Nat /\ Cardinality(Written) = stored
        /\ \A n \in 1..stored : n \in Written /\ file[n].status = "2xx"
    BY <1>3 DEF LedgerComplete, AdmissionCovers, TypeOK
  <2>2. IsFiniteSet(Written)
    <3>1. Cardinality(Handlers) \in Nat
      BY RelayConstants, FS_CardinalityType
    <3>2. IsFiniteSet(Numbers)
      BY <3>1, FS_Interval DEF Numbers
    <3>3. Written \in SUBSET Numbers
      BY DEF Written
    <3> QED
      BY <3>2, <3>3, FS_Subset
  <2>3. 1..stored \subseteq Written /\ Cardinality(1..stored) = stored
    BY <2>1, FS_Interval
  <2>4. Written = 1..stored
    BY <2>1, <2>2, <2>3, FS_Subset
  <2> QED
    BY <2>1, <2>4, AnsweredAreForwarded
<1>4. ASSUME limit # Unbounded, NEW h \in forwarded, NEW i \in forwarded, h # i
      PROVE  (heard[h] \ lost[h]) \cap (heard[i] \ lost[i]) = {}
  <2>1. h \in Handlers /\ i \in Handlers
    BY DEF TypeOK
  <2>2. number[h] # number[i]
    BY <1>4, <2>1 DEF NumberInv
  <2>3. number[h] \in Written /\ number[i] \in Written
    BY <1>2
  <2>4. file[number[h]].ids # file[number[i]].ids
    BY <1>4, <2>2, <2>3 DEF LedgerComplete, AdmissionCovers
  <2>5. ASSUME NEW n \in Written PROVE \E g : file[n].ids = {g}
    <3>1. Cardinality(file[n].ids) = 1
      BY <1>3, <1>4 DEF LedgerComplete, AdmissionCovers
    <3>2. IsFiniteSet(file[n].ids)
      <4>1. file[n].ids \subseteq Generations
        BY DEF Written, TypeOK, Records
      <4> QED
        BY <4>1, RelayConstants, FS_Subset
    <3> QED
      BY <3>1, <3>2, FS_Singleton
  <2>6. file[number[h]].ids \cap file[number[i]].ids = {}
    BY <2>3, <2>4, <2>5
  <2> QED
    BY <1>2, <2>6
<1> QED
  BY <1>2, <1>3, <1>4

LEMMA LedgerInductive ==
  ASSUME TypeOK, NumberInv, FileInv, LedgerInv, [Next]_vars
  PROVE  LedgerInv'
<1>1. ASSUME NEW fetched \in SUBSET Generations, Reconcile(fetched) PROVE LedgerInv'
  BY <1>1, ReconcileSound DEF LedgerInv, Reconcile, Up
<1>2. ASSUME ~\E fetched \in SUBSET Generations : Reconcile(fetched) PROVE LedgerInv'
  <2>1. ledger' = ledger
    BY <1>2 DEF Next, Handler, Process, Refuse, Admit, DrawNumber, WriteRecord, Forward,
       TransportError, Headers, Start, Restart, Stop, Unreadable, TooMany, End, Finish,
       CloseServer, Exit, Kill, vars, others
  <2>2. CASE ledger = Absent
    BY <2>1, <2>2 DEF LedgerInv, CoverageSound
  <2>3. CASE ledger # Absent
    <3>1. relay = "exited"
      BY <2>3 DEF LedgerInv
    <3>2. UNCHANGED vars
      BY <1>2, <3>1 DEF Next, Handler, Process, Refuse, Admit, DrawNumber, WriteRecord,
         Forward, TransportError, Headers, Start, Restart, Stop, Unreadable, TooMany, End,
         Finish, CloseServer, Exit, Kill, Received, At, Up
    <3> QED
      BY <3>2 DEF vars, LedgerInv, CoverageSound
  <2> QED
    BY <2>2, <2>3
<1> QED
  BY <1>1, <1>2

(* A provider ledger that calls itself complete (reconcileWithClient) has a *)
(* receipt for every request the provider saw, and misses nothing the relay *)
(* heard of and could record.                                               *)
THEOREM LedgerSound == Spec => []CoverageSound
<1>1. Init => LedgerInv
  BY DEF Init, LedgerInv, CoverageSound
<1>2. TypeOK /\ NumberInv /\ FileInv /\ LedgerInv /\ [Next]_vars => LedgerInv'
  BY LedgerInductive
<1>3. LedgerInv => CoverageSound
  BY DEF LedgerInv
<1> QED
  BY <1>1, <1>2, <1>3, RelayTypeCorrect, RecordsHold, PTL DEF Spec

=============================================================================
