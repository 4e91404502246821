------------------------ MODULE BatchPipelineProofs ------------------------
(***************************************************************************)
(* Proofs about BatchPipeline, for every set of items, every number of     *)
(* attempts, receives, message copies, operators and puts sent again.      *)
(***************************************************************************)
EXTENDS BatchPipeline, IntegerFacts, TLAPS, SequenceTheorems, FiniteSetTheorems,
        WellFoundedInduction

-----------------------------------------------------------------------------
(* The stream and the table.                                               *)

\* A write of a row keeps the types of the table, the stream and the history
\* (batch row updates in ddb.Items: Create, Decide, Fail, Retry, Cancel).
LEMMA WriteType ==
  ASSUME TypeOK, NEW i \in Items,
         NEW to \in ItemStatus \cup {"REMOVED"}, NEW attempt \in 0..MaxAttempts,
         (to = "REMOVED") <=> (attempt = 0),
         Write(i, to, attempt)
  PROVE  /\ status' \in [Items -> ItemStatus \cup NoRow]
         /\ attempts' \in [Items -> 0..MaxAttempts]
         /\ \A j \in Items : Present(j)' <=> attempts'[j] # 0
         /\ stream' \in Seq(Change)
         /\ failedImages' \in [Items -> SUBSET (0..MaxAttempts)]
<1>1. stream' \in Seq(Change)
  <2>1. [item |-> i, status |-> to, attempt |-> attempt] \in Change
    BY DEF Change
  <2>2. QED
    BY <2>1, AppendProperties DEF TypeOK, Write
<1>2. failedImages' \in [Items -> SUBSET (0..MaxAttempts)]
  <2>1. CASE to = "FAILED"
    BY <2>1 DEF TypeOK, Write
  <2>2. CASE to # "FAILED"
    BY <2>2 DEF TypeOK, Write
  <2>3. QED
    BY <2>1, <2>2
<1>3. \A j \in Items : Present(j)' <=> attempts'[j] # 0
  BY DEF TypeOK, Write, Present, NoRow, ItemStatus, Decided
<1>4. QED
  BY <1>1, <1>2, <1>3 DEF TypeOK, Write, NoRow

\* A record of the stream keeps its place when another is appended.
LEMMA AppendKeeps ==
  ASSUME NEW S, NEW s \in Seq(S), NEW e \in S
  PROVE  /\ \A k \in DOMAIN s : k \in DOMAIN Append(s, e) /\ Append(s, e)[k] = s[k]
         /\ \E k \in DOMAIN Append(s, e) : Append(s, e)[k] = e
<1>1. Len(s) \in Nat /\ DOMAIN s = 1..Len(s)
  BY LenProperties
<1>2. /\ Append(s, e) \in Seq(S)
      /\ Len(Append(s, e)) = Len(s) + 1
      /\ \A k \in 1..Len(s) : Append(s, e)[k] = s[k]
      /\ Append(s, e)[Len(s) + 1] = e
  BY AppendProperties
<1>3. DOMAIN Append(s, e) = 1..Len(s) + 1
  BY <1>2, LenProperties
<1>4. QED
  BY <1>1, <1>2, <1>3

\* The records from a position on are the ones a suffix holds.
LEMMA SuffixKeeps ==
  ASSUME NEW S, NEW s \in Seq(S), NEW m \in 1..Len(s)+1
  PROVE  /\ SubSeq(s, m, Len(s)) \in Seq(S)
         /\ \A k \in m..Len(s) :
              \E j \in DOMAIN SubSeq(s, m, Len(s)) : SubSeq(s, m, Len(s))[j] = s[k]
<1>1. /\ Len(s) \in Nat /\ DOMAIN s = 1..Len(s)
      /\ \A k \in 1..Len(s) : s[k] \in S
  BY LenProperties, ElementOfSeq
<1>2. /\ SubSeq(s, m, Len(s)) \in Seq(S)
      /\ Len(SubSeq(s, m, Len(s))) = IF m <= Len(s) THEN Len(s) - m + 1 ELSE 0
      /\ \A k \in 1..Len(s)-m+1 : SubSeq(s, m, Len(s))[k] = s[m+k-1]
  BY <1>1, SubSeqProperties
<1>3. DOMAIN SubSeq(s, m, Len(s)) = 1..Len(SubSeq(s, m, Len(s)))
  BY <1>2, LenProperties
<1>4. ASSUME NEW k \in m..Len(s)
      PROVE  \E j \in DOMAIN SubSeq(s, m, Len(s)) : SubSeq(s, m, Len(s))[j] = s[k]
  <2>1. k - m + 1 \in 1..Len(s)-m+1 /\ m + (k - m + 1) - 1 = k
    BY <1>1
  <2>2. k - m + 1 \in DOMAIN SubSeq(s, m, Len(s))
    BY <1>1, <1>2, <1>3, <2>1
  <2>3. SubSeq(s, m, Len(s))[k - m + 1] = s[k]
    BY <1>2, <2>1
  <2>4. QED
    BY <2>2, <2>3
<1>5. QED
  BY <1>2, <1>4

-----------------------------------------------------------------------------
(* Type correctness.                                                       *)

\* Messages that enter the queue from the stream are messages of its events.
LEMMA PublishType ==
  ASSUME TypeOK, NEW n \in 1..StreamBatch, n <= Len(stream),
         NEW sent \in SUBSET Work(n), NEW names \in [sent -> Copies],
         Publish(sent, names)
  PROVE  queue' \subseteq Message
<1>1. \A k \in sent : k \in 1..Len(stream)
  BY BoundsAssumption, LenProperties DEF Work, TypeOK
<1>2. \A k \in sent : stream[k] \in Change
  BY <1>1, ElementOfSeq DEF TypeOK
<1>3. \A k \in sent : EventOf(stream[k]) \in ItemEvent
  BY <1>2 DEF EventOf, Change, ItemEvent
<1>4. \A k \in sent : [event |-> EventOf(stream[k]), copy |-> names[k],
                        receives |-> 0] \in Message
  BY <1>3, BoundsAssumption DEF Message
<1>5. QED
  BY <1>4 DEF Publish, TypeOK

LEMMA InitType == Init => TypeOK
<1> SUFFICES ASSUME Init PROVE TypeOK
  OBVIOUS
<1>1. queue \subseteq Message
  BY BoundsAssumption, ForeignAssumption DEF Init, Message, ItemEvent, ForeignEvent
<1>2. stream \in Seq(Change)
  BY EmptySeq DEF Init
<1>3. QED
  BY <1>1, <1>2, BoundsAssumption, ResendAssumption DEF Init, TypeOK, NoRow, Attempt, Present

LEMMA NextType == TypeOK /\ [Next]_vars => TypeOK'
<1> SUFFICES ASSUME TypeOK, [Next]_vars
             PROVE  TypeOK'
  OBVIOUS
<1> USE BoundsAssumption
<1>1. ASSUME Submitting PROVE TypeOK'
  <2>1. ASSUME NEW i \in Items, WriteRow(i) \/ RewriteRow(i) PROVE TypeOK'
    <3>1. Write(i, "QUEUED", 1) /\ "QUEUED" \in ItemStatus /\ 1 \in 0..MaxAttempts
      BY <2>1 DEF WriteRow, RewriteRow, ItemStatus
    <3>2. resent' \in [Items -> 0..MaxResends]
      <4>1. CASE WriteRow(i)
        BY <4>1 DEF WriteRow, submitVars, TypeOK
      <4>2. CASE RewriteRow(i)
        <5>1. resent[i] + 1 \in 0..MaxResends
          BY <4>2, ResendAssumption DEF RewriteRow, TypeOK
        <5>2. QED
          BY <4>2, <5>1 DEF RewriteRow, TypeOK
      <4>3. QED
        BY <2>1, <4>1, <4>2
    <3>3. UNCHANGED <<create, messageVars, retries, metricVars, deadLettered>>
      BY <2>1 DEF WriteRow, RewriteRow, submitVars
    <3>4. /\ status' \in [Items -> ItemStatus \cup NoRow]
          /\ attempts' \in [Items -> 0..MaxAttempts]
          /\ \A j \in Items : Present(j)' <=> attempts'[j] # 0
          /\ stream' \in Seq(Change)
          /\ failedImages' \in [Items -> SUBSET (0..MaxAttempts)]
      BY <3>1, WriteType
    <3>5. QED
      BY <3>2, <3>3, <3>4 DEF TypeOK, messageVars, metricVars
  <2>2. ASSUME NEW i \in Items, DeleteRow(i) PROVE TypeOK'
    <3>1. Write(i, "REMOVED", 0) /\ 0 \in 0..MaxAttempts
      BY <2>2 DEF DeleteRow
    <3>2. /\ status' \in [Items -> ItemStatus \cup NoRow]
          /\ attempts' \in [Items -> 0..MaxAttempts]
          /\ \A j \in Items : Present(j)' <=> attempts'[j] # 0
          /\ stream' \in Seq(Change)
          /\ failedImages' \in [Items -> SUBSET (0..MaxAttempts)]
      BY <3>1, WriteType
    <3>3. UNCHANGED <<submitVars, messageVars, retries, metricVars, deadLettered>>
      BY <2>2 DEF DeleteRow
    <3>4. QED
      BY <3>2, <3>3 DEF TypeOK, submitVars, messageVars, metricVars
  <2>3. ASSUME Recorded \/ WriteFails \/ NotRecorded PROVE TypeOK'
    BY <2>3 DEF Recorded, WriteFails, NotRecorded, TypeOK, Present, rowVars, messageVars,
                metricVars, historyVars
  <2>4. QED
    BY <1>1, <2>1, <2>2, <2>3 DEF Submitting
<1>2. ASSUME Relay PROVE TypeOK'
  <2>1. PICK n \in 1..StreamBatch :
          /\ n <= Len(stream)
          /\ \E sent \in SUBSET Work(n) : \E names \in [sent -> Copies] :
               \/ \E failed \in SUBSET Work(n), next \in 1..n+1 :
                    RelayBatch(n, sent, failed, names, next)
               \/ RelayDies(n, sent, names)
    BY <1>2 DEF Relay
  <2>2. PICK sent \in SUBSET Work(n) : \E names \in [sent -> Copies] :
               \/ \E failed \in SUBSET Work(n), next \in 1..n+1 :
                    RelayBatch(n, sent, failed, names, next)
               \/ RelayDies(n, sent, names)
    BY <2>1
  <2>3. PICK names \in [sent -> Copies] :
               \/ \E failed \in SUBSET Work(n), next \in 1..n+1 :
                    RelayBatch(n, sent, failed, names, next)
               \/ RelayDies(n, sent, names)
    BY <2>2
  <2>4. queue' \subseteq Message
    BY <2>1, <2>3, PublishType DEF RelayBatch, RelayDies
  <2>5. stream' \in Seq(Change)
    <3>1. ASSUME NEW failed \in SUBSET Work(n), NEW next \in 1..n+1,
                 RelayBatch(n, sent, failed, names, next)
          PROVE  stream' \in Seq(Change)
      <4>1. stream \in Seq(Change) /\ Len(stream) \in Nat
        BY LenProperties DEF TypeOK
      <4>2. next \in 1..Len(stream)+1
        BY <2>1, <4>1
      <4>3. QED
        BY <3>1, <4>1, <4>2, SuffixKeeps DEF RelayBatch
    <3>2. QED
      BY <2>3, <3>1 DEF RelayDies, TypeOK
  <2>6. QED
    BY <2>3, <2>4, <2>5 DEF RelayBatch, RelayDies, TypeOK, Present, rowVars, submitVars,
                            metricVars, historyVars
<1>3. ASSUME NEW m \in queue, Process(m) \/ Redrive(m) PROVE TypeOK'
  <2>1. m \in Message
    BY DEF TypeOK
  <2>2. ASSUME Process(m) PROVE TypeOK'
    <3>1. Received(m) \in Message
      BY <2>1, <2>2 DEF Process, ProcessFails, ProcessStale, ProcessReads,
                        Received, Message
    <3>2. Received(m).event = m.event
      BY <2>1 DEF Received, Message
    <3>3. /\ queue' \subseteq Message
          /\ evaluating' \subseteq {w \in Message : w.event.item \in Items}
      BY <2>2, <3>1, <3>2 DEF Process, ProcessFails, ProcessStale, ProcessReads, TypeOK
    <3>4. QED
      BY <2>2, <3>3 DEF Process, ProcessFails, ProcessStale, ProcessReads, TypeOK,
                        Present, rowVars, submitVars, metricVars, historyVars
  <2>3. ASSUME Redrive(m) PROVE TypeOK'
    <3>1. m.event.attempt \in 0..MaxAttempts
      BY <2>1 DEF Message, ItemEvent
    <3>2. deadLettered' \in [Items -> SUBSET (0..MaxAttempts)]
      BY <2>3, <3>1 DEF Redrive, TypeOK
    <3>3. QED
      BY <2>3, <3>2 DEF Redrive, TypeOK, Present, rowVars, submitVars, metricVars
  <2>4. QED
    BY <1>3, <2>2, <2>3
<1>4. ASSUME NEW m \in evaluating, Deciding(m) PROVE TypeOK'
  <2>1. m \in Message
    BY DEF TypeOK
  <2>2. ASSUME NEW emitted \in BOOLEAN, NEW deleted \in BOOLEAN,
               DecideMoves(m, emitted, deleted)
        PROVE  TypeOK'
    <3> DEFINE i == m.event.item
    <3>1. i \in Items
      BY DEF TypeOK
    <3>2. Verdict[i] \in ItemStatus /\ attempts[i] \in 0..MaxAttempts
      BY <3>1, VerdictAssumption DEF ItemStatus, Decided, TypeOK
    <3>3. Write(i, Verdict[i], attempts[i])
      BY <2>2 DEF DecideMoves
    <3>4. decidedLines' \in [Items -> Nat]
      <4>1. decidedLines \in [Items -> Nat] /\ decidedLines[i] + 1 \in Nat
        BY <3>1 DEF TypeOK
      <4>2. \/ decidedLines' = decidedLines
            \/ decidedLines' = [decidedLines EXCEPT ![i] = @ + 1]
        BY <2>2 DEF DecideMoves
      <4>3. QED
        BY <4>1, <4>2
    <3>5. QED
      <4>1. queue' \subseteq Message /\ evaluating' \subseteq evaluating
        BY <2>1, <2>2 DEF DecideMoves, TypeOK
      <4>2. Verdict[i] # "REMOVED" /\ attempts[i] # 0
        BY <2>2, <3>1, VerdictAssumption DEF DecideMoves, TypeOK
      <4>3. UNCHANGED <<create, resent, dlq, retries, failedLines, deadLettered>>
        BY <2>2 DEF DecideMoves, submitVars
      <4>4. /\ status' \in [Items -> ItemStatus \cup NoRow]
            /\ attempts' \in [Items -> 0..MaxAttempts]
            /\ \A j \in Items : Present(j)' <=> attempts'[j] # 0
            /\ stream' \in Seq(Change)
            /\ failedImages' \in [Items -> SUBSET (0..MaxAttempts)]
        BY <3>1, <3>2, <3>3, <4>2, WriteType
      <4>5. QED
        BY <3>4, <4>1, <4>3, <4>4 DEF TypeOK
  <2>3. ASSUME DecideLoses(m) \/ DecideFails(m) PROVE TypeOK'
    BY <2>1, <2>3 DEF DecideLoses, DecideFails, TypeOK, Present, rowVars, submitVars,
                      metricVars, historyVars
  <2>4. QED
    BY <1>4, <2>2, <2>3 DEF Deciding
<1>5. ASSUME NEW m \in dlq, DeadLetter(m) PROVE TypeOK'
  <2>1. ASSUME NEW emitted \in BOOLEAN, NEW deleted \in BOOLEAN,
               DeadLetterFails(m, emitted, deleted)
        PROVE  TypeOK'
    <3> DEFINE i == m.event.item
    <3>1. i \in Items /\ attempts[i] \in 0..MaxAttempts /\ "FAILED" \in ItemStatus
      BY <2>1 DEF DeadLetterFails, TypeOK, ItemStatus
    <3>2. Write(i, "FAILED", attempts[i])
      BY <2>1 DEF DeadLetterFails
    <3>3. failedLines' \in [Items -> [Attempt -> Nat]]
      <4>1. CASE emitted
        <5>1. m.event.attempt \in Attempt
          <6>1. attempts[i] = m.event.attempt /\ attempts[i] # 0
            BY <2>1, <3>1 DEF DeadLetterFails, FailCond, TypeOK
          <6>2. QED
            BY <3>1, <6>1, BoundsAssumption DEF Attempt
        <5>2. failedLines[i] \in [Attempt -> Nat]
          BY <3>1 DEF TypeOK
        <5>3. [failedLines[i] EXCEPT ![m.event.attempt] = @ + 1] \in [Attempt -> Nat]
          BY <5>1, <5>2
        <5>4. failedLines' = [failedLines EXCEPT ![i] =
                               [failedLines[i] EXCEPT ![m.event.attempt] = @ + 1]]
          BY <2>1, <4>1, <3>1 DEF DeadLetterFails, TypeOK
        <5>5. QED
          BY <3>1, <5>3, <5>4 DEF TypeOK
      <4>2. CASE ~emitted
        BY <2>1, <4>2 DEF DeadLetterFails, TypeOK
      <4>3. QED
        BY <4>1, <4>2
    <3>4. attempts[i] # 0 /\ dlq' \subseteq Message
      BY <2>1, <3>1 DEF DeadLetterFails, TypeOK
    <3>5. /\ status' \in [Items -> ItemStatus \cup NoRow]
          /\ attempts' \in [Items -> 0..MaxAttempts]
          /\ \A j \in Items : Present(j)' <=> attempts'[j] # 0
          /\ stream' \in Seq(Change)
          /\ failedImages' \in [Items -> SUBSET (0..MaxAttempts)]
      BY <3>1, <3>2, <3>4, WriteType
    <3>6. UNCHANGED <<create, resent, queue, evaluating, retries, decidedLines, deadLettered>>
      BY <2>1 DEF DeadLetterFails, submitVars
    <3>7. QED
      BY <3>3, <3>4, <3>5, <3>6 DEF TypeOK
  <2>2. ASSUME DeadLetterAcks(m) PROVE TypeOK'
    BY <2>2 DEF DeadLetterAcks, TypeOK, Present, rowVars, submitVars, metricVars, historyVars
  <2>3. QED
    BY <1>5, <2>1, <2>2 DEF DeadLetter
<1>6. ASSUME Operating PROVE TypeOK'
  <2>1. PICK o \in Operators :
          \/ \E i \in Items : RetryReads(o, i)
          \/ RetryFailedReads(o)
          \/ \E t \in retries[o], given \in SUBSET retries[o] : RetryMoves(o, t, given)
          \/ \E given \in SUBSET retries[o] : RetryEnds(o, given)
    BY <1>6 DEF Operating
  <2>2. ASSUME NEW i \in Items, RetryReads(o, i) PROVE TypeOK'
    <3>1. [item |-> i, attempt |-> attempts[i]] \in Ticket
      BY <2>2 DEF RetryReads, TypeOK, Ticket, Attempt
    <3>2. QED
      BY <2>2, <3>1 DEF RetryReads, TypeOK, Present, rowVars, submitVars, messageVars,
                        metricVars, historyVars
  <2>3. ASSUME RetryFailedReads(o) PROVE TypeOK'
    BY <2>3 DEF RetryFailedReads, FailedEntries, TypeOK, Present, rowVars, submitVars,
                messageVars, metricVars, historyVars
  <2>4. ASSUME NEW t \in retries[o], NEW given \in SUBSET retries[o],
               RetryMoves(o, t, given)
        PROVE  TypeOK'
    <3>1. t.item \in Items
      BY <2>4 DEF TypeOK, Ticket
    <3>2. attempts[t.item] + 1 \in 0..MaxAttempts /\ "QUEUED" \in ItemStatus
      BY <2>4, <3>1 DEF RetryMoves, RetryCond, TypeOK, ItemStatus
    <3>3. Write(t.item, "QUEUED", attempts[t.item] + 1)
      BY <2>4 DEF RetryMoves
    <3>4. /\ status' \in [Items -> ItemStatus \cup NoRow]
          /\ attempts' \in [Items -> 0..MaxAttempts]
          /\ \A j \in Items : Present(j)' <=> attempts'[j] # 0
          /\ stream' \in Seq(Change)
          /\ failedImages' \in [Items -> SUBSET (0..MaxAttempts)]
      <4>1. attempts[t.item] + 1 # 0
        BY <3>1, BoundsAssumption DEF TypeOK
      <4>2. QED
        BY <3>1, <3>2, <3>3, <4>1, WriteType
    <3>5. retries' \in [Operators -> SUBSET Ticket]
      BY <2>4 DEF RetryMoves, TypeOK
    <3>6. UNCHANGED <<create, resent, queue, evaluating, dlq, decidedLines, failedLines,
                      deadLettered>>
      BY <2>4 DEF RetryMoves, submitVars, messageVars, metricVars
    <3>7. QED
      BY <3>4, <3>5, <3>6 DEF TypeOK
  <2>5. ASSUME NEW given \in SUBSET retries[o], RetryEnds(o, given) PROVE TypeOK'
    BY <2>5 DEF RetryEnds, TypeOK, Present, rowVars, submitVars, messageVars, metricVars,
                historyVars
  <2>6. QED
    BY <2>1, <2>2, <2>3, <2>4, <2>5
<1>7. ASSUME NEW i \in Items, Cancel(i) PROVE TypeOK'
  <2>1. /\ Write(i, "CANCELLED", attempts[i]) /\ "CANCELLED" \in ItemStatus
        /\ attempts[i] \in 0..MaxAttempts /\ attempts[i] # 0
    BY <1>7 DEF Cancel, CancelCond, ItemStatus, TypeOK, Present, NoRow
  <2>2. /\ status' \in [Items -> ItemStatus \cup NoRow]
        /\ attempts' \in [Items -> 0..MaxAttempts]
        /\ \A j \in Items : Present(j)' <=> attempts'[j] # 0
        /\ stream' \in Seq(Change)
        /\ failedImages' \in [Items -> SUBSET (0..MaxAttempts)]
    BY <2>1, WriteType
  <2>3. UNCHANGED <<submitVars, messageVars, retries, metricVars, deadLettered>>
    BY <1>7 DEF Cancel
  <2>4. QED
    BY <2>2, <2>3 DEF TypeOK, submitVars, messageVars, metricVars
<1>8. CASE UNCHANGED vars
  BY <1>8 DEF vars, rowVars, submitVars, messageVars, metricVars, historyVars, TypeOK,
                 Present
<1>9. QED
  BY <1>1, <1>2, <1>3, <1>4, <1>5, <1>6, <1>7, <1>8 DEF Next

\* The state always has its types; in particular no row and no pending retry is
\* ever past MaxAttempts, and no message past MaxReceives.
THEOREM TypeCorrect == Spec => []TypeOK
BY InitType, NextType, PTL DEF Spec

-----------------------------------------------------------------------------
(* No queued item is forgotten.                                            *)

\* A write leaves the stream's work where it is and puts the row's own work on
\* the stream when it queues the row.
LEMMA WriteKeepsWork ==
  ASSUME TypeOK, NEW i \in Items,
         NEW to \in ItemStatus \cup {"REMOVED"}, NEW attempt \in 0..MaxAttempts,
         Write(i, to, attempt)
  PROVE  /\ \A j \in Items, a \in 0..MaxAttempts : OnStream(j, a) => OnStream(j, a)'
         /\ to = "QUEUED" => OnStream(i, attempt)'
<1> DEFINE rec == [item |-> i, status |-> to, attempt |-> attempt]
<1>1. rec \in Change
  BY DEF Change
<1>2. stream' = Append(stream, rec) /\ stream \in Seq(Change)
  BY DEF Write, TypeOK
<1>3. /\ \A k \in DOMAIN stream : k \in DOMAIN stream' /\ stream'[k] = stream[k]
      /\ \E k \in DOMAIN stream' : stream'[k] = rec
  BY <1>1, <1>2, AppendKeeps
<1>4. ASSUME NEW j \in Items, NEW a \in 0..MaxAttempts, OnStream(j, a)
      PROVE  OnStream(j, a)'
  BY <1>3, <1>4 DEF OnStream
<1>5. ASSUME to = "QUEUED" PROVE OnStream(i, attempt)'
  BY <1>3, <1>5 DEF OnStream
<1>6. QED
  BY <1>4, <1>5

\* A write that leaves the messages of the other items alone loses no work.
LEMMA WriteLosesNoWork ==
  ASSUME TypeOK, NoWorkLost, NEW i \in Items,
         NEW to \in ItemStatus \cup {"REMOVED"}, NEW attempt \in 0..MaxAttempts,
         Write(i, to, attempt),
         \A m \in queue \cup evaluating \cup dlq :
           m.event.item # i => m \in (queue \cup evaluating \cup dlq)'
  PROVE  NoWorkLost'
<1> SUFFICES ASSUME NEW j \in Items, status'[j] = "QUEUED"
             PROVE  WorkExists(j, attempts[j])'
  BY DEF NoWorkLost
<1>1. attempts[j] \in 0..MaxAttempts
  BY DEF TypeOK
<1>2. CASE j = i
  <2>1. to = "QUEUED" /\ attempts'[j] = attempt
    BY <1>2 DEF Write, TypeOK
  <2>2. OnStream(i, attempt)'
    BY <2>1, WriteKeepsWork
  <2>3. QED
    BY <1>2, <2>1, <2>2 DEF WorkExists, OnStream
<1>3. CASE j # i
  <2>1. status[j] = "QUEUED" /\ attempts'[j] = attempts[j]
    BY <1>3 DEF Write, TypeOK
  <2>2. WorkExists(j, attempts[j])
    BY <2>1 DEF NoWorkLost
  <2>3. CASE OnStream(j, attempts[j])
    <3>1. \E k \in DOMAIN stream' : stream'[k] =
            [item |-> j, status |-> "QUEUED", attempt |-> attempts[j]]
      BY <1>1, <2>3, WriteKeepsWork DEF OnStream
    <3>2. QED
      BY <2>1, <3>1 DEF WorkExists, OnStream
  <2>4. CASE AsMessage(j, attempts[j])
    <3>1. PICK m \in queue \cup evaluating \cup dlq :
            m.event = [item |-> j, attempt |-> attempts[j]]
      BY <2>4 DEF AsMessage
    <3>2. m \in (queue \cup evaluating \cup dlq)'
      BY <1>3, <3>1
    <3>3. QED
      BY <2>1, <3>1, <3>2 DEF WorkExists, AsMessage
  <2>5. QED
    BY <2>2, <2>3, <2>4 DEF WorkExists
<1>4. QED
  BY <1>2, <1>3

\* A step that writes no row loses no work when it keeps every record of work on
\* the stream or as a message, and drops only messages of rows that moved on.
LEMMA DeliveryLosesNoWork ==
  ASSUME TypeOK, NoWorkLost, UNCHANGED rowVars,
         \A i \in Items, a \in 0..MaxAttempts :
           OnStream(i, a) => WorkExists(i, a)',
         \A m \in queue \cup evaluating \cup dlq :
           \/ \E w \in (queue \cup evaluating \cup dlq)' : w.event = m.event
           \/ \A i \in Items : m.event = [item |-> i, attempt |-> attempts[i]]
                               => status[i] # "QUEUED"
  PROVE  NoWorkLost'
<1> SUFFICES ASSUME NEW i \in Items, status'[i] = "QUEUED"
             PROVE  WorkExists(i, attempts[i])'
  BY DEF NoWorkLost
<1>1. /\ status[i] = "QUEUED" /\ attempts'[i] = attempts[i]
      /\ attempts[i] \in 0..MaxAttempts
  BY DEF rowVars, TypeOK
<1>2. WorkExists(i, attempts[i])
  BY <1>1 DEF NoWorkLost
<1>3. CASE OnStream(i, attempts[i])
  <2> DEFINE a == attempts[i]
  <2>1. WorkExists(i, a)'
    BY <1>1, <1>3 DEF WorkExists, OnStream, AsMessage
  <2>2. QED
    BY <2>1
<1>4. CASE AsMessage(i, attempts[i])
  <2>1. PICK m \in queue \cup evaluating \cup dlq :
          m.event = [item |-> i, attempt |-> attempts[i]]
    BY <1>4 DEF AsMessage
  <2>2. PICK w \in (queue \cup evaluating \cup dlq)' : w.event = m.event
    BY <1>1, <2>1
  <2>3. QED
    BY <1>1, <2>1, <2>2 DEF WorkExists, AsMessage
<1>5. QED
  BY <1>2, <1>3, <1>4 DEF WorkExists

\* What a record of work reported failed leaves behind: the last record of its
\* event is reported too, and it is the same record.
LEMMA ReportedRecord ==
  ASSUME TypeOK, NEW n \in 1..StreamBatch, n <= Len(stream), NEW k \in Work(n)
  PROVE  SeqOf(n, k) \in Work(n) /\ stream[SeqOf(n, k)] = stream[k]
<1> DEFINE Same == {s \in Work(n) : EventOf(stream[s]) = EventOf(stream[k])}
<1>1. n \in Nat /\ Same \in SUBSET (1..n) /\ Same # {}
  BY BoundsAssumption DEF Work
<1>2. \E s \in Same : \A r \in Same : r <= s
  <2> HIDE DEF Same
  <2>1. QED
    BY <1>1, LastPosition
<1>3. \E s \in Work(n) :
        /\ EventOf(stream[s]) = EventOf(stream[k])
        /\ \A r \in Work(n) : EventOf(stream[r]) = EventOf(stream[k]) => r <= s
  BY <1>2
<1>4. SeqOf(n, k) \in Work(n) /\ EventOf(stream[SeqOf(n, k)]) = EventOf(stream[k])
  BY <1>3 DEF SeqOf
<1>5. \A s \in Work(n) : stream[s] \in Change /\ stream[s].status = "QUEUED"
  <2>1. \A s \in Work(n) : s \in 1..Len(stream) /\ stream[s].status = "QUEUED"
    BY <1>1, LenProperties DEF Work, TypeOK
  <2>2. QED
    BY <2>1, ElementOfSeq DEF TypeOK
<1>6. QED
  BY <1>4, <1>5 DEF EventOf, Change

\* An invocation of the relay that returns keeps every record of work: as a
\* message when it was sent, on the stream when it was not.
LEMMA RelayKeepsWork ==
  ASSUME TypeOK, NEW n \in 1..StreamBatch, n <= Len(stream),
         NEW sent \in SUBSET Work(n), NEW names \in [sent -> Copies],
         NEW failed \in SUBSET Work(n), NEW next \in 1..n+1,
         RelayBatch(n, sent, failed, names, next),
         NEW i \in Items, NEW a \in 0..MaxAttempts, OnStream(i, a)
  PROVE  WorkExists(i, a)'
<1> DEFINE rec == [item |-> i, status |-> "QUEUED", attempt |-> a]
<1>1. /\ stream \in Seq(Change) /\ Len(stream) \in Nat
      /\ DOMAIN stream = 1..Len(stream) /\ n \in Nat
  BY BoundsAssumption, LenProperties DEF TypeOK
<1>2. PICK k \in 1..Len(stream) : stream[k] = rec
  BY <1>1 DEF OnStream
<1>3. /\ next \in 1..Len(stream)+1
      /\ stream' = SubSeq(stream, next, Len(stream))
  BY <1>1 DEF RelayBatch
<1>4. ASSUME NEW p \in next..Len(stream), stream[p] = rec
      PROVE  OnStream(i, a)'
  <2>1. \E j \in DOMAIN stream' : stream'[j] = stream[p]
    BY <1>1, <1>3, SuffixKeeps
  <2>2. QED
    BY <1>4, <2>1 DEF OnStream
<1>5. CASE k \in sent
  <2>1. /\ EventOf(stream[k]) = [item |-> i, attempt |-> a]
        /\ [event |-> EventOf(stream[k]), copy |-> names[k], receives |-> 0] \in queue'
    BY <1>2, <1>5 DEF RelayBatch, Publish, EventOf
  <2>2. QED
    BY <2>1 DEF WorkExists, AsMessage
<1>6. CASE k \in failed
  <2>1. SeqOf(n, k) \in Work(n) /\ stream[SeqOf(n, k)] = rec
    BY <1>2, <1>6, ReportedRecord
  <2>2. next <= SeqOf(n, k)
    BY <1>6 DEF RelayBatch, Checkpoint
  <2>3. SeqOf(n, k) \in next..Len(stream)
    BY <1>1, <2>1, <2>2 DEF Work
  <2>4. QED
    BY <1>4, <2>1, <2>3 DEF WorkExists
<1>7. CASE k \notin Work(n)
  <2>1. k > n
    BY <1>1, <1>2, <1>7 DEF Work
  <2>2. k \in next..Len(stream)
    BY <1>1, <1>2, <2>1
  <2>3. QED
    BY <1>2, <1>4, <2>2 DEF WorkExists
<1>8. QED
  BY <1>5, <1>6, <1>7 DEF RelayBatch

LEMMA NextLosesNoWork == TypeOK /\ NoWorkLost /\ [Next]_vars => NoWorkLost'
<1> SUFFICES ASSUME TypeOK, NoWorkLost, [Next]_vars
             PROVE  NoWorkLost'
  OBVIOUS
<1> USE BoundsAssumption
<1>0. \A i \in Items, a \in 0..MaxAttempts :
        stream' = stream => (OnStream(i, a) => WorkExists(i, a)')
  BY DEF OnStream, WorkExists
<1>1. ASSUME Submitting PROVE NoWorkLost'
  <2>1. ASSUME NEW i \in Items, WriteRow(i) \/ RewriteRow(i) PROVE NoWorkLost'
    <3>1. Write(i, "QUEUED", 1) /\ "QUEUED" \in ItemStatus /\ 1 \in 0..MaxAttempts
      BY <2>1 DEF WriteRow, RewriteRow, ItemStatus
    <3>2. UNCHANGED <<queue, evaluating, dlq>>
      BY <2>1 DEF WriteRow, RewriteRow, messageVars
    <3>3. QED
      BY <3>1, <3>2, WriteLosesNoWork
  <2>2. ASSUME NEW i \in Items, DeleteRow(i) PROVE NoWorkLost'
    <3>1. Write(i, "REMOVED", 0) /\ 0 \in 0..MaxAttempts
      BY <2>2 DEF DeleteRow
    <3>2. UNCHANGED <<queue, evaluating, dlq>>
      BY <2>2 DEF DeleteRow, messageVars
    <3>3. QED
      BY <3>1, <3>2, WriteLosesNoWork
  <2>3. ASSUME Recorded \/ WriteFails \/ NotRecorded PROVE NoWorkLost'
    BY <1>0, <2>3, DeliveryLosesNoWork
       DEF Recorded, WriteFails, NotRecorded, messageVars
  <2>4. QED
    BY <1>1, <2>1, <2>2, <2>3 DEF Submitting
<1>2. ASSUME Relay PROVE NoWorkLost'
  <2>1. PICK n \in 1..StreamBatch :
          /\ n <= Len(stream)
          /\ \E sent \in SUBSET Work(n) : \E names \in [sent -> Copies] :
               \/ \E failed \in SUBSET Work(n), next \in 1..n+1 :
                    RelayBatch(n, sent, failed, names, next)
               \/ RelayDies(n, sent, names)
    BY <1>2 DEF Relay
  <2>2. ASSUME NEW sent \in SUBSET Work(n), NEW names \in [sent -> Copies],
               NEW failed \in SUBSET Work(n), NEW next \in 1..n+1,
               RelayBatch(n, sent, failed, names, next)
        PROVE  NoWorkLost'
    <3>1. \A i \in Items, a \in 0..MaxAttempts : OnStream(i, a) => WorkExists(i, a)'
      BY <2>1, <2>2, RelayKeepsWork
    <3>2. QED
      BY <2>2, <3>1, DeliveryLosesNoWork DEF RelayBatch, Publish
  <2>3. ASSUME NEW sent \in SUBSET Work(n), NEW names \in [sent -> Copies],
               RelayDies(n, sent, names)
        PROVE  NoWorkLost'
    BY <1>0, <2>3, DeliveryLosesNoWork DEF RelayDies, Publish
  <2>4. QED
    BY <2>1, <2>2, <2>3
<1>3. ASSUME NEW m \in queue, Process(m) \/ Redrive(m) PROVE NoWorkLost'
  <2>1. m \in Message /\ Received(m).event = m.event
    BY DEF TypeOK, Received, Message
  <2>2. ASSUME ProcessFails(m) \/ ProcessReads(m) \/ Redrive(m) PROVE NoWorkLost'
    BY <1>0, <2>1, <2>2, DeliveryLosesNoWork
       DEF ProcessFails, ProcessReads, Redrive
  <2>3. ASSUME ProcessStale(m) PROVE NoWorkLost'
    <3>1. \A i \in Items : m.event = [item |-> i, attempt |-> attempts[i]]
                           => status[i] # "QUEUED"
      BY <2>3 DEF ProcessStale, Stale
    <3>2. QED
      BY <1>0, <2>3, <3>1, DeliveryLosesNoWork DEF ProcessStale
  <2>4. QED
    BY <1>3, <2>2, <2>3 DEF Process
<1>4. ASSUME NEW m \in evaluating, Deciding(m) PROVE NoWorkLost'
  <2>1. ASSUME NEW emitted \in BOOLEAN, NEW deleted \in BOOLEAN,
               DecideMoves(m, emitted, deleted)
        PROVE  NoWorkLost'
    <3> DEFINE i == m.event.item
    <3>1. i \in Items
      BY DEF TypeOK
    <3>2. Verdict[i] \in ItemStatus /\ attempts[i] \in 0..MaxAttempts
      BY <3>1, VerdictAssumption DEF ItemStatus, Decided, TypeOK
    <3>3. Write(i, Verdict[i], attempts[i])
      BY <2>1 DEF DecideMoves
    <3>4. \A w \in queue \cup evaluating \cup dlq :
            w.event.item # i => w \in (queue \cup evaluating \cup dlq)'
      BY <2>1 DEF DecideMoves
    <3>5. QED
      BY <3>1, <3>2, <3>3, <3>4, WriteLosesNoWork
  <2>2. ASSUME DecideLoses(m) PROVE NoWorkLost'
    <3>1. \A i \in Items : m.event = [item |-> i, attempt |-> attempts[i]]
                           => status[i] # "QUEUED"
      BY <2>2 DEF DecideLoses, DecideCond
    <3>2. QED
      BY <1>0, <2>2, <3>1, DeliveryLosesNoWork DEF DecideLoses
  <2>3. ASSUME DecideFails(m) PROVE NoWorkLost'
    BY <1>0, <2>3, DeliveryLosesNoWork DEF DecideFails
  <2>4. QED
    BY <1>4, <2>1, <2>2, <2>3 DEF Deciding
<1>5. ASSUME NEW m \in dlq, DeadLetter(m) PROVE NoWorkLost'
  <2>1. ASSUME NEW emitted \in BOOLEAN, NEW deleted \in BOOLEAN,
               DeadLetterFails(m, emitted, deleted)
        PROVE  NoWorkLost'
    <3> DEFINE i == m.event.item
    <3>1. i \in Items /\ attempts[i] \in 0..MaxAttempts /\ "FAILED" \in ItemStatus
      BY <2>1 DEF DeadLetterFails, TypeOK, ItemStatus
    <3>2. Write(i, "FAILED", attempts[i])
      BY <2>1 DEF DeadLetterFails
    <3>3. \A w \in queue \cup evaluating \cup dlq :
            w.event.item # i => w \in (queue \cup evaluating \cup dlq)'
      BY <2>1 DEF DeadLetterFails
    <3>4. QED
      BY <3>1, <3>2, <3>3, WriteLosesNoWork
  <2>2. ASSUME DeadLetterAcks(m) PROVE NoWorkLost'
    <3>1. \A i \in Items : m.event = [item |-> i, attempt |-> attempts[i]]
                           => status[i] # "QUEUED"
      BY <2>2, ForeignAssumption DEF DeadLetterAcks, NothingToFail, FailCond, Present, NoRow
    <3>2. QED
      BY <1>0, <2>2, <3>1, DeliveryLosesNoWork DEF DeadLetterAcks
  <2>3. QED
    BY <1>5, <2>1, <2>2 DEF DeadLetter
<1>6. ASSUME Operating PROVE NoWorkLost'
  <2>1. PICK o \in Operators :
          \/ \E i \in Items : RetryReads(o, i)
          \/ RetryFailedReads(o)
          \/ \E t \in retries[o], given \in SUBSET retries[o] : RetryMoves(o, t, given)
          \/ \E given \in SUBSET retries[o] : RetryEnds(o, given)
    BY <1>6 DEF Operating
  <2>2. ASSUME NEW t \in retries[o], NEW given \in SUBSET retries[o],
               RetryMoves(o, t, given)
        PROVE  NoWorkLost'
    <3>1. t.item \in Items
      BY DEF TypeOK, Ticket
    <3>2. attempts[t.item] + 1 \in 0..MaxAttempts /\ "QUEUED" \in ItemStatus
      BY <2>2, <3>1 DEF RetryMoves, RetryCond, TypeOK, ItemStatus
    <3>3. Write(t.item, "QUEUED", attempts[t.item] + 1)
      BY <2>2 DEF RetryMoves
    <3>4. UNCHANGED <<queue, evaluating, dlq>>
      BY <2>2 DEF RetryMoves, messageVars
    <3>5. QED
      BY <3>1, <3>2, <3>3, <3>4, WriteLosesNoWork
  <2>3. ASSUME UNCHANGED <<rowVars, stream, messageVars>> PROVE NoWorkLost'
    BY <1>0, <2>3, DeliveryLosesNoWork DEF messageVars
  <2>4. QED
    BY <2>1, <2>2, <2>3 DEF RetryReads, RetryFailedReads, RetryEnds
<1>7. ASSUME NEW i \in Items, Cancel(i) PROVE NoWorkLost'
  <2>1. /\ Write(i, "CANCELLED", attempts[i]) /\ "CANCELLED" \in ItemStatus
        /\ attempts[i] \in 0..MaxAttempts
        /\ UNCHANGED <<queue, evaluating, dlq>>
    BY <1>7 DEF Cancel, ItemStatus, TypeOK, messageVars
  <2>2. QED
    BY <2>1, WriteLosesNoWork
<1>8. CASE UNCHANGED vars
  BY <1>0, <1>8, DeliveryLosesNoWork DEF vars, messageVars
<1>9. QED
  BY <1>1, <1>2, <1>3, <1>4, <1>5, <1>6, <1>7, <1>8 DEF Next

\* A row is QUEUED on an attempt only while a record or message of that attempt
\* is still to be relayed, processed or dead-lettered.
THEOREM QueuedWorkSurvives == Spec => []NoWorkLost
<1>1. Init => NoWorkLost
  BY DEF Init, NoWorkLost
<1>2. QED
  BY <1>1, NextLosesNoWork, TypeCorrect, PTL DEF Spec

-----------------------------------------------------------------------------
(* A failure belongs to its attempt.                                       *)

\* FailureIsOfItsAttempt is not inductive alone: Fail takes the attempt from a
\* dead letter, so each dead letter must be one the history knows.
DeadLettersAreKnown ==
  \A m \in dlq : m.event.item \in Items => m.event.attempt \in deadLettered[m.event.item]

FailureInv == FailureIsOfItsAttempt /\ DeadLettersAreKnown

\* Writing a row keeps the invariant when the history is kept and the attempts
\* the new row stands for are known to it.
LEMMA WriteKeepsFailure ==
  ASSUME TypeOK, FailureInv, NEW i \in Items,
         NEW to \in ItemStatus \cup {"REMOVED"}, NEW attempt \in 0..MaxAttempts,
         Write(i, to, attempt),
         deadLettered' = deadLettered, dlq' \subseteq dlq,
         to \in {"FAILED", "CANCELLED"} => attempt \in deadLettered[i],
         \A a \in Attempt : a < attempt => a \in deadLettered[i]
  PROVE  FailureInv'
<1>1. DeadLettersAreKnown'
  BY DEF FailureInv, DeadLettersAreKnown
<1>2. ASSUME NEW j \in Items
      PROVE  /\ status'[j] \in {"FAILED", "CANCELLED"} => attempts'[j] \in deadLettered'[j]
             /\ \A a \in Attempt : a < attempts'[j] => a \in deadLettered'[j]
  <2>1. CASE j = i
    BY <2>1 DEF Write, TypeOK
  <2>2. CASE j # i
    BY <2>2 DEF Write, TypeOK, FailureInv, FailureIsOfItsAttempt
  <2>3. QED
    BY <2>1, <2>2
<1>3. QED
  BY <1>1, <1>2 DEF FailureInv, FailureIsOfItsAttempt

LEMMA NextKeepsFailure == TypeOK /\ FailureInv /\ [Next]_vars => FailureInv'
<1> SUFFICES ASSUME TypeOK, FailureInv, [Next]_vars
             PROVE  FailureInv'
  OBVIOUS
<1> USE BoundsAssumption
<1>0. ASSUME UNCHANGED <<rowVars, dlq, deadLettered>> PROVE FailureInv'
  BY <1>0 DEF rowVars, FailureInv, FailureIsOfItsAttempt, DeadLettersAreKnown
<1>1. ASSUME Submitting PROVE FailureInv'
  <2>1. ASSUME NEW i \in Items, WriteRow(i) \/ RewriteRow(i) PROVE FailureInv'
    <3>1. /\ Write(i, "QUEUED", 1) /\ "QUEUED" \in ItemStatus /\ 1 \in 0..MaxAttempts
          /\ deadLettered' = deadLettered /\ dlq' = dlq
      BY <2>1 DEF WriteRow, RewriteRow, ItemStatus, messageVars
    <3>2. \A a \in Attempt : ~ (a < 1)
      BY DEF Attempt
    <3>3. QED
      BY <3>1, <3>2, WriteKeepsFailure
  <2>2. ASSUME NEW i \in Items, DeleteRow(i) PROVE FailureInv'
    <3>1. /\ Write(i, "REMOVED", 0) /\ 0 \in 0..MaxAttempts
          /\ deadLettered' = deadLettered /\ dlq' = dlq
      BY <2>2 DEF DeleteRow, messageVars
    <3>2. \A a \in Attempt : ~ (a < 0)
      BY DEF Attempt
    <3>3. QED
      BY <3>1, <3>2, WriteKeepsFailure
  <2>3. ASSUME Recorded \/ WriteFails \/ NotRecorded PROVE FailureInv'
    BY <1>0, <2>3 DEF Recorded, WriteFails, NotRecorded, messageVars, historyVars
  <2>4. QED
    BY <1>1, <2>1, <2>2, <2>3 DEF Submitting
<1>2. ASSUME Relay PROVE FailureInv'
  BY <1>0, <1>2 DEF Relay, RelayBatch, RelayDies, historyVars
<1>3. ASSUME NEW m \in queue, Process(m) \/ Redrive(m) PROVE FailureInv'
  <2>1. ASSUME Process(m) PROVE FailureInv'
    BY <1>0, <2>1 DEF Process, ProcessFails, ProcessStale, ProcessReads, historyVars
  <2>2. ASSUME Redrive(m) PROVE FailureInv'
    <3>1. \A i \in Items : deadLettered[i] \subseteq deadLettered'[i]
      BY <2>2 DEF Redrive, TypeOK
    <3>2. m.event.item \in Items => m.event.attempt \in deadLettered'[m.event.item]
      BY <2>2 DEF Redrive, TypeOK
    <3>3. DeadLettersAreKnown'
      BY <2>2, <3>1, <3>2 DEF Redrive, FailureInv, DeadLettersAreKnown
    <3>4. FailureIsOfItsAttempt'
      BY <2>2, <3>1 DEF Redrive, rowVars, FailureInv, FailureIsOfItsAttempt
    <3>5. QED
      BY <3>3, <3>4 DEF FailureInv
  <2>3. QED
    BY <1>3, <2>1, <2>2
<1>4. ASSUME NEW m \in evaluating, Deciding(m) PROVE FailureInv'
  <2>1. ASSUME NEW emitted \in BOOLEAN, NEW deleted \in BOOLEAN,
               DecideMoves(m, emitted, deleted)
        PROVE  FailureInv'
    <3> DEFINE i == m.event.item
    <3>1. i \in Items
      BY DEF TypeOK
    <3>2. /\ Verdict[i] \in ItemStatus /\ Verdict[i] \notin {"FAILED", "CANCELLED"}
          /\ attempts[i] \in 0..MaxAttempts
      BY <3>1, VerdictAssumption DEF ItemStatus, Decided, TypeOK
    <3>3. /\ Write(i, Verdict[i], attempts[i])
          /\ deadLettered' = deadLettered /\ dlq' = dlq
      BY <2>1 DEF DecideMoves
    <3>4. \A a \in Attempt : a < attempts[i] => a \in deadLettered[i]
      BY <3>1 DEF FailureInv, FailureIsOfItsAttempt
    <3>5. QED
      BY <3>1, <3>2, <3>3, <3>4, WriteKeepsFailure
  <2>2. ASSUME DecideLoses(m) \/ DecideFails(m) PROVE FailureInv'
    BY <1>0, <2>2 DEF DecideLoses, DecideFails, historyVars
  <2>3. QED
    BY <1>4, <2>1, <2>2 DEF Deciding
<1>5. ASSUME NEW m \in dlq, DeadLetter(m) PROVE FailureInv'
  <2>1. ASSUME NEW emitted \in BOOLEAN, NEW deleted \in BOOLEAN,
               DeadLetterFails(m, emitted, deleted)
        PROVE  FailureInv'
    <3> DEFINE i == m.event.item
    <3>1. i \in Items /\ attempts[i] \in 0..MaxAttempts /\ "FAILED" \in ItemStatus
      BY <2>1 DEF DeadLetterFails, TypeOK, ItemStatus
    <3>2. /\ Write(i, "FAILED", attempts[i])
          /\ deadLettered' = deadLettered /\ dlq' \subseteq dlq
      BY <2>1 DEF DeadLetterFails
    <3>3. attempts[i] \in deadLettered[i]
      BY <2>1, <3>1 DEF DeadLetterFails, FailCond, FailureInv, DeadLettersAreKnown
    <3>4. \A a \in Attempt : a < attempts[i] => a \in deadLettered[i]
      BY <3>1 DEF FailureInv, FailureIsOfItsAttempt
    <3>5. QED
      BY <3>1, <3>2, <3>3, <3>4, WriteKeepsFailure
  <2>2. ASSUME DeadLetterAcks(m) PROVE FailureInv'
    BY <2>2 DEF DeadLetterAcks, rowVars, historyVars, FailureInv,
                FailureIsOfItsAttempt, DeadLettersAreKnown
  <2>3. QED
    BY <1>5, <2>1, <2>2 DEF DeadLetter
<1>6. ASSUME Operating PROVE FailureInv'
  <2>1. PICK o \in Operators :
          \/ \E i \in Items : RetryReads(o, i)
          \/ RetryFailedReads(o)
          \/ \E t \in retries[o], given \in SUBSET retries[o] : RetryMoves(o, t, given)
          \/ \E given \in SUBSET retries[o] : RetryEnds(o, given)
    BY <1>6 DEF Operating
  <2>2. ASSUME NEW t \in retries[o], NEW given \in SUBSET retries[o],
               RetryMoves(o, t, given)
        PROVE  FailureInv'
    <3> DEFINE i == t.item
    <3>1. i \in Items
      BY DEF TypeOK, Ticket
    <3>2. /\ attempts[i] \in Nat /\ attempts[i] + 1 \in 0..MaxAttempts
          /\ "QUEUED" \in ItemStatus
      BY <2>2, <3>1 DEF RetryMoves, RetryCond, TypeOK, ItemStatus
    <3>3. /\ Write(i, "QUEUED", attempts[i] + 1)
          /\ deadLettered' = deadLettered /\ dlq' = dlq
      BY <2>2 DEF RetryMoves, messageVars
    <3>4. \A a \in Attempt : a < attempts[i] + 1 => a \in deadLettered[i]
      BY <2>2, <3>1, <3>2
         DEF RetryMoves, RetryCond, FailureInv, FailureIsOfItsAttempt, Attempt
    <3>5. QED
      BY <3>1, <3>2, <3>3, <3>4, WriteKeepsFailure
  <2>3. ASSUME UNCHANGED <<rowVars, messageVars, historyVars>> PROVE FailureInv'
    BY <1>0, <2>3 DEF messageVars, historyVars
  <2>4. QED
    BY <2>1, <2>2, <2>3 DEF RetryReads, RetryFailedReads, RetryEnds
<1>7. ASSUME NEW i \in Items, Cancel(i) PROVE FailureInv'
  <2>1. /\ Write(i, "CANCELLED", attempts[i]) /\ "CANCELLED" \in ItemStatus
        /\ attempts[i] \in 0..MaxAttempts
        /\ deadLettered' = deadLettered /\ dlq' = dlq
    BY <1>7 DEF Cancel, ItemStatus, TypeOK, messageVars
  <2>2. /\ attempts[i] \in deadLettered[i]
        /\ \A a \in Attempt : a < attempts[i] => a \in deadLettered[i]
    BY <1>7 DEF Cancel, CancelCond, FailureInv, FailureIsOfItsAttempt
  <2>3. QED
    BY <2>1, <2>2, WriteKeepsFailure
<1>8. CASE UNCHANGED vars
  BY <1>0, <1>8 DEF vars, messageVars, historyVars
<1>9. QED
  BY <1>1, <1>2, <1>3, <1>4, <1>5, <1>6, <1>7, <1>8 DEF Next

\* A row fails, and is retried past an attempt, only after a message of that very
\* attempt used up its deliveries.
THEOREM FailuresAreEarned == Spec => []FailureIsOfItsAttempt
<1>1. Init => FailureInv
  BY DEF Init, FailureInv, FailureIsOfItsAttempt, DeadLettersAreKnown, Attempt
<1>2. FailureInv => FailureIsOfItsAttempt
  BY DEF FailureInv
<1>3. QED
  BY <1>1, <1>2, NextKeepsFailure, TypeCorrect, PTL DEF Spec
-----------------------------------------------------------------------------
(* What a step does to a row.                                              *)

\* A step that writes no row; the submit may end, and accepts only a whole batch.
NoWrite ==
  /\ UNCHANGED <<rowVars, resent, metricVars, failedImages>>
  /\ Recorded \/ (create = "accepted" <=> create' = "accepted")

\* The steps that write a row.
LEMMA RowSteps ==
  ASSUME [Next]_vars
  PROVE  \/ NoWrite
         \/ \E i \in Items : WriteRow(i) \/ RewriteRow(i) \/ DeleteRow(i) \/ Cancel(i)
         \/ \E m \in evaluating, emitted, deleted \in BOOLEAN :
              DecideMoves(m, emitted, deleted)
         \/ \E m \in dlq, emitted, deleted \in BOOLEAN :
              DeadLetterFails(m, emitted, deleted)
         \/ \E o \in Operators : \E t \in retries[o], given \in SUBSET retries[o] :
              RetryMoves(o, t, given)
<1> USE DEF NoWrite, rowVars, submitVars, historyVars, metricVars
<1>1. ASSUME Submitting
      PROVE  NoWrite \/ \E i \in Items : WriteRow(i) \/ RewriteRow(i) \/ DeleteRow(i)
  <2>1. Recorded \/ WriteFails \/ NotRecorded => NoWrite
    BY DEF Recorded, WriteFails, NotRecorded
  <2>2. QED
    BY <1>1, <2>1 DEF Submitting
<1>2. Relay => NoWrite
  BY DEF Relay, RelayBatch, RelayDies
<1>3. ASSUME NEW m \in queue, Process(m) \/ Redrive(m) PROVE NoWrite
  BY <1>3 DEF Process, ProcessFails, ProcessStale, ProcessReads, Redrive
<1>4. ASSUME NEW m \in evaluating, Deciding(m)
      PROVE  NoWrite \/ \E emitted, deleted \in BOOLEAN : DecideMoves(m, emitted, deleted)
  <2>1. DecideLoses(m) \/ DecideFails(m) => NoWrite
    BY DEF DecideLoses, DecideFails
  <2>2. QED
    BY <1>4, <2>1 DEF Deciding
<1>5. ASSUME NEW m \in dlq, DeadLetter(m)
      PROVE  NoWrite \/ \E emitted, deleted \in BOOLEAN : DeadLetterFails(m, emitted, deleted)
  <2>1. DeadLetterAcks(m) => NoWrite
    BY DEF DeadLetterAcks
  <2>2. QED
    BY <1>5, <2>1 DEF DeadLetter
<1>6. ASSUME Operating
      PROVE  NoWrite \/ \E o \in Operators :
               \E t \in retries[o], given \in SUBSET retries[o] : RetryMoves(o, t, given)
  <2>1. \A o \in Operators :
          /\ \A i \in Items : RetryReads(o, i) => NoWrite
          /\ RetryFailedReads(o) => NoWrite
          /\ \A given : RetryEnds(o, given) => NoWrite
    BY DEF RetryReads, RetryFailedReads, RetryEnds
  <2>2. QED
    BY <1>6, <2>1 DEF Operating
<1>7. UNCHANGED vars => NoWrite
  BY DEF vars
<1>8. QED
  BY <1>1, <1>2, <1>3, <1>4, <1>5, <1>6, <1>7 DEF Next

\* What one of them makes of its row, but for a put that is sent again.
OnceOnly(i, to, attempt) ==
  \/ /\ create # "accepted" /\ status[i] = "ABSENT"
     /\ to = "QUEUED" /\ attempt = 1 /\ UNCHANGED metricVars
  \/ /\ create \in {"undoing", "failed"} /\ Present(i)
     /\ to = "REMOVED" /\ attempt = 0 /\ UNCHANGED metricVars
  \/ /\ status[i] = "QUEUED" /\ to = Verdict[i] /\ attempt = attempts[i]
     /\ decidedLines' \in {decidedLines, [decidedLines EXCEPT ![i] = @ + 1]}
     /\ UNCHANGED failedLines
  \/ /\ status[i] = "QUEUED" /\ to = "FAILED" /\ attempt = attempts[i]
     /\ attempt \in Attempt
     /\ failedLines' \in {failedLines, [failedLines EXCEPT ![i][attempt] = @ + 1]}
     /\ UNCHANGED decidedLines
  \/ /\ status[i] = "FAILED" /\ to = "QUEUED" /\ attempt = attempts[i] + 1
     /\ attempts[i] < MaxAttempts /\ UNCHANGED metricVars
     /\ \E o \in Operators :
          [item |-> i, attempt |-> attempts[i]] \in retries[o] \ retries'[o]
  \/ /\ status[i] = "FAILED" /\ to = "CANCELLED" /\ attempt = attempts[i]
     /\ UNCHANGED metricVars

RowChange(i, to, attempt) ==
  /\ Write(i, to, attempt) /\ UNCHANGED create
  /\ \/ /\ status[i] # "ABSENT" /\ to = "QUEUED" /\ attempt = 1
        /\ resent' = [resent EXCEPT ![i] = @ + 1] /\ UNCHANGED metricVars
     \/ UNCHANGED resent /\ OnceOnly(i, to, attempt)

LEMMA RowOfStep ==
  ASSUME TypeOK, [Next]_vars, ~NoWrite
  PROVE  \E i \in Items : \E to, attempt : RowChange(i, to, attempt)
<1> USE DEF submitVars, metricVars, RowChange, OnceOnly
<1>1. ASSUME NEW i \in Items, WriteRow(i) \/ DeleteRow(i) \/ Cancel(i)
      PROVE  \/ /\ Write(i, "QUEUED", 1) /\ create # "accepted" /\ status[i] = "ABSENT"
             \/ Write(i, "REMOVED", 0) /\ create \in {"undoing", "failed"} /\ Present(i)
             \/ Write(i, "CANCELLED", attempts[i]) /\ status[i] = "FAILED"
  BY <1>1 DEF WriteRow, DeleteRow, Cancel, CancelCond
<1>2. ASSUME NEW i \in Items, WriteRow(i) \/ DeleteRow(i) \/ Cancel(i)
      PROVE  UNCHANGED create /\ UNCHANGED metricVars /\ UNCHANGED resent
  BY <1>2 DEF WriteRow, DeleteRow, Cancel
<1>3. ASSUME NEW m \in evaluating, NEW emitted \in BOOLEAN, NEW deleted \in BOOLEAN,
             DecideMoves(m, emitted, deleted)
      PROVE  /\ m.event.item \in Items
             /\ Write(m.event.item, Verdict[m.event.item], attempts[m.event.item])
             /\ status[m.event.item] = "QUEUED" /\ UNCHANGED create /\ UNCHANGED resent
             /\ decidedLines' \in {decidedLines, [decidedLines EXCEPT ![m.event.item] = @ + 1]}
             /\ UNCHANGED failedLines
  BY <1>3 DEF DecideMoves, DecideCond, TypeOK
<1>4. ASSUME NEW m \in dlq, NEW emitted \in BOOLEAN, NEW deleted \in BOOLEAN,
             DeadLetterFails(m, emitted, deleted)
      PROVE  /\ m.event.item \in Items
             /\ Write(m.event.item, "FAILED", attempts[m.event.item])
             /\ attempts[m.event.item] \in Attempt
             /\ status[m.event.item] = "QUEUED" /\ UNCHANGED create /\ UNCHANGED resent
             /\ failedLines' \in {failedLines,
                  [failedLines EXCEPT ![m.event.item][attempts[m.event.item]] = @ + 1]}
             /\ UNCHANGED decidedLines
  <2>1. attempts[m.event.item] = m.event.attempt /\ status[m.event.item] = "QUEUED"
        /\ m.event.item \in Items
    BY <1>4 DEF DeadLetterFails, FailCond
  <2>2. attempts[m.event.item] \in 0..MaxAttempts /\ attempts[m.event.item] # 0
    BY <2>1 DEF TypeOK, Present, NoRow
  <2>3. attempts[m.event.item] \in Attempt
    BY <2>2, BoundsAssumption DEF Attempt
  <2>4. QED
    BY <1>4, <2>1, <2>3 DEF DeadLetterFails
<1>5. ASSUME NEW o \in Operators, NEW t \in retries[o], NEW given \in SUBSET retries[o],
             RetryMoves(o, t, given)
      PROVE  /\ t.item \in Items
             /\ Write(t.item, "QUEUED", attempts[t.item] + 1)
             /\ status[t.item] = "FAILED" /\ attempts[t.item] < MaxAttempts
             /\ [item |-> t.item, attempt |-> attempts[t.item]] \in retries[o] \ retries'[o]
             /\ UNCHANGED create /\ UNCHANGED resent /\ UNCHANGED metricVars
  <2>1. t \in Ticket
    BY DEF TypeOK
  <2>2. t = [item |-> t.item, attempt |-> attempts[t.item]]
    BY <1>5, <2>1 DEF Ticket, RetryMoves, RetryCond
  <2>3. t \notin retries'[o]
    BY <1>5 DEF RetryMoves, TypeOK
  <2>4. QED
    BY <1>5, <2>1, <2>2, <2>3 DEF RetryMoves, RetryCond, Ticket
<1>6. CASE \E i \in Items : WriteRow(i) \/ DeleteRow(i) \/ Cancel(i)
  BY <1>6, <1>1, <1>2
<1>7. CASE \E m \in evaluating, emitted, deleted \in BOOLEAN : DecideMoves(m, emitted, deleted)
  BY <1>7, <1>3
<1>8. CASE \E m \in dlq, emitted, deleted \in BOOLEAN : DeadLetterFails(m, emitted, deleted)
  BY <1>8, <1>4
<1>9. CASE \E o \in Operators : \E t \in retries[o], given \in SUBSET retries[o] :
             RetryMoves(o, t, given)
  <2>1. PICK o \in Operators : \E t \in retries[o], given \in SUBSET retries[o] :
          RetryMoves(o, t, given)
    BY <1>9
  <2>2. PICK t \in retries[o], given \in SUBSET retries[o] : RetryMoves(o, t, given)
    BY <2>1
  <2>3. RowChange(t.item, "QUEUED", attempts[t.item] + 1) /\ t.item \in Items
    BY <1>5, <2>2
  <2>4. QED
    BY <2>3
<1>10. CASE \E i \in Items : RewriteRow(i)
  BY <1>10 DEF RewriteRow
<1>11. QED
  BY <1>6, <1>7, <1>8, <1>9, <1>10, RowSteps

-----------------------------------------------------------------------------
(* Outcomes, retries and the life cycle.                                   *)

\* A row that is not the one written stays.
LEMMA OthersStay ==
  ASSUME TypeOK, NEW i \in Items, NEW to, NEW attempt, Write(i, to, attempt), NEW j \in Items
  PROVE  /\ status'[j] = IF j = i THEN to ELSE status[j]
         /\ attempts'[j] = IF j = i THEN attempt ELSE attempts[j]
BY DEF Write, TypeOK

LEMMA StepKeepsOutcome ==
  ASSUME TypeOK, [Next]_vars, NEW j \in Items,
         status[j] \in Decided \cup {"CANCELLED"}
  PROVE  \/ status'[j] = status[j] /\ attempts'[j] = attempts[j]
         \/ status'[j] = "REMOVED" /\ create \in {"undoing", "failed"}
         \/ PutAgain(j)
<1>1. CASE NoWrite
  BY <1>1 DEF NoWrite, rowVars
<1>2. CASE ~NoWrite
  <2>1. PICK i \in Items : \E to, attempt : RowChange(i, to, attempt)
    BY <1>2, RowOfStep
  <2>2. PICK to, attempt : RowChange(i, to, attempt)
    BY <2>1
  <2>3. /\ status'[j] = IF j = i THEN to ELSE status[j]
        /\ attempts'[j] = IF j = i THEN attempt ELSE attempts[j]
    BY <2>2, OthersStay DEF RowChange
  <2>4. CASE j = i
    BY <2>2, <2>3, <2>4 DEF RowChange, OnceOnly, Decided, PutAgain, TypeOK
  <2>5. CASE j # i
    BY <2>3, <2>5
  <2>6. QED
    BY <2>4, <2>5
<1>3. QED
  BY <1>1, <1>2

\* A decided item keeps its decision and a cancelled one stays cancelled, whatever
\* duplicates, dead letters and operators do (the conditions of Decide, Fail, Retry
\* and Cancel); a delete of a batch not recorded and a put of Create sent again are
\* all that takes an outcome back.
THEOREM OutcomesAreFinal == Spec => OutcomeIsFinal
<1>1. TypeOK /\ [Next]_vars => [KeepsOutcomes]_vars
  BY StepKeepsOutcome DEF KeepsOutcomes
<1>2. Spec => []TypeOK
  BY TypeCorrect
<1>3. QED
  BY <1>1, <1>2, PTL DEF Spec, OutcomeIsFinal

LEMMA StepAnswersARead ==
  ASSUME TypeOK, [Next]_vars, NEW j \in Items,
         status[j] = "FAILED", status'[j] = "QUEUED", ~PutAgain(j)
  PROVE  \E o \in Operators :
           [item |-> j, attempt |-> attempts'[j] - 1] \in retries[o] \ retries'[o]
<1>1. ~NoWrite
  BY DEF NoWrite, rowVars
<1>2. PICK i \in Items : \E to, attempt : RowChange(i, to, attempt)
  BY <1>1, RowOfStep
<1>3. PICK to, attempt : RowChange(i, to, attempt)
  BY <1>2
<1>4. /\ status'[j] = IF j = i THEN to ELSE status[j]
      /\ attempts'[j] = IF j = i THEN attempt ELSE attempts[j]
  BY <1>3, OthersStay DEF RowChange
<1>5. j = i /\ to = "QUEUED"
  BY <1>4
<1>6. /\ attempt = attempts[j] + 1
      /\ \E o \in Operators :
           [item |-> j, attempt |-> attempts[j]] \in retries[o] \ retries'[o]
  BY <1>3, <1>4, <1>5, VerdictAssumption DEF RowChange, OnceOnly, PutAgain, TypeOK
<1>7. attempts[j] \in Nat
  BY DEF TypeOK
<1>8. attempts'[j] - 1 = attempts[j]
  BY <1>4, <1>5, <1>6, <1>7
<1>9. QED
  BY <1>6, <1>8

\* A failed item is queued again only on the attempt after one that an operator read
\* (Retry, and RetryMany under RetryFailed), or by a put of Create sent again.
THEOREM RetriesAnswerTheirRead == Spec => RetryAnswersItsRead
<1>1. TypeOK /\ [Next]_vars => [RetriesARead]_vars
  BY StepAnswersARead DEF RetriesARead
<1>2. Spec => []TypeOK
  BY TypeCorrect
<1>3. QED
  BY <1>1, <1>2, PTL DEF Spec, RetryAnswersItsRead

LEMMA StepOfLifecycle ==
  ASSUME TypeOK, [Next]_vars
  PROVE  [Lifecycle!Next]_(Lifecycle!vars)
<1> DEFINE accepted == create = "accepted"
<1>1. CASE NoWrite
  <2>1. CASE Recorded
    <3>1. ~accepted /\ \A i \in Items : status[i] \notin NoRow
      BY <2>1 DEF Recorded, Present
    <3>2. accepted' /\ UNCHANGED <<status, attempts, resent>>
      BY <2>1 DEF Recorded, rowVars
    <3>3. Lifecycle!Accept
      BY <3>1, <3>2 DEF Lifecycle!Accept, Lifecycle!NoRow, NoRow
    <3>4. QED
      BY <3>3 DEF Lifecycle!Next
  <2>2. CASE accepted <=> accepted'
    BY <1>1, <2>2 DEF NoWrite, rowVars, Lifecycle!vars
  <2>3. QED
    BY <1>1, <2>1, <2>2 DEF NoWrite
<1>2. CASE ~NoWrite
  <2>0. PICK i \in Items : \E to, attempt : RowChange(i, to, attempt)
    BY <1>2, RowOfStep
  <2>1. PICK to, attempt : RowChange(i, to, attempt)
    BY <2>0
  <2>2. /\ status' = [status EXCEPT ![i] = to]
        /\ attempts' = [attempts EXCEPT ![i] = attempt]
        /\ accepted' = accepted
    BY <2>1 DEF RowChange, Write
  <2> USE DEF Lifecycle!NoRow, Lifecycle!Move, Lifecycle!Place
  <2>3. CASE /\ resent' = resent /\ create # "accepted"
             /\ status[i] = "ABSENT" /\ to = "QUEUED" /\ attempt = 1
    BY <2>2, <2>3 DEF Lifecycle!Next, Lifecycle!Submit
  <2>4. CASE /\ resent' = resent /\ create \in {"undoing", "failed"}
             /\ Present(i) /\ to = "REMOVED" /\ attempt = 0
    BY <2>2, <2>4 DEF Lifecycle!Next, Lifecycle!Withdraw, Present, NoRow
  <2>5. CASE resent' = resent /\ status[i] = "QUEUED" /\ to = Verdict[i] /\ attempt = attempts[i]
    BY <2>2, <2>5 DEF Lifecycle!Next, Lifecycle!Decide
  <2>6. CASE resent' = resent /\ status[i] = "QUEUED" /\ to = "FAILED" /\ attempt = attempts[i]
    BY <2>2, <2>6 DEF Lifecycle!Next, Lifecycle!Fail
  <2>7. CASE /\ resent' = resent /\ status[i] = "FAILED" /\ to = "QUEUED"
             /\ attempt = attempts[i] + 1 /\ attempts[i] < MaxAttempts
    BY <2>2, <2>7 DEF Lifecycle!Next, Lifecycle!Retry
  <2>8. CASE resent' = resent /\ status[i] = "FAILED" /\ to = "CANCELLED" /\ attempt = attempts[i]
    BY <2>2, <2>8 DEF Lifecycle!Next, Lifecycle!Cancel
  <2>9. CASE /\ status[i] # "ABSENT" /\ to = "QUEUED" /\ attempt = 1
             /\ resent' = [resent EXCEPT ![i] = @ + 1]
    BY <2>2, <2>9 DEF Lifecycle!Next, Lifecycle!PutAgain
  <2>10. QED
    BY <2>1, <2>3, <2>4, <2>5, <2>6, <2>7, <2>8, <2>9 DEF RowChange, OnceOnly
<1>3. QED
  BY <1>1, <1>2

\* The pipeline implements the life cycle batch.Items promises: every step is one of
\* its steps, or none of its business (the conditions of the four transitions, the
\* rollback and Create's unconditional puts).
THEOREM Implementation == Spec => ImplementsLifecycle
<1>1. Init => Lifecycle!Init
  BY DEF Init, Lifecycle!Init
<1>2. TypeOK /\ [Next]_vars => [Lifecycle!Next]_(Lifecycle!vars)
  BY StepOfLifecycle
<1>3. Spec => []TypeOK
  BY TypeCorrect
<1>4. QED
  BY <1>1, <1>2, <1>3, PTL DEF Spec, ImplementsLifecycle, Lifecycle!Spec

-----------------------------------------------------------------------------
(* The batch that was accepted.                                            *)

Kept == create = "accepted" => \A i \in Items : Present(i)

LEMMA StepKeepsRows ==
  ASSUME TypeOK, Kept, [Next]_vars
  PROVE  Kept'
<1>1. CASE NoWrite
  BY <1>1 DEF NoWrite, Recorded, Kept, Present, rowVars
<1>2. CASE ~NoWrite
  <2>1. PICK i \in Items : \E to, attempt : RowChange(i, to, attempt)
    BY <1>2, RowOfStep
  <2>2. PICK to, attempt : RowChange(i, to, attempt)
    BY <2>1
  <2>3. create' = create /\ \A j \in Items : status'[j] = IF j = i THEN to ELSE status[j]
    BY <2>2, OthersStay DEF RowChange
  <2>4. create = "accepted" => to \notin NoRow
    BY <2>2, VerdictAssumption DEF RowChange, OnceOnly, NoRow, Kept, Present
  <2>5. QED
    BY <2>3, <2>4 DEF Kept, Present
<1>3. QED
  BY <1>1, <1>2

\* Once the client has its 202 no item is lost: each has a row, and a row that is
\* still queued has its work on the way, whatever was lost, duplicated, sent
\* again or dead-lettered since Create (Recorded, NoWorkLost).
Answerable(i) ==
  \/ status[i] \in Decided \cup {"FAILED", "CANCELLED"}
  \/ status[i] = "QUEUED" /\ WorkExists(i, attempts[i])

\* An accepted batch is answerable in every item.
THEOREM AcceptedIsAnswerable ==
  Spec => [](create = "accepted" => \A i \in Items : Answerable(i))
<1> DEFINE Promise == create = "accepted" => \A i \in Items : Answerable(i)
<1>1. Init => Kept
  BY DEF Init, Kept
<1>2. TypeOK /\ Kept /\ [Next]_vars => Kept'
  BY StepKeepsRows
<1>3. TypeOK /\ Kept /\ NoWorkLost => Promise
  BY DEF TypeOK, Kept, NoWorkLost, Answerable, Present, NoRow, ItemStatus, Decided
<1> HIDE DEF Promise
<1>4. Spec => []Promise
  BY <1>1, <1>2, <1>3, TypeCorrect, QueuedWorkSurvives, PTL DEF Spec
<1>5. QED
  BY <1>4 DEF Promise

-----------------------------------------------------------------------------
(* The metric lines.                                                       *)

\* A row that a step leaves alone.
LEMMA LinesOfUntouched ==
  ASSUME NEW j \in Items, LinesOf(j),
         status'[j] = status[j], attempts'[j] = attempts[j], resent'[j] = resent[j],
         decidedLines'[j] = decidedLines[j], failedLines'[j] = failedLines[j]
  PROVE  LinesOf(j)'
BY DEF LinesOf, Over

\* A step that writes a row leaves the lines of the others alone.
LEMMA LinesOfOthers ==
  ASSUME TypeOK, NEW i \in Items, NEW to, NEW attempt, RowChange(i, to, attempt),
         NEW j \in Items, j # i
  PROVE  /\ decidedLines'[j] = decidedLines[j] /\ failedLines'[j] = failedLines[j]
         /\ resent'[j] = resent[j]
BY DEF RowChange, OnceOnly, TypeOK, metricVars

\* The row written: an outcome makes room for the line it writes, a put sent again
\* for one line of each kind.
LEMMA LinesOfTheRow ==
  ASSUME TypeOK, NEW i \in Items, LinesOf(i), NEW to, NEW attempt,
         RowChange(i, to, attempt)
  PROVE  LinesOf(i)'
<1> DEFINE due    == IF status[i] \in Decided \cup {"REMOVED"} THEN 1 ELSE 0
           past(a) == IF Over(i, a) THEN 1 ELSE 0
<1>1. /\ decidedLines[i] \in Nat /\ resent[i] \in Nat /\ attempts[i] \in Nat
      /\ decidedLines[i] <= resent[i] + due
      /\ \A a \in Attempt : /\ a \in Nat \ {0} /\ failedLines[i][a] \in Nat
                            /\ failedLines[i][a] <= resent[i] + past(a)
  BY BoundsAssumption DEF TypeOK, LinesOf, Attempt
<1>2. status'[i] = to /\ attempts'[i] = attempt
  BY OthersStay DEF RowChange
<1>3. CASE resent' = [resent EXCEPT ![i] = @ + 1] /\ UNCHANGED metricVars
  <2>1. /\ resent'[i] = resent[i] + 1
        /\ decidedLines' = decidedLines /\ failedLines' = failedLines
    BY <1>3 DEF TypeOK, metricVars
  <2>2. due \in {0, 1} /\ \A a \in Attempt : past(a) \in {0, 1}
    OBVIOUS
  <2>3. decidedLines'[i] <= resent'[i] /\ \A a \in Attempt : failedLines'[i][a] <= resent'[i]
    BY <1>1, <2>1, <2>2
  <2>4. resent'[i] \in Nat
    BY <1>1, <2>1
  <2>5. QED
    BY <1>1, <2>1, <2>3, <2>4 DEF LinesOf
<1>4. CASE UNCHANGED resent /\ OnceOnly(i, to, attempt)
  <2>1. CASE UNCHANGED metricVars
    <3>1. due = 1 => to \in Decided \cup {"REMOVED"}
      BY <1>4, <2>1 DEF OnceOnly, Present, NoRow, Decided
    <3>2. ASSUME NEW a \in Attempt, Over(i, a) PROVE Over(i, a)'
      BY <1>1, <1>2, <1>4, <3>2 DEF OnceOnly, Over, TypeOK, Present, NoRow
    <3>3. QED
      BY <1>1, <1>2, <1>4, <2>1, <3>1, <3>2 DEF LinesOf, metricVars
  <2>2. CASE /\ status[i] = "QUEUED" /\ to = Verdict[i] /\ attempt = attempts[i]
             /\ decidedLines' \in {decidedLines, [decidedLines EXCEPT ![i] = @ + 1]}
             /\ UNCHANGED failedLines
    <3>1. to \in Decided /\ due = 0
      BY <2>2, VerdictAssumption DEF Decided
    <3>2. decidedLines'[i] <= resent[i] + 1
      BY <1>1, <2>2, <3>1 DEF TypeOK
    <3>3. ASSUME NEW a \in Attempt, Over(i, a) PROVE Over(i, a)'
      BY <1>2, <2>2, <3>3 DEF Over
    <3>4. QED
      BY <1>1, <1>2, <1>4, <2>2, <3>1, <3>2, <3>3 DEF LinesOf
  <2>3. CASE /\ status[i] = "QUEUED" /\ to = "FAILED" /\ attempt = attempts[i]
             /\ attempt \in Attempt
             /\ failedLines' \in {failedLines, [failedLines EXCEPT ![i][attempt] = @ + 1]}
             /\ UNCHANGED decidedLines
    <3>1. due = 0 /\ past(attempt) = 0
      BY <1>1, <2>3 DEF Decided, Over
    <3>2. failedLines'[i][attempt] <= resent[i] + 1
      BY <1>1, <2>3, <3>1 DEF TypeOK
    <3>3. \A a \in Attempt : a # attempt => failedLines'[i][a] = failedLines[i][a]
      BY <2>3 DEF TypeOK
    <3>4. Over(i, attempt)'
      BY <1>2, <2>3 DEF Over
    <3>5. ASSUME NEW a \in Attempt, Over(i, a) PROVE Over(i, a)'
      BY <1>2, <2>3, <3>5 DEF Over
    <3>6. ASSUME NEW a \in Attempt
          PROVE  failedLines'[i][a] <= resent[i] + (IF Over(i, a)' THEN 1 ELSE 0)
      BY <1>1, <3>2, <3>3, <3>4, <3>5
    <3>7. QED
      BY <1>1, <1>2, <1>4, <2>3, <3>1, <3>6 DEF LinesOf
  <2>4. QED
    BY <1>4, <2>1, <2>2, <2>3 DEF OnceOnly
<1>5. QED
  BY <1>3, <1>4 DEF RowChange

LEMMA StepKeepsLines ==
  ASSUME TypeOK, LinesCountOnce, [Next]_vars
  PROVE  LinesCountOnce'
<1> SUFFICES ASSUME NEW j \in Items PROVE LinesOf(j)'
  BY DEF LinesCountOnce
<1>1. LinesOf(j)
  BY DEF LinesCountOnce
<1>2. CASE NoWrite
  BY <1>1, <1>2, LinesOfUntouched DEF NoWrite, rowVars, metricVars
<1>3. CASE ~NoWrite
  <2>1. PICK i \in Items : \E to, attempt : RowChange(i, to, attempt)
    BY <1>3, RowOfStep
  <2>2. PICK to, attempt : RowChange(i, to, attempt)
    BY <2>1
  <2>3. CASE j = i
    BY <1>1, <2>2, <2>3, LinesOfTheRow
  <2>4. CASE j # i
    <3>1. status'[j] = status[j] /\ attempts'[j] = attempts[j]
      BY <2>2, <2>4, OthersStay DEF RowChange
    <3>2. QED
      BY <1>1, <2>2, <2>4, <3>1, LinesOfOthers, LinesOfUntouched
  <2>5. QED
    BY <2>3, <2>4
<1>4. QED
  BY <1>2, <1>3

\* Each outcome has at most one metric line, and none before it is reached, however
\* often its message is delivered and whatever answers are lost (the order of update
\* and line in Process and DeadLetter); each put sent again allows one line more.
THEOREM OneLineEach == Spec => []LinesCountOnce
<1>1. Init => LinesCountOnce
  BY DEF Init, LinesCountOnce, LinesOf
<1>2. TypeOK /\ LinesCountOnce /\ [Next]_vars => LinesCountOnce'
  BY StepKeepsLines
<1>3. QED
  BY <1>1, <1>2, TypeCorrect, PTL DEF Spec

=============================================================================
