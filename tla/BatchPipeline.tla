--------------------------- MODULE BatchPipeline ---------------------------
(***************************************************************************)
(* One batch from POST /evaluations/batch to the last decision: the rows   *)
(* of BatchItems, the table's stream, the relay, the EvaluationJobs queue, *)
(* the worker, the dead-letter queue, its consumer, and the operators who  *)
(* retry and cancel.                                                       *)
(*                                                                         *)
(* The steps are cut at the calls to the store and to the queues, which    *)
(* are the only places two actors meet. A handler that is killed or whose  *)
(* call fails is a step like any other: the call may have been applied or  *)
(* not, and the caller may have been told or not.                          *)
(***************************************************************************)
EXTENDS Integers, Sequences, FiniteSets

CONSTANTS
  Items,        \* the items of the batch
  MaxAttempts,  \* batch.MaxAttempts
  MaxReceives,  \* topology.maxReceiveCount: receives before the DLQ
  StreamBatch,  \* topology.streamBatchSize: records per relay invocation
  Copies,       \* names that tell the copies of one message apart; their
                \* number bounds the copies that exist at one time
  Operators,    \* concurrent callers of retry and retry-failed
  Verdict,      \* what the policy decides of each item's customer
  NoBatch,      \* stands for the item of a message that names no batch
  NoItem,       \* ... and of one that names a batch and no item of it
  Foreign,      \* which of the two are in the queue at the start
  MaxResends    \* bounds how often a put of one row is sent again

ASSUME BoundsAssumption ==
  /\ MaxAttempts \in Nat \ {0}
  /\ MaxReceives \in Nat \ {0}
  /\ StreamBatch \in Nat \ {0}
ASSUME VerdictAssumption == Verdict \in [Items -> {"APPROVED", "DENIED"}]
ASSUME ForeignAssumption ==
  /\ NoBatch \notin Items /\ NoItem \notin Items /\ NoBatch # NoItem
  /\ Foreign \subseteq {NoBatch, NoItem}
ASSUME ResendAssumption == MaxResends \in Nat

VARIABLES
  status,        \* BatchItems: each row's status, or why there is no row
  attempts,      \* BatchItems: each row's attempts
  create,        \* where Items.Create stands
  resent,        \* per row, the puts sent again that replaced what it was
  stream,        \* the stream records the relay has not checkpointed
  queue,         \* EvaluationJobs: messages that may be received
  evaluating,    \* messages between Process's read and its Decide
  dlq,           \* EvaluationJobsDLQ
  retries,       \* per operator, the conditional retries still to send
  decidedLines,  \* ItemDecided metric lines written per item
  failedLines,   \* ItemFailed metric lines written per item and attempt
  deadLettered,  \* history: the attempts of each item that reached the DLQ
  failedImages   \* history: the attempts on which each row was FAILED

rowVars     == <<status, attempts>>
submitVars  == <<create, resent>>
messageVars == <<queue, evaluating, dlq>>
metricVars  == <<decidedLines, failedLines>>
historyVars == <<deadLettered, failedImages>>
vars == <<rowVars, submitVars, stream, messageVars, retries, metricVars,
          historyVars>>

NoRow   == {"ABSENT", "REMOVED"}
Decided == {"APPROVED", "DENIED"}
ItemStatus == Decided \cup {"QUEUED", "FAILED", "CANCELLED"}

Attempt   == 1..MaxAttempts
Change    == [item : Items, status : ItemStatus \cup {"REMOVED"},
              attempt : 0..MaxAttempts]
ItemEvent == [item : Items \cup {NoBatch, NoItem}, attempt : 0..MaxAttempts]
Message   == [event : ItemEvent, copy : Copies, receives : 0..MaxReceives]
Ticket    == [item : Items, attempt : Attempt]

ForeignEvent(name) == [item |-> name, attempt |-> 0]

Init ==
  /\ status = [i \in Items |-> "ABSENT"]
  /\ attempts = [i \in Items |-> 0]
  /\ create = "writing"
  /\ resent = [i \in Items |-> 0]
  /\ stream = <<>>
  /\ queue = [event : {ForeignEvent(name) : name \in Foreign}, copy : Copies,
              receives : {0}]
  /\ evaluating = {}
  /\ dlq = {}
  /\ retries = [o \in Operators |-> {}]
  /\ decidedLines = [i \in Items |-> 0]
  /\ failedLines = [i \in Items |-> [a \in Attempt |-> 0]]
  /\ deadLettered = [i \in Items |-> {}]
  /\ failedImages = [i \in Items |-> {}]

-----------------------------------------------------------------------------
(* The table. Every write of a row puts one record on its stream.          *)

Present(i) == status[i] \notin NoRow

\* The row of i becomes (to, attempt), and the stream carries the new image.
Write(i, to, attempt) ==
  /\ status' = [status EXCEPT ![i] = to]
  /\ attempts' = [attempts EXCEPT ![i] = attempt]
  /\ stream' = Append(stream, [item |-> i, status |-> to, attempt |-> attempt])
  /\ failedImages' = IF to = "FAILED"
                     THEN [failedImages EXCEPT ![i] = @ \cup {attempt}]
                     ELSE failedImages

\* Conditions a slip would leave: a term dropped, a status too many. The runs
\* show each of them breaking a property below.
OnAttempt(e)     == attempts[e.item] = e.attempt
AnyAttempt(e)    == status[e.item] = "QUEUED"
NoCap(t)         == status[t.item] = "FAILED" /\ attempts[t.item] = t.attempt
NoAttempt(t)     == status[t.item] = "FAILED" /\ attempts[t.item] < MaxAttempts
CancelsQueued(i) == status[i] \in {"FAILED", "QUEUED"}

\* The ConditionExpressions of the four transitions.
DecideCond(e) == status[e.item] = "QUEUED" /\ attempts[e.item] = e.attempt
FailCond(e)   == status[e.item] = "QUEUED" /\ attempts[e.item] = e.attempt
RetryCond(t)  == /\ status[t.item] = "FAILED"
                 /\ attempts[t.item] = t.attempt
                 /\ attempts[t.item] < MaxAttempts
CancelCond(i) == status[i] = "FAILED"

-----------------------------------------------------------------------------
(* Submit: Items.Create writes the rows in chunks and undoes them when one *)
(* chunk fails. A put or a delete whose call failed is still in flight: it *)
(* may land during the rollback and after Create answered its error. That  *)
(* none does after a success is SuccessIsWhole of BatchCreate.             *)

WriteRow(i) ==
  /\ create # "accepted"
  /\ status[i] = "ABSENT"
  /\ Write(i, "QUEUED", 1)
  /\ UNCHANGED <<submitVars, messageVars, retries, metricVars, deadLettered>>

\* BatchWriteItem puts are unconditional, and the SDK sends one again when its
\* answer was lost: the one of the two that lands last, during Create or long
\* after it, replaces the row as it then is. An identical put is no change.
RewriteRow(i) ==
  /\ resent[i] < MaxResends
  /\ status[i] # "ABSENT"
  /\ ~(status[i] = "QUEUED" /\ attempts[i] = 1)
  /\ Write(i, "QUEUED", 1)
  /\ resent' = [resent EXCEPT ![i] = @ + 1]
  /\ UNCHANGED <<create, messageVars, retries, metricVars, deadLettered>>

Recorded ==
  /\ create = "writing"
  /\ \A i \in Items : Present(i)
  /\ create' = "accepted"
  /\ UNCHANGED <<rowVars, resent, stream, messageVars, retries, metricVars,
                 historyVars>>

WriteFails ==
  /\ create = "writing"
  /\ create' = "undoing"
  /\ UNCHANGED <<rowVars, resent, stream, messageVars, retries, metricVars,
                 historyVars>>

DeleteRow(i) ==
  /\ create \in {"undoing", "failed"}
  /\ Present(i)
  /\ Write(i, "REMOVED", 0)
  /\ UNCHANGED <<submitVars, messageVars, retries, metricVars, deadLettered>>

\* The rollback ended, failed, ran out of time or was killed: the client has
\* an error, and the rows not deleted stay.
NotRecorded ==
  /\ create = "undoing"
  /\ create' = "failed"
  /\ UNCHANGED <<rowVars, resent, stream, messageVars, retries, metricVars,
                 historyVars>>

-----------------------------------------------------------------------------
(* Relay. One invocation takes the oldest records, publishes those whose   *)
(* image is QUEUED, and reports the ones it could not publish.             *)

EventOf(c) == [item |-> c.item, attempt |-> c.attempt]

Work(n) == {k \in 1..n : stream[k].status = "QUEUED"}

\* Handle keeps one sequence number per event ID, the last record that has it.
SeqOf(n, k) == CHOOSE s \in Work(n) :
  /\ EventOf(stream[s]) = EventOf(stream[k])
  /\ \A r \in Work(n) : EventOf(stream[r]) = EventOf(stream[k]) => r <= s

\* A relay that reports no failure.
ReportsNothing(n, failed, next) == next = n + 1

\* The mapping delivers again from the lowest record Handle reports, and
\* moves past the whole batch when it reports none.
Checkpoint(n, failed, next) ==
  LET reported == {SeqOf(n, k) : k \in failed}
  IN  IF failed = {} THEN next = n + 1
      ELSE next \in reported /\ \A s \in reported : next <= s

Used == {<<m.event, m.copy>> : m \in queue \cup evaluating \cup dlq}

\* The records at the positions in sent become messages; names gives each its
\* copy, so no two messages are the same one.
Publish(sent, names) ==
  /\ \A k \in sent : <<EventOf(stream[k]), names[k]>> \notin Used
  /\ \A j, k \in sent :
       (names[j] = names[k] /\ EventOf(stream[j]) = EventOf(stream[k])) => j = k
  /\ queue' = queue \cup {[event |-> EventOf(stream[k]), copy |-> names[k],
                           receives |-> 0] : k \in sent}

\* The invocation returns. An entry may be sent and still be reported failed,
\* when the answer of its SendMessageBatch was lost.
RelayBatch(n, sent, failed, names, next) ==
  /\ sent \cup failed = Work(n)
  /\ Checkpoint(n, failed, next)
  /\ Publish(sent, names)
  /\ stream' = SubSeq(stream, next, Len(stream))
  /\ UNCHANGED <<rowVars, submitVars, evaluating, dlq, retries, metricVars,
                 historyVars>>

\* The invocation dies or fails as a whole after some sends: nothing moves on.
RelayDies(n, sent, names) ==
  /\ sent \subseteq Work(n)
  /\ Publish(sent, names)
  /\ UNCHANGED <<rowVars, submitVars, stream, evaluating, dlq, retries,
                 metricVars, historyVars>>

Relay ==
  \E n \in 1..StreamBatch :
    /\ n <= Len(stream)
    /\ \E sent \in SUBSET Work(n) : \E names \in [sent -> Copies] :
         \/ \E failed \in SUBSET Work(n), next \in 1..n+1 :
              RelayBatch(n, sent, failed, names, next)
         \/ RelayDies(n, sent, names)

-----------------------------------------------------------------------------
(* Worker: batch.Process on one message. A record that is not reported     *)
(* failed is deleted; any other outcome makes it visible again.            *)

\* A queue that never counts a receive.
NotCounted(m) == m

Received(m) == [m EXCEPT !.receives = @ + 1]

\* Process answers an error, or its invocation dies: the item does not exist
\* or is not named, or the read fails.
ProcessFails(m) ==
  /\ m \in queue
  /\ m.receives < MaxReceives
  /\ queue' = (queue \ {m}) \cup {Received(m)}
  /\ UNCHANGED <<rowVars, submitVars, stream, evaluating, dlq, retries,
                 metricVars, historyVars>>

\* The row already moved on from the event's attempt.
Stale(e) == status[e.item] # "QUEUED" \/ attempts[e.item] # e.attempt

ProcessStale(m) ==
  /\ m \in queue
  /\ m.receives < MaxReceives
  /\ m.event.item \in Items
  /\ Present(m.event.item)
  /\ Stale(m.event)
  /\ queue' = queue \ {m}
  /\ UNCHANGED <<rowVars, submitVars, stream, evaluating, dlq, retries,
                 metricVars, historyVars>>

ProcessReads(m) ==
  /\ m \in queue
  /\ m.receives < MaxReceives
  /\ m.event.item \in Items
  /\ Present(m.event.item)
  /\ ~Stale(m.event)
  /\ queue' = queue \ {m}
  /\ evaluating' = evaluating \cup {Received(m)}
  /\ UNCHANGED <<rowVars, submitVars, stream, dlq, retries, metricVars,
                 historyVars>>

\* The conditional write wins. Whether the metric line follows and whether the
\* message is deleted depends on the answer: it may be lost (redelivered, no
\* line), be sent again by the SDK and then meet its own write (deleted, no
\* line), or the invocation may die after the line (redelivered).
DecideMoves(m, emitted, deleted) ==
  /\ m \in evaluating
  /\ Present(m.event.item)
  /\ DecideCond(m.event)
  /\ Write(m.event.item, Verdict[m.event.item], attempts[m.event.item])
  /\ evaluating' = evaluating \ {m}
  /\ queue' = IF deleted THEN queue ELSE queue \cup {m}
  /\ decidedLines' = IF emitted
                     THEN [decidedLines EXCEPT ![m.event.item] = @ + 1]
                     ELSE decidedLines
  /\ UNCHANGED <<submitVars, dlq, retries, failedLines, deadLettered>>

\* The row moved on after the read: ErrInvalidTransition, acknowledged.
DecideLoses(m) ==
  /\ m \in evaluating
  /\ Present(m.event.item)
  /\ ~DecideCond(m.event)
  /\ evaluating' = evaluating \ {m}
  /\ UNCHANGED <<rowVars, submitVars, stream, queue, dlq, retries, metricVars,
                 historyVars>>

\* The store fails, the row is gone (ErrNotFound), or the invocation dies.
DecideFails(m) ==
  /\ m \in evaluating
  /\ evaluating' = evaluating \ {m}
  /\ queue' = queue \cup {m}
  /\ UNCHANGED <<rowVars, submitVars, stream, dlq, retries, metricVars,
                 historyVars>>

\* SQS moves a message that used up its receives to the dead-letter queue.
Redrive(m) ==
  /\ m \in queue
  /\ m.receives = MaxReceives
  /\ queue' = queue \ {m}
  /\ dlq' = dlq \cup {m}
  /\ deadLettered' = IF m.event.item \in Items
       THEN [deadLettered EXCEPT ![m.event.item] = @ \cup {m.event.attempt}]
       ELSE deadLettered
  /\ UNCHANGED <<rowVars, submitVars, stream, evaluating, retries, metricVars,
                 failedImages>>

-----------------------------------------------------------------------------
(* DLQ consumer: batch.DeadLetter on one message. A store error leaves the *)
(* message in the DLQ, which is no change. For a message that names a batch *)
(* and no item the update fails each time: its key is not valid, which is   *)
(* neither ErrNotFound nor ErrInvalidTransition.                           *)

DeadLetterFails(m, emitted, deleted) ==
  /\ m \in dlq
  /\ m.event.item \in Items
  /\ Present(m.event.item)
  /\ FailCond(m.event)
  /\ Write(m.event.item, "FAILED", attempts[m.event.item])
  /\ dlq' = IF deleted THEN dlq \ {m} ELSE dlq
  /\ failedLines' = IF emitted
       THEN [failedLines EXCEPT ![m.event.item][m.event.attempt] = @ + 1]
       ELSE failedLines
  /\ UNCHANGED <<submitVars, queue, evaluating, retries, decidedLines,
                 deadLettered>>

\* A consumer that acknowledges whatever happened, and one that retries a
\* message of an item that does not exist.
AcksAnything(e)   == TRUE
AcksStaleOnly(e)  == e.item \in Items /\ Present(e.item) /\ ~FailCond(e)

\* No batch is named, the item has no row (ErrNotFound), or the row moved on:
\* acknowledged.
NothingToFail(e) ==
  \/ e.item = NoBatch
  \/ e.item \in Items /\ (Present(e.item) => ~FailCond(e))

DeadLetterAcks(m) ==
  /\ m \in dlq
  /\ NothingToFail(m.event)
  /\ dlq' = dlq \ {m}
  /\ UNCHANGED <<rowVars, submitVars, stream, queue, evaluating, retries,
                 metricVars, historyVars>>

-----------------------------------------------------------------------------
(* Operators. Retry and RetryFailed first read, then send one conditional  *)
(* update per item they read; a ticket is an update not yet sent.          *)

Serving == create \in {"accepted", "failed"}

\* Retry reads its item consistently, whatever its status.
RetryReads(o, i) ==
  /\ Serving
  /\ retries[o] = {}
  /\ Present(i)
  /\ retries' = [retries EXCEPT
                   ![o] = {[item |-> i, attempt |-> attempts[i]]}]
  /\ UNCHANGED <<rowVars, submitVars, stream, messageVars, metricVars,
                 historyVars>>

\* RetryFailed reads the by-status index page by page. The index lags behind
\* the table by a delay that differs per item, so a page shows each item as it
\* was at some earlier time, or does not show it.
FailedEntries ==
  {t \in Ticket : t.attempt \in failedImages[t.item] /\ t.attempt < MaxAttempts}

RetryFailedReads(o) ==
  /\ Serving
  /\ retries[o] = {}
  /\ \E page \in SUBSET FailedEntries :
       /\ \A t, u \in page : t.item = u.item => t = u
       /\ retries' = [retries EXCEPT ![o] = page]
  /\ UNCHANGED <<rowVars, submitVars, stream, messageVars, metricVars,
                 historyVars>>

\* One conditional retry wins. When its answer is lost the operator is told of
\* an error, and the updates not yet started are given up.
RetryMoves(o, t, given) ==
  /\ t \in retries[o]
  /\ given \subseteq retries[o] \ {t}
  /\ Present(t.item)
  /\ RetryCond(t)
  /\ Write(t.item, "QUEUED", attempts[t.item] + 1)
  /\ retries' = [retries EXCEPT ![o] = (@ \ {t}) \ given]
  /\ UNCHANGED <<submitVars, messageVars, metricVars, deadLettered>>

\* An item that cannot be retried is skipped, or the store fails, or the HTTP
\* invocation is gone, and what was not started is given up.
RetryEnds(o, given) ==
  /\ retries[o] # {}
  /\ given # {}
  /\ given \subseteq retries[o]
  /\ retries' = [retries EXCEPT ![o] = @ \ given]
  /\ UNCHANGED <<rowVars, submitVars, stream, messageVars, metricVars,
                 historyVars>>

Cancel(i) ==
  /\ Serving
  /\ CancelCond(i)
  /\ Write(i, "CANCELLED", attempts[i])
  /\ UNCHANGED <<submitVars, messageVars, retries, metricVars, deadLettered>>

-----------------------------------------------------------------------------
Submitting ==
  \/ Recorded
  \/ WriteFails
  \/ NotRecorded
  \/ \E i \in Items : WriteRow(i) \/ RewriteRow(i) \/ DeleteRow(i)

Process(m) ==
  \/ ProcessFails(m)
  \/ ProcessStale(m)
  \/ ProcessReads(m)

Deciding(m) ==
  \/ \E emitted, deleted \in BOOLEAN : DecideMoves(m, emitted, deleted)
  \/ DecideLoses(m)
  \/ DecideFails(m)

DeadLetter(m) ==
  \/ \E emitted, deleted \in BOOLEAN : DeadLetterFails(m, emitted, deleted)
  \/ DeadLetterAcks(m)

Operating ==
  \E o \in Operators :
    \/ \E i \in Items : RetryReads(o, i)
    \/ RetryFailedReads(o)
    \/ \E t \in retries[o], given \in SUBSET retries[o] : RetryMoves(o, t, given)
    \/ \E given \in SUBSET retries[o] : RetryEnds(o, given)

Next ==
  \/ Submitting
  \/ Relay
  \/ \E m \in queue : Process(m) \/ Redrive(m)
  \/ \E m \in evaluating : Deciding(m)
  \/ \E m \in dlq : DeadLetter(m)
  \/ Operating
  \/ \E i \in Items : Cancel(i)

Spec == Init /\ [][Next]_vars

-----------------------------------------------------------------------------
(* Fairness: the pollers of the stream and of the queues never stop, so a   *)
(* record or message waiting for one is taken; SQS accepts a publish and    *)
(* DynamoDB a dead-letter update again and again until one works. Nothing   *)
(* is assumed of the worker: it may fail every message it is given.         *)

\* An invocation of the relay that publishes everything it is given.
RelaySucceeds ==
  \E n \in 1..StreamBatch :
    /\ n <= Len(stream)
    /\ \E names \in [Work(n) -> Copies] :
         RelayBatch(n, Work(n), {}, names, n + 1)

Waiting(e, c, box) == {m \in box : m.event = e /\ m.copy = c}

Fairness ==
  /\ SF_vars(RelaySucceeds)
  /\ \A e \in ItemEvent, c \in Copies :
       /\ WF_vars(\E m \in Waiting(e, c, queue) : Process(m) \/ Redrive(m))
       /\ WF_vars(\E m \in Waiting(e, c, evaluating) : Deciding(m))
       /\ WF_vars(\E m \in Waiting(e, c, dlq) : DeadLetter(m))

FairSpec == Spec /\ Fairness

-----------------------------------------------------------------------------
(* Properties.                                                             *)

\* Every part of the state has its type; in particular no row, message or
\* pending retry is past MaxAttempts (the cap in Items.Retry's condition), no
\* message is received more than MaxReceives times. Exactly the rows that exist
\* are on an attempt.
TypeOK ==
  /\ status \in [Items -> ItemStatus \cup NoRow]
  /\ attempts \in [Items -> 0..MaxAttempts]
  /\ \A i \in Items : Present(i) <=> attempts[i] # 0
  /\ create \in {"writing", "undoing", "accepted", "failed"}
  /\ resent \in [Items -> 0..MaxResends]
  /\ stream \in Seq(Change)
  /\ queue \subseteq Message
  /\ evaluating \subseteq {m \in Message : m.event.item \in Items}
  /\ dlq \subseteq Message
  /\ retries \in [Operators -> SUBSET Ticket]
  /\ decidedLines \in [Items -> Nat]
  /\ failedLines \in [Items -> [Attempt -> Nat]]
  /\ deadLettered \in [Items -> SUBSET (0..MaxAttempts)]
  /\ failedImages \in [Items -> SUBSET (0..MaxAttempts)]

\* The work of item i on attempt a is still on its way: as a record of the
\* stream, or as a message in the queue, at the worker or in the DLQ.
OnStream(i, a) ==
  \E k \in DOMAIN stream :
    stream[k] = [item |-> i, status |-> "QUEUED", attempt |-> a]
AsMessage(i, a) ==
  \E m \in queue \cup evaluating \cup dlq : m.event = [item |-> i, attempt |-> a]
WorkExists(i, a) == OnStream(i, a) \/ AsMessage(i, a)

\* No queued item is ever forgotten: as long as a row is QUEUED on an attempt, a
\* record or message of that very attempt is on its way to the worker or to the
\* DLQ consumer, whatever was acknowledged, lost, duplicated or redriven
\* (Relay's failures, Process and DeadLetter's acknowledgements).
NoWorkLost ==
  \A i \in Items : status[i] = "QUEUED" => WorkExists(i, attempts[i])

\* A failure belongs to its attempt: a row is FAILED, or was retried past an
\* attempt, only when a message of that very attempt used up its receives. A
\* late dead letter of an older attempt fails nothing (Fail's condition).
FailureIsOfItsAttempt ==
  \A i \in Items :
    /\ status[i] \in {"FAILED", "CANCELLED"} => attempts[i] \in deadLettered[i]
    /\ \A a \in Attempt : a < attempts[i] => a \in deadLettered[i]

\* The attempt a of item i has had its outcome.
Over(i, a) ==
  \/ status[i] = "REMOVED"
  \/ a < attempts[i]
  \/ a = attempts[i] /\ status[i] # "QUEUED"

\* The lines of an item and what they count. A put sent again starts the item
\* anew, so it allows one line more of each kind.
LinesOf(i) ==
  /\ decidedLines[i] <=
       resent[i] + (IF status[i] \in Decided \cup {"REMOVED"} THEN 1 ELSE 0)
  /\ \A a \in Attempt :
       failedLines[i][a] <= resent[i] + (IF Over(i, a) THEN 1 ELSE 0)

\* The metrics count each outcome of each item at most once, and none before it
\* is reached, however often its message is delivered; a put of the submit that
\* is sent again, and nothing else, makes room for a second line.
LinesCountOnce == \A i \in Items : LinesOf(i)

\* The step is a put of Create sent again over the row of i.
PutAgain(i) == resent'[i] = resent[i] + 1 /\ status'[i] = "QUEUED" /\ attempts'[i] = 1

\* What a step may do to an item whose outcome is known.
KeepsOutcomes ==
  \A i \in Items : status[i] \in Decided \cup {"CANCELLED"} =>
    \/ status'[i] = status[i] /\ attempts'[i] = attempts[i]
    \/ status'[i] = "REMOVED" /\ create \in {"undoing", "failed"}
    \/ PutAgain(i)

\* A decided item keeps its decision, and a cancelled one stays cancelled, under
\* every interleaving of duplicates, dead letters and operators; only the deletes
\* of a batch that was not recorded and a put sent again take an outcome back.
OutcomeIsFinal == [][KeepsOutcomes]_vars

\* A step that queues a failed item again sends an update some operator holds,
\* unless it is a put sent again.
RetriesARead ==
  \A i \in Items : status[i] = "FAILED" /\ status'[i] = "QUEUED" =>
    \/ PutAgain(i)
    \/ \E o \in Operators :
         [item |-> i, attempt |-> attempts'[i] - 1] \in retries[o] \ retries'[o]

\* A retry moves the failure its operator saw: a failed item is queued again only
\* on the attempt after one that some operator read, which is the attempt Retry
\* answers, however long ago the read was (Retry's and RetryFailed's tickets).
RetryAnswersItsRead == [][RetriesARead]_vars

\* The pipeline implements the life cycle batch.Items promises of an item.
Lifecycle == INSTANCE ItemLifecycle WITH accepted <- (create = "accepted")
ImplementsLifecycle == Lifecycle!Spec

\* Every queued item is settled: it leaves the attempt it is queued on, decided
\* or failed (or removed by a rollback), even if the worker never succeeds.
QueuedIsSettled ==
  \A i \in Items, a \in Attempt :
    (status[i] = "QUEUED" /\ attempts[i] = a) ~>
      ~(status[i] = "QUEUED" /\ attempts[i] = a)

\* Every message ends: duplicates, messages of removed rows and messages that
\* name no batch drain, none circulates for ever between the queues. What stays
\* is in the DLQ and names a batch but no item (see NamelessIsAcknowledged).
MessagesDrain ==
  <>[](queue = {} /\ evaluating = {} /\ \A m \in dlq : m.event.item = NoItem)

-----------------------------------------------------------------------------
(* What the documents say and the pipeline does not keep.                  *)

\* batch.ErrNotRecorded: "the batch was not stored and nothing was published."
NotRecordedNothingPublished ==
  create = "failed" => \A m \in queue : m.event.item \notin Items

\* batch.Module.DeadLetter: "an event that names no item, or whose item already
\* moved on, is acknowledged so it does not loop in the DLQ."
NamelessIsAcknowledged == <>[](\A m \in dlq : m.event.item \in Items)

=============================================================================
