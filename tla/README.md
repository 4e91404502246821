# TLA+ verification of the credit card engine

The engine evaluates credit card customers. A single customer is decided in the
request; a batch is stored as one row per customer and decided in the
background by a pipeline of a DynamoDB stream, two SQS queues and four Lambda
functions. This directory holds TLA+ models of that system, the TLC
configurations that check them, and machine-checked proofs. Paths below are
relative to `src/`; `engine/` stands for `apps/engine/internal/`.

## 1. Inventory

| Component | State it keeps | Operations | Talks to |
|---|---|---|---|
| Batch items, `engine/batch`, `engine/adapter/ddb/ddb.go` | `BatchItems`: status and attempts of each row; the `by-status` index, which lags | Create (with rollback), Decide, Fail, Retry, RetryMany, Cancel, Item, Page | its stream feeds the relay |
| Relay, `engine/adapter/ddb/stream.go`, `batch.Relay` | the stream's checkpoint, kept by the event source mapping | Handle: publish the events whose image is QUEUED, report those not published | publisher |
| Publisher, `engine/adapter/sqspub` | none | Publish in chunks of ten, ten at once | EvaluationJobs queue |
| Worker, `engine/adapter/sqs`, `batch.Process` | none; the queue keeps messages and receive counts | Process: read, stale check, evaluate, Decide, metric line | items, metrics |
| Dead-letter consumer, `engine/adapter/sqs`, `batch.DeadLetter` | the DLQ's messages | DeadLetter: Fail or acknowledge | items, metrics |
| Operators, `batch.Retry`, `RetryFailed`, `Cancel` | what each call has read and not yet written | retry, retry-failed, cancel | items |
| Idempotency keys, `engine/idempotency`, `engine/adapter/ddb/idempotency.go` | `IdempotencyKeys`: owner, fingerprint, state, lease, expiry, response | Do: Claim, run, Complete or Release | wraps the two evaluation routes |
| Single evaluation, `engine/evaluate`, `engine/adapter/ddb/decisions.go` | `Decisions` | Evaluate (save, then answer), Get | policy |
| Policy, `engine/rules` | none (pure) | ordered rules, amount by score band, 64-bit arithmetic | |
| Validation and masking, `engine/domain` | none (pure) | Validate, CPF check digits, MaskCPF | |
| Report, `engine/batch/report.go` | none; a cursor travels with the client | ListItems page by page | items |
| HTTP API, `engine/adapter/httpapi` | none | routing, decoding, status codes | all of the above |
| Metrics, `engine/adapter/telemetry` | none (log lines) | Evaluated, ItemDecided, ItemFailed | |
| Infrastructure, `packages/infra-iac` | none at run time | event source mappings, redrive policy, timeouts, batch sizes | |

What is hard here, and hard to test:

- Every arrow between components may deliver twice, late, or not at all, and
  any invocation may die between two calls. The relay publishes again what it
  is not sure of; SQS redelivers; a message may be in the DLQ while a retry's
  message is in the queue.
- Nothing but the conditions of four conditional updates protects a row. Every
  actor reads first and writes later.
- A call whose answer is lost may have been applied. The SDK sends it again:
  conditional writes then meet their own effect, and unconditional batch puts
  overwrite what happened in between.
- Exclusion on an idempotency key rests on clocks: a lease against the Lambda's
  timeout, on hosts whose clocks differ.
- Submitting a batch is not atomic, and its rows are in the stream before the
  outcome is known.
- A page is several Querys over a table or a lagging index that others change
  between them, and a Query may stop early or say that more follows when nothing
  does.
- The publisher's goroutines share a semaphore, a mutex and a slice; which records
  come again depends on what each of them put there.

`PROJECT.json` lists every hazard at its line with the properties that cover it.

What makes each component correct: a row follows its life cycle and a decided
one never changes (items); a queued row's work is never lost (relay, queues,
consumers); a failure belongs to its attempt (dead letters); a retry moves the
failure its operator saw, within the cap (operators); at most one runs a key's
request, replays tell the truth and stay (keys); a batch is recorded whole or
undone as far as it can be seen (Create); an approval never grants more than is
left and never less to a better customer (policy); a change is passed only when its
work was sent (relay and publisher); a listing is in order, whole and ends (report);
what was answered stays on record and what was refused leaves nothing (evaluation).

## 2. Modules

| Module | Models | State and actions |
|---|---|---|
| `ItemLifecycle` | what `batch.Items` promises, with no queues and no failures | `status`, `attempts`, `resent` per item and `accepted`; Submit, Accept, Withdraw, PutAgain, Decide, Fail, Retry, Cancel |
| `BatchPipeline` | the composition: table, stream, relay, publisher, queue, worker, DLQ, its consumer, operators, submit | below |
| `BatchCreate` | `Items.Create` in detail: chunks, tries, deadline, rollback | below |
| `Idempotency` | `idempotency.Do` over `ddb.Keys` | below |
| `Policy` | `rules.Policy.Evaluate` with machine integers | below |
| `Publisher` | `Relay.Handle` and `sqspub.Publish` in detail: goroutines, semaphore, mutex, entry IDs | below |
| `RelayContract` | what the consumer of a stream promises so that no work is lost | `stream`, `position`, `sent`; Send, Pass |
| `Paging` | `ListItems` and `RetryFailed` over `Items.Page`, and `RetryMany` | below |
| `Evaluation` | the two evaluation routes, validation, `evaluate` and the Decisions table; extends `Policy` | below |
| `BatchPipelineProofs`, `BatchCreateProofs`, `IdempotencyProofs`, `PolicyProofs`, `PublisherProofs`, `PagingProofs`, `EvaluationProofs`, `IntegerFacts` | theorems, and what they share: integer division, last elements, sums over functions and sequences | section 5 |
| `MCBatchPipeline`, `MCIdempotency`, `MCPolicy`, `MCPublisher`, `MCPaging`, `MCEvaluation` | sets, symmetries and bounds for TLC | |

**BatchPipeline.** A step is one call to the store or a queue, because only
there do actors meet. `status` and `attempts` are the rows (`ABSENT` before a
row is written, `REMOVED` after a rollback deleted it); every change goes
through `Write`, which also appends the row's new image to `stream`, as
DynamoDB does. `create` is where Submit stands: rows appear one at a time
(`WriteRow`), all of them or an error, and an error deletes the rows the
rollback finds, in any order, and may stop at any point (`NotRecorded`) with
rows left. A put or delete whose call failed may still land after Create answered
its error, so `WriteRow` and `DeleteRow` end only with a success. `RewriteRow` is a
put that the SDK sends again after its answer was lost (`awsconfig` keeps the SDK's
default retries): it has no condition and replaces the row as it then is, during
Create or long after it. `resent` counts these puts and `MaxResends` bounds them.
`Relay` takes any prefix of the stream up to `StreamBatch`, which
also covers the mapping's bisection of a failed batch; any subset of its queued
records is sent and any subset reported failed, as long as every record is one
or the other (an entry may be both: sent, its answer lost). The checkpoint
follows `Relay.Handle`: one sequence number per event ID, the mapping restarts
from the lowest one reported. `Process` is split at its read: `ProcessReads`
moves the message to `evaluating`, and `DecideMoves`, `DecideLoses` or
`DecideFails` happens later, in whatever state the row is by then. The two
Booleans of `DecideMoves` and `DeadLetterFails` say whether the metric line was
written and whether the message was deleted, in the combinations that a lost
answer or a death between the calls produces. `Redrive` is the queue's policy
after `MaxReceives`. Operators read (`RetryReads`, or `RetryFailedReads` from an
index that shows each item as it was at any earlier moment or not at all) and
send conditional updates later (`RetryMoves`), or give up some (`RetryEnds`).
`Foreign` messages are those no item of the batch is named by: `NoBatch` has no
`batch_id` or does not parse, which the dead-letter consumer acknowledges; `NoItem`
has a `batch_id` and no `item_id`, for which every read and update fails, because its
key is not valid, so its dead letter is never acknowledged (`NothingToFail`).

**BatchCreate.** `transit` holds the requests DynamoDB has and has not applied;
`Land` applies one, whether its call is still open or not. `CallReturns` answers
with what is unprocessed, `CallErrs` drops some and leaves the others to land
later. A chunk's `batchWrite` goes idle, sending, waiting (backoff), done or
failed. `StartChunk` waits for a slot of the semaphore (`Holding`, `FreeSlot`) while
it writes, and for the chunk before while it deletes; that a chunk returns its slot
(`Holding`) is apart from the join that waits for the chunks (`Active`, `AllOver`). The clock only advances
while the context of the phase has not ended: a Go call returns at once when its
context ends, so everything that can happen at that moment happens before time
goes on. `Kill` is the Lambda's timeout.

**Idempotency.** One key. Callers are invocations, each with an owner of its own,
which begin at any time with any clock within `Skew` of the real one. A caller
claims, runs, and completes or releases; every write may be applied without its
answer being heard, may fail, or may land after its sender died (`lateclaim`,
`latestore`). `Run` may record without knowing. `Expired` compares whole
seconds and the lease compares milliseconds, as the conditions do (`Second` is
the number of ticks in a second). `Tick` never lets an invocation live past
`Timeout`. A take-over replaces the row; `DeleteExpired` is DynamoDB's TTL.

**Publisher.** One shard and one invocation at a time. `Invoke` takes a batch from
the checkpoint, `StartChunk` is the loop that waits for a slot and starts a
goroutine, and a goroutine is four steps: `SendReturns` (any part of the chunk
accepted, any entries refused, as long as each record is one or the other),
`Lock` and `Unlock` around the append, split at its read and its write, and
`Leaves`, which gives the slot back. `Answer` waits for all of them and moves the
checkpoint to the lowest record reported; `Dies` is a kill, which may leave accepted
what was in transit. The chunks, the place of an entry in its chunk and the last
record of an event are operators over the batch (`Chunk`, `Event`, `SeqOf`). It
implements `RelayContract` with `stream`, `position` and `sent` as they are.

**Paging.** `images` holds, for every item, the images its readers may still see: the
table is the last, a Query over the index sees any of them, item by item, until
`IndexFollows` forgets the oldest. `Change` is whatever workers, the dead-letter
consumer and other operators do to a row meanwhile. One action is one call to the
store: `Query` (from `start`, as many items as `Want`, or fewer when it stops at
1 MB), `Probe` (`more`), `MustExist`; a page that is complete is handed to its
caller in the same step (`ListsPage`, `Collects`). `NextPage` is the client coming back
with its cursor, at any later time. `StartRetry` and `RetryReturns` are the loop and
the goroutines of `RetryMany`; an update may be applied without its answer being
heard, or be sent again by the SDK and meet its own row. `steady`, `requeued` are
histories: what did not change since the operation began, and what a retry of this
call did move.

**Evaluation.** The handler is idle, has received a request, or waits for the put of
its decision. `Decides` is validation, the policy, the fresh ID and the put being
sent; `Lands` applies a put, `Resends` is the SDK sending it again, `SaveSucceeds` and
`SaveFails` are the two answers. `Submits` and `SubmitFails` are the batch route, with
`Items.Create` as one step whose failure leaves any of the rows. `Reads` is
`Decisions.Get`. CPFs are sequences of digits, punctuation and letters; `CpfCode`,
`checkDigit`, `Normalized` and `MaskCPF` compute what the code does with them.

`BatchPipeline` and `BatchCreate` implement `ItemLifecycle`: each has an
INSTANCE of it with a mapping of its state and checks `Lifecycle!Spec` as a
property (`ImplementsLifecycle`). `BatchPipeline`'s `WriteRow`, `DeleteRow`,
`Recorded` and `NotRecorded` are what `BatchCreate` does seen from outside, with its
requests that land after a failed Create (`Land` in phase "over"); what `BatchCreate`
does not have, the copy of a put that the SDK sends twice, is `RewriteRow`. The
pipeline's `Relay` is what `Publisher` does in many steps.

**Policy.** One customer that `Validate` let through is evaluated in one step.
`Rules` lists what each rule of `NewPolicy` says in its order, `Denying` the rules
that deny, and the first of them decides. Every product and sum goes through
`Wrap`, which keeps the low bits as int64 does, and `Quot` divides toward zero.
The cutoffs, the bands, the scale and the width are constants.

## 3. Runs

| Run | Instance | Checks | Shows |
|---|---|---|---|
| `duplicates` | 1 item, 2 attempts, 2 receives, 2 copies of each message, relay batches of 2 | `NoWorkLost`, `LinesCountOnce`, `FailureIsOfItsAttempt` | duplicates and late messages of both attempts, partial publishes, rollbacks, retries from a stale index |
| `operators` | 1 item, 2 attempts, 1 receive, 2 operators, a put sent again | `TypeOK`, `LinesCountOnce`, `OutcomeIsFinal`, `RetryAnswersItsRead`, `ImplementsLifecycle` | concurrent retries at the cap, a put that comes back at any time; refinement |
| `live` | 1 item, 2 attempts, a message of no batch and one of no item | `QueuedIsSettled`, `MessagesDrain` | everything queued is settled, every message ends but the one that cannot |
| `create` | 5 rows, chunks of 2, 2 in flight, 2 tries | `TypeOK`, `SuccessIsWhole`, `RollbackIsComplete`, `RollbackHasItsTime`, `CreateEnds`, `ImplementsLifecycle` | a chunk waits for the slot of one that may fail; Create succeeds whole or undoes what it can see |
| `idempotency` | 2 callers, up to 2 requests, skew 1, 8 ticks | `TypeOK`, `HolderHasTheRow`, `ReplayIsFaithful`, `InProgressIsBounded`, `NotRerunWithinLease`, `ResponseStays` | leases, take-overs, late writes, deaths before Complete, expiry |
| `publisher` | 32 shards of 5 records, chunks of 2, 2 in flight | `TypeOK`, `ImplementsContract`, `GoesBackToAFailure`, `PublishReturns` | every interleaving of the goroutines with refusals, duplicates of an event, kills |
| `paging` | 3 items, pages of 1 and 2, 2 attempts, 2 changes by others, 2 retries in flight | `TypeOK`, `ListedOnceInOrder`, `NothingSkipped`, `UnknownIsEmpty`, `CountedWereRequeued`, `CursorLeadsOn`, `CallsEnd` | listings and retry-failed over a batch that changes under them |
| `evaluation` | 2 requests, batches of 2, 37 bodies with 20 CPFs, 8-bit integers | `AnswersStayOnRecord`, `RefusedLeaveNothing`, `FitIsWhatIsStored` | what is answered stays on record, what is refused leaves nothing |
| `policy` | 4 scores, 8 limits and invoices, 3 late counts, 121 histories, 8-bit integers | `TypeOK`, `AmountIsAffordable`, `BetterNeverHurts`, `SpendWithinACent` | what an approval grants, whom the spend rule denies, with and without overflow |
| `notrecorded` | smallest | `NotRecordedNothingPublished` violated | section 6 |
| `nameless` | smallest, a message of no item | `NamelessIsAcknowledged` violated | section 6 |
| `policy_spend` | as `policy` | `SpendAboveShareIsDenied` violated | section 6 |

Deadlock checking is off in every configuration because the modelled world is
finite: one batch is decided and drained, one request ends, and nothing is left
to do. That they do not stop early is what the liveness properties say.

Bounds, and why they are enough:

- `MaxAttempts` is 5 in the code. The interplay of a message with a newer or
  older attempt needs two attempts; the cap under concurrent retries needs an
  attempt below it and one at it; two give both.
- `MaxReceives` is 5 in the code. One receive makes redrive possible at once;
  two make a redelivery possible before it.
- `Copies` bounds how many copies of one message exist at a time. A duplicate
  race needs two. The relay waits for a free name, so the bound also limits how
  often it publishes again before a copy is consumed.
- One item: no handler reads or writes the rows of two items at once. Items meet only in the
  checkpoint of a relay batch, in a page and in the chunks of Create, and there the
  runs `publisher`, `paging` and `create` have three to five of them. The theorems on
  the pipeline are for any set of items.
- `StreamBatch` (100 in the code) is 2: a batch with two records of the same item is the
  smallest in which one is sent and the other is not.
- `MaxResends` is 1 in `operators`: one put that comes back over a row in any state, each
  property saying what one such put may do. The other runs have none, and the theorems
  any number.
- Five rows in chunks of two are three chunks, one more than the slots, with a last one
  that is not full.
- `MaxClock`, `Lease`, `TTL`, `Timeout`, `Second` and `Skew` keep the order and
  slack of the code's values (lease 10 s over timeout 3 s, TTL 24 h) with the
  smallest numbers for which rounding to seconds, a take-over and an expiry all
  happen.
- `MCPolicy` counts shares in tenths and scores in hundreds, which is exact for
  every number in `NewPolicy`, and has 8-bit integers: limits to 15 times a share,
  limits to 14 times 9 and averages to 12 times 10 fit, larger ones overflow, and
  so does the sum of two months of 127. Histories are up to one longer than the
  window.
- `MCPublisher`'s shards begin with work and hold at most one record that is none,
  between others; five records make three chunks of at most two for two slots, with
  the same change twice in a batch and across two, so a chunk waits for a slot
  while two fail at once.
- `MCPaging` has failures under the cap, at the cap and one item that is neither; two
  changes by others are enough to take an item out of the index and put it back,
  or to change one on each side of a cursor. `MaxChanges` counts only what others do
  before the operation ends; nothing later is read.
- `MCEvaluation`'s CPFs have first digits whose weighted sums leave every remainder by
  11, plus one with each way to be wrong. Two requests are a first one and the
  client's next; an ID belongs to one request, so a third would add nothing.
- The proofs of section 5 hold for every value of the constants.

## 4. Fairness

`BatchPipeline.FairSpec` assumes that AWS keeps polling: each message in the
queue, at the worker and in the DLQ is taken in the end (weak fairness per
message); a relay invocation in which SQS accepts everything happens again and
again if it can (strong fairness on `RelaySucceeds`), which the mapping's retries
until the record expires justify. Nothing is assumed of the worker's outcome: it
may fail every message, and an item is then settled by the DLQ. For a dead
letter, weak fairness of its consumer includes the failing update being applied
in the end. Nothing is assumed of operators. `BatchCreate.FairSpec` assumes only
that something happens while something can: Go's scheduler runs, the SDK's calls
return, the clock goes on. `Publisher.FairSpec` assumes that goroutines are scheduled,
that calls to SQS return, with whatever answer, and that the handler goes on; SQS may
refuse for ever. `Paging.FairSpec` assumes that the handler goes on and that the
updates of `RetryMany` return; nothing is assumed of the index, of the client or of
who changes the batch. `Idempotency`, `Policy` and `Evaluation` have no liveness
property and no fairness.

## 5. Proofs

TLAPS checks the following for every value of the constants that meets the
named assumptions. They were all first checked by TLC on the instances above. Every
safety invariant and every action property that a run checks and finds true is a
theorem here.

`BatchPipelineProofs` (any items, attempts, receives, copies, operators):

- `TypeCorrect`: `Spec => []TypeOK`. `TypeOK` is inductive as it stands; the cap
  of `RetryCond` bounds the attempts and the redrive policy the receives.
- `QueuedWorkSurvives`: `Spec => []NoWorkLost`, inductive together with `TypeOK`.
  Every write that makes a row queued appends its record (`WriteLosesNoWork`).
  The delicate step is the relay's (`RelayKeepsWork`): a record behind the
  checkpoint was sent, because otherwise it was reported and `SeqOf` of its event
  is a reported record at or after it, so the checkpoint is not past that one,
  and the event is still on the stream there. That the last record of an event
  exists is `LastPosition`, by well-foundedness of finite sets of naturals.
  A message is deleted only by an acknowledgement that first saw the row past the
  message's attempt (`DeliveryLosesNoWork`).
- `AcceptedIsAnswerable`: after the 202 each item has a row, and the row is decided,
  failed or cancelled, or queued with its work on the way. `QueuedWorkSurvives`
  with `Kept`, the rows of an accepted batch: no step removes one.
- `FailuresAreEarned`: `Spec => []FailureIsOfItsAttempt`. Not inductive alone: the
  invariant `FailureInv` adds that the attempt of every message in the DLQ is
  recorded as dead-lettered (`DeadLettersAreKnown`).
- `RowOfStep` says of every step which one row it writes, if any, and under which
  condition. What follows from it holds however often puts of Create are sent again,
  and whenever they land; each statement says what such a put may do, and that
  nothing else does it:
  - `OutcomesAreFinal`: `Spec => OutcomeIsFinal`. Only a put sent again, or the rollback
    of a batch that was not recorded, takes a decision or a cancellation back.
  - `RetriesAnswerTheirRead`: `Spec => RetryAnswersItsRead`. Only a put sent again queues a
    failed item that no operator read.
  - `Implementation`: `Spec => ImplementsLifecycle`. A put sent again is the life cycle's
    `PutAgain`.
  - `OneLineEach`: `Spec => []LinesCountOnce`, inductive with `TypeOK`. Each put sent again
    starts its item anew and allows one line more of each kind (`LinesOf`).
  A line is written by the update that decides or fails, and an attempt that is over
  (`Over`) stays so unless a put sent again restarts it (`LinesOfTheRow`).

`IdempotencyProofs` (any callers, requests, lease, TTL, timeout, skew, tick, under
`LeaseAssumption`: timeout plus twice the skew is within the lease, the lease
within the TTL):

- `TypeCorrect`: `Spec => []TypeOK`, with the bounds on each host's clock and each
  invocation's age that the others rest on.
- `OneHolder`: `Spec => []HolderHasTheRow`. A claim can only win on a row whose
  holder's lease is over on the claimer's clock (`HolderIsNotOverrun`), which the
  assumption makes later than the holder's death; the rounding of `expires_at`
  is handled by monotonicity of integer division (`DivisionIsMonotone`).
- `ReplaysAreFaithful`: `Spec => []ReplayIsFaithful`, with the invariant
  `ReplayInv`: a row is of its owner's request and done only once the owner
  answered 2xx, and who answered 2xx recorded.
- `StoredResponsesStay`: `Spec => ResponseStays`, an action property from `TypeOK`.
- `LeasesEnd`: `Spec => []InProgressIsBounded`. `LeaseInv` adds that a pending row is free
  from one lease after its owner's reading of the clock on.
- `LeaseProtectsTheRun`: `Spec => []NotRerunWithinLease`. `KeyInv` says that the key
  stays with who answered 2xx, pending or done, until the lease is over on every
  clock; an expired row is past it because the lease is within the TTL.

`PolicyProofs` (any width, scale, cutoffs, window and customers; the bands ordered
as in `NewPolicy`, `BandsAssumption`). All rest on `ResultInvariant`: the result is
`Evaluate` of the customer.

- `TypeCorrect`: `Spec => []TypeOK`.
- `AmountsAreAffordable`: `Spec => []AmountIsAffordable`. The head room of an
  invoice within the limit never overflows (`HeadroomIsExact`); whatever the other
  operand wraps to, the clamp keeps the amount between it and zero.
- `BetterIsNeverWorse`: `Spec => []BetterNeverHurts`. The first band a better score
  reaches is not a later one (`ShareIsMonotone`), the product is exact where the
  larger one fits, and the quotient is monotone.
- `SpendIsWithinACent`: `Spec => []SpendWithinACent`. The machine's sum of a history is
  the exact one wrapped once (`MachineSum`), whatever the months before it wrapped to,
  so it is exact where the total fits (`AverageIsExact`); what the division rounds
  away is less than a cent (`WithinACent`).

`BatchCreateProofs` (any batch, chunk size, tries, chunks in flight and times, under
`CreateAssumption`: the rollback's time fits into the deadline):

- `TypeCorrect`: `Spec => []TypeOK`. How many chunks are under way is bounded because
  each of them holds a slot of the semaphore (`NoMoreAtWork`).
- `RecordedIsWhole`, `RolledBackIsGone`: `Spec => []SuccessIsWhole` and
  `Spec => []RollbackIsComplete`. A row is in exactly one chunk (`ChunkOfRow`,
  `ChunksAreDisjoint`); `ChunkInv` says that of every row of a chunk that has not
  failed, what is to be done is done, under way or still to be sent, and
  `FlightInv` that a put under way has no row yet. `ChunkStep` is the common part
  of every step of one chunk.
- `RollbackIsInTime`: `Spec => []RollbackHasItsTime`, from `TimeInv`.
- `Implementation`: `Spec => ImplementsLifecycle`, the refinement, step by step.
- `CreateIsFinite`: every step lowers, in this order, the phases to come, the calls the
  chunks may still make, or what is under way and the time left (`Nearer`), all
  natural numbers. The sum over the chunks is `SmallerSum` of `IntegerFacts`.

`PublisherProofs` (any shard, batch, chunk size and calls in flight):

- `TypeCorrect`: `Spec => []TypeOK`, with the number of calls in flight.
- `Implementation`: `Spec => ImplementsContract`. `GoroutineInv` says that a goroutine
  that had its answer knows of every record of its chunk that it was sent or refused,
  and that what was refused is in the slice once the goroutine wrote it; the mutex
  makes that hold although the append is a read and a write. `AnswerPasses` then
  shows that the checkpoint passes only what was sent or comes again.
- `GoesBackToFailures`: `Spec => GoesBackToAFailure`. `OriginInv` says that every ID
  in the slice of failures is of a refused record, whichever goroutine wrote it.
- `WorkIsSent`: when the checkpoint is behind the last record, every change of the shard
  that queues an item was accepted.
- `NobodyWaitsForEver`: in every state of an invocation the loop, a goroutine or the
  answer has a step to take. If all slots are taken some goroutine holds one, and if
  one waits for the mutex some goroutine holds it and is not waiting; `StartedInv`
  says that the goroutines started are those of the first chunks.
- `InvocationsAreFinite`: every step of an invocation but its last lowers the number of
  steps its goroutines have left.

`PagingProofs` (any batch, page size, cap, retries in flight and views of the index):

- `TypeCorrect`, `ListingsAreInOrder`, `NothingIsSkipped`, `CountsAreTrue` and
  `UnknownIsToldApart`: `TypeOK`, `ListedOnceInOrder`, `NothingSkipped`,
  `CountedWereRequeued` and `UnknownIsEmpty` are always true. The invariant is in six
  parts; the one that carries the rest is `CoverInv`: every item that has to be
  listed was taken, is on the page, or lies ahead of where the next Query starts.
  That a Query's rows are the next ones of its view is `RowsOfQuery`, and that an
  item that did not change is among them is `MustIsSelected`.
- `CursorsLeadOn`: `Spec => CursorLeadsOn`. `AheadInv` says that behind a cursor
  the client holds there is an item the next page shows unless something changes.
- `CallsAreFinite`: every step of a page or a retry-failed brings it nearer to its end:
  a later stage, a cursor or a Query further on, or fewer updates to make. What others
  do to the batch or the index does not take it back (`Advances`).

`EvaluationProofs` (any bodies, policy, batch size and number of requests):

- `AnsweredIsOnRecord`, `NothingOfTheRefused`: `Spec => []AnswersStayOnRecord` and
  `[]RefusedLeaveNothing`. The rows of one ID are equal, those in transit included
  (`RowInv`), so a put that lands late or is sent again changes nothing.
- `RowsAreOfTheirRequests`: no two different decisions are under one ID, in the table or
  under way, and the row of an ID a client was told is of the customer it asked about, as
  `Validate` normalised it, with the decision of the policy on that customer.
  `RequestInv` ties every put of an ID to the request that was answered with that ID.
- `FitIsStored`: `EvalSpec => []FitIsWhatIsStored`, for every CPF and not only those
  of the run. The sum the code folds over the digits is the official weighted sum
  (`WeightedSumIsSum`) and its digit the official one for every remainder
  (`CheckDigitIsOfficial`), so a CPF passes exactly if it is official (`CodeIsOfficial`).

What a fold computes for every input is an induction over data, and the library's
induction theorems cannot be used with these provers. `IntegerFacts` argues by the
smallest counterexample instead: `SmallestSubset` gives, by the well-foundedness of
finite sets, the smallest set of positions on which two functions that are defined
alike differ, and they agree below it (`SameFromBelow`). So a fold over a function is
what its defining equations say (`AddingUpIsSum`), and sums split, compare and change as
sums do (`SumSplits`, `EqualSums`, `SumChanges`, `SmallerSum`). `BatchCreate`,
`Publisher`, `Policy` and `Evaluation` use them.

Only model-checked are the liveness properties `QueuedIsSettled`, `MessagesDrain`,
`CreateEnds`, `PublishReturns` and `CallsEnd`: fairness and ENABLED are out of the
prover's reach. Of the last three the part that does not need fairness is proved: no
call can go on for ever (`CreateIsFinite`, `InvocationsAreFinite`, `CallsAreFinite`),
and Publish never has to wait for itself (`NobodyWaitsForEver`). What TLC adds is that
the scheduler's fairness then ends them. The first two rest on the polling of AWS and
have no such measure: a message may fail and come again as often as a relay and its
operators make it.

## 6. What the models show of the documents

Three runs check a sentence of the repository and find it violated:

- `notrecorded`: `batch.ErrNotRecorded` says nothing was published. The rows of a
  batch that fails are on the stream before they are deleted and are relayed.
- `nameless`: `batch.Module.DeadLetter` says that an event that names no item is
  acknowledged so it does not loop in the DLQ (`batch.go:283`). The code looks at
  `batch_id` only. With a `batch_id` and no `item_id` the update's key is not valid,
  which is an error each time, and the message stays in the DLQ until its retention
  ends. The relay publishes no such event; it takes a message from elsewhere.
- `policy_spend`: `RecentSpend` says it denies when the average exceeds the share.
  From an average of 2^63/10000 cents on (nothing bounds the input) the product
  wraps and the customer passes; below that, an average above the share by less
  than a cent passes because it is truncated (`SpendWithinACent` says it is never
  more than that).

Other places where a reader should know more than the sentence says. Most follow from
a crash or a lost answer, and the documents accept some of them elsewhere, so no run
counts them as violations:

- `docs/architecture.md:405`, one metric line for each recorded decision: `Process`
  writes it after `Decide` answered. If that answer is lost or the invocation dies in
  between, no line is written, because the redelivered message finds the row decided.
- `docs/architecture.md:147`, an item is decided once: the puts of `Create` are
  unconditional, and one that the SDK sends again after its row was decided queues
  the row again (`RewriteRow`, on in the run `operators`); one that lands after a
  rollback brings the deleted row back.
- The package comment of `idempotency`, a client retry never records twice: a crash
  between the run and `Complete` leaves a lease that ends, and a retry then runs
  again, as the comment at `idempotency.go:113` says. Not before the lease is over,
  though (`NotRerunWithinLease`).
- `idempotency.ErrInProgress`, another caller holds the claim: a claim whose answer
  was lost is sent again by the SDK and meets its own row (`ClaimLoses`).
- `evaluate.ErrNotRecorded`, the decision was not stored: a put whose answer is lost
  may be stored. The decision is not returned, and its ID is known to nobody.
- `RetryFailed` returns how many moved: an update that was applied but not heard, or
  that the SDK sent again, is not counted. It never counts one that did not move
  (`CountedWereRequeued`). A failure that the lagging index does not show yet is left
  for the next call.
- `docs/architecture.md:92` gives the rollback a deadline of 2 s; `rollbackTimeout` in
  `ddb.go` is 1 s.

## 7. Not modelled

- Expiry of stream records (24 h) and of messages (4 and 14 days): work that
  nothing takes for that long is lost. `NoWorkLost` is about shorter times.
- The stream is one sequence. A batch's rows share a partition key; across
  batches nothing is shared.
- More than one batch: rows, messages and tickets of different batches never meet.
- Records and rows that cannot be read (a format error), marshalling and the trace
  header of messages, formats of metrics and logs, tracing, routing, the encoding of
  cursors and keys, the parsing of query parameters, SHA-256 collisions
  (fingerprints are the requests themselves). Which violations a 422 lists, and in
  which order, is left out; that there is one is modelled.
- AWS configuration (`awsx`), the metric lines' format (`telemetry`), alarms and
  dashboards (`observability.go`), permissions, the local test harness and the load
  test hold no state that another step reads.

## 8. Plan

Done: the pipeline, Create, keys, policy, publisher, paging, evaluation, and the
theorems of section 5. Left, in this order:

1. Two batches in one pipeline, if a change of the code lets them meet.
2. Two faults at once on larger instances (three records in a relay batch, three
   operators), when the runs are given more time.
