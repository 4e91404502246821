----------------------------- MODULE Publisher -----------------------------
(***************************************************************************)
(* The relay in detail: one shard of the BatchItems stream, Relay.Handle   *)
(* on the records of one invocation, and Publish, which sends the work     *)
(* among them in chunks, several chunks at once, one goroutine each.       *)
(*                                                                         *)
(* BatchPipeline takes an invocation as one step; here its goroutines      *)
(* interleave at the semaphore, the call to SQS and the mutex.             *)
(***************************************************************************)
EXTENDS Integers, FiniteSets

CONSTANTS
  Items,        \* items on an attempt: what an event ID names beside the status
  Unreadable,   \* a removal or a record ItemEventFrom cannot read
  Last,         \* the number of records of the shard
  Shards,       \* what the shard may hold
  StreamBatch,  \* topology.streamBatchSize
  ChunkSize,    \* sqspub.chunkSize
  InFlight      \* sqspub.inFlight

ASSUME PublisherAssumption ==
  /\ Last \in Nat
  /\ StreamBatch \in Nat \ {0} /\ ChunkSize \in Nat \ {0} /\ InFlight \in Nat \ {0}

\* The transitions of one item on one attempt: it is queued, then it moves on.
ItemChange == [item : Items, status : {"QUEUED", "MOVED"}]
Change == ItemChange \cup {Unreadable}

ASSUME UnreadableAssumption == Unreadable \notin ItemChange
ASSUME ShardsAssumption == Shards \subseteq [1 .. Last -> Change]

VARIABLES
  stream,    \* the change each record holds
  position,  \* the first record the mapping has not passed
  size,      \* records of the running invocation, 0 when none runs
  started,   \* chunks whose goroutine was started
  at,        \* where each chunk's goroutine is
  refused,   \* entries of each chunk its answer says were not sent
  slots,     \* slots of the semaphore taken
  mutex,     \* the chunk whose goroutine holds mu, 0 for none
  copied,    \* the slice failed as each chunk's append found it
  failed,    \* the IDs in failed
  sent       \* the events SQS accepted, over all invocations

runVars == <<size, started, at, refused, slots, mutex, copied, failed>>
vars == <<stream, position, runVars, sent>>

IsWork(c) == c \in ItemChange /\ c.status = "QUEUED"

\* An event ID without the status, which names two transitions alike.
ItemOnly(c) == <<c.item, "">>

EventID(c) == <<c.item, c.status>>
EventIDs == {EventID(c) : c \in ItemChange}

-----------------------------------------------------------------------------
(* The records of the invocation, and the chunks of the work among them.   *)

Batch    == position .. (position + size - 1)
Readable == {k \in Batch : stream[k] \in ItemChange}
Work     == {k \in Batch : IsWork(stream[k])}

\* Publish's itemEvents is the work in order: Index(k) is the place of record k.
Index(k) == Cardinality({j \in Work : j < k})
ChunkOf(k) == Index(k) \div ChunkSize + 1
Chunks == 1 .. ((Cardinality(Work) + ChunkSize - 1) \div ChunkSize)
Chunk(c) == {k \in Work : ChunkOf(k) = c}

\* The entry ID is the position in the chunk.
Entry(k) == Index(k) % ChunkSize

\* An answer read as positions in the whole list.
InTheList(c, i) == CHOOSE k \in Work : Index(k) = i

\* chunk[i]
Event(c, i) == CHOOSE k \in Chunk(c) : Entry(k) = i

\* seq[id]: the last record of the batch with that event.
SeqOf(id) ==
  CHOOSE s \in Readable :
    /\ EventID(stream[s]) = id
    /\ \A r \in Readable : EventID(stream[r]) = id => r <= s

Idle == [c \in 1 .. Last |-> "idle"]
None == [c \in 1 .. Last |-> {}]

Init ==
  /\ stream \in Shards
  /\ position = 1
  /\ size = 0 /\ started = 0
  /\ at = Idle /\ refused = None
  /\ slots = 0 /\ mutex = 0
  /\ copied = None /\ failed = {}
  /\ sent = {}

-----------------------------------------------------------------------------
(* The mapping invokes the relay on the records from its checkpoint on.    *)

Invoke(n) ==
  /\ size = 0
  /\ position + n - 1 <= Last
  /\ size' = n
  /\ UNCHANGED <<stream, position, started, at, refused, slots, mutex, copied,
                 failed, sent>>

\* The loop of Publish: it waits for a slot before it starts a goroutine.
StartChunk ==
  /\ size # 0
  /\ started + 1 \in Chunks
  /\ slots < InFlight
  /\ slots' = slots + 1
  /\ started' = started + 1
  /\ at' = [at EXCEPT ![started + 1] = "sending"]
  /\ UNCHANGED <<stream, position, size, refused, mutex, copied, failed, sent>>

Accept(S) == sent' = sent \cup {stream[k] : k \in S}

\* send returns. SQS accepted the records in S and answered that the entries in R
\* were not sent; when the call itself failed, send answers every ID of the
\* chunk, whatever SQS accepted.
SendReturns(c, S, R) ==
  /\ at[c] = "sending"
  /\ S \subseteq Chunk(c)
  /\ R \subseteq {Entry(k) : k \in Chunk(c)}
  /\ \A k \in Chunk(c) : k \in S \/ Entry(k) \in R
  /\ Accept(S)
  /\ refused' = [refused EXCEPT ![c] = R]
  /\ at' = [at EXCEPT ![c] = IF R = {} THEN "leaving" ELSE "failing"]
  /\ UNCHANGED <<stream, position, size, started, slots, mutex, copied, failed>>

\* A mutex that excludes nobody.
AlwaysFree == TRUE

Free == mutex = 0

\* mu.Lock(), and append reads the slice.
Lock(c) ==
  /\ at[c] = "failing"
  /\ Free
  /\ mutex' = c
  /\ copied' = [copied EXCEPT ![c] = failed]
  /\ at' = [at EXCEPT ![c] = "locked"]
  /\ UNCHANGED <<stream, position, size, started, refused, slots, failed, sent>>

FailedIDs(c) == {EventID(stream[Event(c, i)]) : i \in refused[c]}

\* append writes the slice, and the deferred mu.Unlock().
Unlock(c) ==
  /\ at[c] = "locked"
  /\ failed' = copied[c] \cup FailedIDs(c)
  /\ mutex' = 0
  /\ at' = [at EXCEPT ![c] = "leaving"]
  /\ UNCHANGED <<stream, position, size, started, refused, slots, copied, sent>>

\* A goroutine that gives its slot back only when nothing failed.
OnSuccess(c) == IF refused[c] = {} THEN slots - 1 ELSE slots

Released(c) == slots - 1

\* The deferred release of the slot, and the end of the goroutine.
Leaves(c) ==
  /\ at[c] = "leaving"
  /\ slots' = Released(c)
  /\ at' = [at EXCEPT ![c] = "done"]
  /\ UNCHANGED <<stream, position, size, started, refused, mutex, copied, failed,
                 sent>>

Over ==
  /\ size' = 0 /\ started' = 0
  /\ at' = Idle /\ refused' = None
  /\ slots' = 0 /\ mutex' = 0
  /\ copied' = None /\ failed' = {}
  /\ UNCHANGED stream

Reported == {SeqOf(id) : id \in failed}

\* A Publish that does not wait for its last goroutines.
AllStarted == \A c \in Chunks : at[c] # "idle"

\* wg.Wait()
AllDone == \A c \in Chunks : at[c] = "done"

\* Handle answers: the mapping goes on from the lowest record reported, or after
\* the batch when none is. An error always comes with failed IDs.
Answer ==
  /\ size # 0
  /\ AllDone
  /\ \/ failed = {} /\ position' = position + size
     \/ /\ position' \in Reported
        /\ \A s \in Reported : position' <= s
  /\ Over
  /\ UNCHANGED sent

InTransit == UNION {Chunk(c) : c \in {d \in Chunks : at[d] = "sending"}}

\* The invocation is killed. What it was sending may still be accepted, and the
\* mapping delivers the records again.
Dies(S) ==
  /\ size # 0
  /\ S \subseteq InTransit
  /\ Accept(S)
  /\ Over
  /\ UNCHANGED position

Goroutine(c) ==
  \/ \E S \in SUBSET Chunk(c), R \in SUBSET {Entry(k) : k \in Chunk(c)} :
       SendReturns(c, S, R)
  \/ Lock(c)
  \/ Unlock(c)
  \/ Leaves(c)

Next ==
  \/ \E n \in 1 .. StreamBatch : Invoke(n)
  \/ StartChunk
  \/ \E c \in Chunks : Goroutine(c)
  \/ Answer
  \/ \E S \in SUBSET InTransit : Dies(S)

Spec == Init /\ [][Next]_vars

\* Goroutines are scheduled, calls to SQS return, and the handler goes on. SQS may
\* refuse everything for ever, and nothing is assumed of invocations or deaths.
Fairness ==
  /\ WF_vars(StartChunk)
  /\ WF_vars(Answer)
  /\ \A c \in 1 .. Last : WF_vars(c \in Chunks /\ Goroutine(c))

FairSpec == Spec /\ Fairness

-----------------------------------------------------------------------------
(* Properties.                                                             *)

Holds(c) == at[c] \in {"sending", "failing", "locked", "leaving"}

\* Every part of the state has its type. Never more than InFlight goroutines hold
\* a slot, the semaphore counts exactly them, and the mutex is held by the one
\* goroutine that is between its append's read and write.
TypeOK ==
  /\ stream \in [1 .. Last -> Change]
  /\ position \in 1 .. (Last + 1)
  /\ size \in 0 .. (Last + 1 - position)
  /\ started \in 0 .. Last
  /\ at \in [1 .. Last ->
             {"idle", "sending", "failing", "locked", "leaving", "done"}]
  /\ refused \in [1 .. Last -> SUBSET Nat]
  /\ copied \in [1 .. Last -> SUBSET EventIDs]
  /\ failed \subseteq EventIDs
  /\ sent \subseteq ItemChange
  /\ slots \in 0 .. InFlight
  /\ slots = Cardinality({c \in 1 .. Last : Holds(c)})
  /\ mutex \in 0 .. Last
  /\ \A c \in 1 .. Last : at[c] = "locked" <=> mutex = c

\* The relay passes a change that queues an item only once SQS has accepted it, or
\* when the same change comes again later: whatever SQS refused, whoever failed
\* at the same time, and wherever an invocation died.
Contract == INSTANCE RelayContract
  WITH Changes <- Change, Work <- {c \in ItemChange : c.status = "QUEUED"}
ImplementsContract == Contract!Spec

\* The records of the batch that SQS did not acknowledge.
Refused == {k \in Work : Entry(k) \in refused[ChunkOf(k)]}

\* Where an answer sends the mapping back to, if into the batch.
ReturnsToRefused ==
  Answer /\ position' \in Batch =>
    \E k \in Refused : stream[k] = stream[position']

\* The mapping goes back only to work that failed: the first record it delivers
\* again of an answered batch is one that was refused, or the same change as
\* one (send's entry IDs are positions in its chunk, seq keeps the last record).
GoesBackToAFailure == [][ReturnsToRefused]_vars

\* Publish returns, whatever fails, unless it is killed: no goroutine waits for a
\* slot or the mutex for ever.
PublishReturns == size # 0 ~> size = 0

=============================================================================
