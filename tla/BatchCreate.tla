---------------------------- MODULE BatchCreate ----------------------------
(***************************************************************************)
(* Items.Create in detail: the rows of a batch are put in chunks by        *)
(* BatchWriteItem, several chunks in flight, unprocessed requests tried    *)
(* again; when a chunk fails, the rows found are deleted in chunks, one    *)
(* after the other. The writes stop RollbackTimeout before the deadline of *)
(* the invocation, where the process is killed.                            *)
(*                                                                         *)
(* BatchWriteItem is not atomic: each request of a call lands at its own   *)
(* time, and one whose call failed may land long after.                    *)
(***************************************************************************)
EXTENDS Integers, FiniteSets

CONSTANTS
  N,                \* customers of the batch
  WriteChunk,       \* ddb.writeChunk: requests per BatchWriteItem
  WriteInFlight,    \* ddb.writeInFlight: chunks written at the same time
  WriteTries,       \* ddb.writeTries
  RollbackTimeout,  \* ddb.rollbackTimeout
  Deadline          \* when the invocation is killed

ASSUME CreateAssumption ==
  /\ N \in Nat \ {0} /\ WriteChunk \in Nat \ {0} /\ WriteInFlight \in Nat \ {0}
  /\ WriteTries \in Nat \ {0} /\ RollbackTimeout \in Nat \ {0} /\ Deadline \in Nat
  /\ RollbackTimeout <= Deadline

VARIABLES
  table,     \* each row: ABSENT, PRESENT or REMOVED
  transit,   \* requests DynamoDB has and has not applied
  phase,     \* writing, listing, deleting, over
  outcome,   \* what Create answered, or that it was killed
  batch,     \* the rows the phase writes or deletes
  next,      \* the next chunk to start
  at,        \* where each chunk's batchWrite is
  reqs,      \* the requests each chunk still has to send or confirm
  tries,     \* the calls each chunk has made
  clock,     \* the time
  undoFrom,  \* when the rollback started
  late       \* history: the puts under way when the rollback read the rows

vars == <<table, transit, phase, outcome, batch, next, at, reqs, tries, clock,
          undoFrom, late>>

Items   == 1..N
Chunks  == 1..((N - 1) \div WriteChunk) + 1
Request == [op : {"put", "delete"}, row : Items]

\* The rollback has not started.
NotYet == -1

\* The rows of S in order, cut into chunks of WriteChunk.
Chunk(S, k) == {i \in S : Cardinality({j \in S : j < i}) \div WriteChunk = k - 1}
LastChunk(S) == (Cardinality(S) + WriteChunk - 1) \div WriteChunk

Init ==
  /\ table = [i \in Items |-> "ABSENT"]
  /\ transit = {}
  /\ phase = "writing"
  /\ outcome = "none"
  /\ batch = Items
  /\ next = 1
  /\ at = [k \in Chunks |-> "idle"]
  /\ reqs = [k \in Chunks |-> {}]
  /\ tries = [k \in Chunks |-> 0]
  /\ clock = 0
  /\ undoFrom = NotYet
  /\ late = {}

-----------------------------------------------------------------------------
(* Time. The writes and the rollback each have a context; a call whose      *)
(* context ended returns at once.                                           *)

\* Writes that go on to the deadline itself.
NoReserve == Deadline

WriteDeadline == Deadline - RollbackTimeout

ContextEnded ==
  IF phase = "writing" THEN clock >= WriteDeadline
  ELSE clock >= undoFrom + RollbackTimeout

Tick ==
  /\ phase # "over"
  /\ ~ContextEnded
  /\ clock' = clock + 1
  /\ UNCHANGED <<table, transit, phase, outcome, batch, next, at, reqs, tries,
                 undoFrom, late>>

\* The Lambda's timeout kills the process.
Kill ==
  /\ phase # "over"
  /\ clock >= Deadline
  /\ phase' = "over"
  /\ outcome' = "killed"
  /\ UNCHANGED <<table, transit, batch, next, at, reqs, tries, clock, undoFrom,
                 late>>

-----------------------------------------------------------------------------
(* batchWrite: one chunk.                                                   *)

Working == phase \in {"writing", "deleting"}
Op      == IF phase = "writing" THEN "put" ELSE "delete"
Sent(S) == [op : {Op}, row : S]

\* The chunks under way: the goroutines Create's WaitGroup counts, or the one
\* chunk deleteBatch is at.
Active == {k \in Chunks : at[k] \in {"sending", "waiting"}}

\* Slots that a chunk keeps when it failed.
KeptOnFailure == {k \in Chunks : at[k] \in {"sending", "waiting", "failed"}}

\* The chunks that hold a slot of Create's semaphore. Each gives its slot back
\* when its batchWrite returns, whatever it returned.
Holding == {k \in Chunks : at[k] \in {"sending", "waiting"}}

\* As many chunks at once as there are.
NoLimit == TRUE

FreeSlot == Cardinality(Holding) < WriteInFlight

\* Create's loop waits for a slot, deleteBatch's for the chunk before.
MayStart == IF phase = "writing" THEN FreeSlot ELSE Active = {}

StartChunk ==
  /\ Working
  /\ next <= LastChunk(batch)
  /\ MayStart
  /\ at' = [at EXCEPT ![next] = "sending"]
  /\ reqs' = [reqs EXCEPT ![next] = Chunk(batch, next)]
  /\ tries' = [tries EXCEPT ![next] = 1]
  /\ transit' = transit \cup Sent(Chunk(batch, next))
  /\ next' = next + 1
  /\ UNCHANGED <<table, phase, outcome, batch, clock, undoFrom, late>>

\* DynamoDB applies a request, its call still open or not.
Land(r) ==
  /\ r \in transit
  /\ table' = [table EXCEPT ![r.row] =
                 IF r.op = "put" THEN "PRESENT" ELSE "REMOVED"]
  /\ transit' = transit \ {r}
  /\ UNCHANGED <<phase, outcome, batch, next, at, reqs, tries, clock, undoFrom,
                 late>>

\* A batchWrite that forgets what the answer says is unprocessed.
NothingUnprocessed(k) == {}

Unprocessed(k) == {i \in reqs[k] : [op |-> Op, row |-> i] \in transit}

\* The call answers; what it did not apply comes back unprocessed.
CallReturns(k) ==
  /\ Working
  /\ at[k] = "sending"
  /\ transit' = transit \ Sent(reqs[k])
  /\ reqs' = [reqs EXCEPT ![k] = Unprocessed(k)]
  /\ at' = [at EXCEPT ![k] = IF Unprocessed(k) = {} THEN "done"
                             ELSE IF tries[k] = WriteTries THEN "failed"
                             ELSE "waiting"]
  /\ UNCHANGED <<table, phase, outcome, batch, next, tries, clock, undoFrom, late>>

\* The call fails or its context ends: what it sent is dropped or lands later.
CallErrs(k, dropped) ==
  /\ Working
  /\ at[k] = "sending"
  /\ dropped \subseteq Sent(reqs[k]) \cap transit
  /\ transit' = transit \ dropped
  /\ at' = [at EXCEPT ![k] = "failed"]
  /\ UNCHANGED <<table, phase, outcome, batch, next, reqs, tries, clock, undoFrom,
                 late>>

\* The backoff ends, or the context does.
SendAgain(k) ==
  /\ Working
  /\ at[k] = "waiting"
  /\ at' = [at EXCEPT ![k] = "sending"]
  /\ tries' = [tries EXCEPT ![k] = @ + 1]
  /\ transit' = transit \cup Sent(reqs[k])
  /\ UNCHANGED <<table, phase, outcome, batch, next, reqs, clock, undoFrom, late>>

GiveUp(k) ==
  /\ Working
  /\ at[k] = "waiting"
  /\ ContextEnded
  /\ at' = [at EXCEPT ![k] = "failed"]
  /\ UNCHANGED <<table, transit, phase, outcome, batch, next, reqs, tries, clock,
                 undoFrom, late>>

-----------------------------------------------------------------------------
(* Create.                                                                  *)

\* A join that does not wait for the chunks under way.
AllStarted == next > LastChunk(batch)

AllOver == next > LastChunk(batch) /\ Active = {}

\* A join that looks for one success.
AnySucceeded == \E k \in Chunks : at[k] = "done"

AllSucceeded == \A k \in Chunks : at[k] # "failed"

Answers(how) == phase' = "over" /\ outcome' = how

Created ==
  /\ phase = "writing"
  /\ AllOver
  /\ AllSucceeded
  /\ Answers("ok")
  /\ UNCHANGED <<table, transit, batch, next, at, reqs, tries, clock, undoFrom,
                 late>>

\* The rollback gets a deadline of its own, which the request's does not end.
Undo ==
  /\ phase = "writing"
  /\ AllOver
  /\ ~AllSucceeded
  /\ phase' = "listing"
  /\ undoFrom' = clock
  /\ UNCHANGED <<table, transit, outcome, batch, next, at, reqs, tries, clock, late>>

\* deleteBatch reads the keys consistently, then deletes them.
List ==
  /\ phase = "listing"
  /\ phase' = "deleting"
  /\ batch' = {i \in Items : table[i] = "PRESENT"}
  /\ late' = {r.row : r \in transit}
  /\ next' = 1
  /\ at' = [k \in Chunks |-> "idle"]
  /\ reqs' = [k \in Chunks |-> {}]
  /\ tries' = [k \in Chunks |-> 0]
  /\ UNCHANGED <<table, transit, outcome, clock, undoFrom>>

ListFails ==
  /\ phase = "listing"
  /\ Answers("kept")
  /\ UNCHANGED <<table, transit, batch, next, at, reqs, tries, clock, undoFrom,
                 late>>

\* A chunk that fails does not stop the others, but the rollback has failed.
Undone ==
  /\ phase = "deleting"
  /\ AllOver
  /\ Answers(IF AllSucceeded THEN "undone" ELSE "kept")
  /\ UNCHANGED <<table, transit, batch, next, at, reqs, tries, clock, undoFrom,
                 late>>

Next ==
  \/ Tick
  \/ Kill
  \/ StartChunk
  \/ \E r \in transit : Land(r)
  \/ \E k \in Chunks :
       \/ CallReturns(k)
       \/ \E dropped \in SUBSET transit : CallErrs(k, dropped)
       \/ SendAgain(k)
       \/ GiveUp(k)
  \/ Created
  \/ Undo
  \/ List
  \/ ListFails
  \/ Undone

Spec == Init /\ [][Next]_vars

\* Go's scheduler and the clock go on, and DynamoDB answers or the SDK gives up.
FairSpec == Spec /\ WF_vars(Next)

-----------------------------------------------------------------------------
(* Properties.                                                              *)

\* Every part of the state has its type, a chunk makes at most WriteTries calls,
\* at most WriteInFlight chunks are being written, and one is being deleted.
TypeOK ==
  /\ table \in [Items -> {"ABSENT", "PRESENT", "REMOVED"}]
  /\ transit \subseteq Request
  /\ phase \in {"writing", "listing", "deleting", "over"}
  /\ outcome \in {"none", "ok", "undone", "kept", "killed"}
  /\ batch \subseteq Items
  /\ next \in Nat
  /\ at \in [Chunks -> {"idle", "sending", "waiting", "done", "failed"}]
  /\ reqs \in [Chunks -> SUBSET Items]
  /\ tries \in [Chunks -> 0..WriteTries]
  /\ clock \in Nat /\ undoFrom \in Nat \cup {NotYet}
  /\ late \subseteq Items
  /\ Cardinality(Active) <= IF phase = "writing" THEN WriteInFlight ELSE 1

\* Create succeeds only when every row is in the table and nothing it sent is
\* still under way, whatever came back unprocessed or was tried again. (What the
\* SDK itself sends twice is one request here; BatchPipeline's RewriteRow is the
\* copy that lands late.)
SuccessIsWhole ==
  outcome = "ok" => transit = {} /\ \A i \in Items : table[i] = "PRESENT"

\* A rollback that reports no error leaves no row, except puts that were still
\* under way when it read the rows (deleteBatch after a failed batchWrite).
RollbackIsComplete ==
  outcome = "undone" => \A i \in Items : table[i] = "PRESENT" => i \in late

\* "The delete still runs before the Lambda's timeout kills the process": the
\* process is killed neither while it writes nor before the rollback has had its
\* whole time (writeDeadline, rollbackTimeout).
RollbackHasItsTime ==
  outcome = "killed" => undoFrom # NotYet /\ clock >= undoFrom + RollbackTimeout

\* Create ends, with more chunks than slots: the loop that waits for a slot gets
\* the one a failed chunk held, and the calls a chunk makes and the time it has
\* are bounded (the deferred release, the join and batchWrite's tries).
CreateEnds == <>(phase = "over")

\* Create implements the submit of the item life cycle: rows appear and are taken
\* back one by one, and none changes once the batch is accepted.
Lifecycle == INSTANCE ItemLifecycle WITH
  status   <- [i \in Items |-> IF table[i] = "PRESENT" THEN "QUEUED" ELSE table[i]],
  attempts <- [i \in Items |-> IF table[i] = "PRESENT" THEN 1 ELSE 0],
  accepted <- (outcome = "ok"),
  resent   <- [i \in Items |-> 0],
  MaxAttempts <- 1,
  Verdict  <- [i \in Items |-> "APPROVED"]
ImplementsLifecycle == Lifecycle!Spec
=============================================================================
