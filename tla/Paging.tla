------------------------------- MODULE Paging -------------------------------
(***************************************************************************)
(* Reading a batch page by page while it changes: ListItems over           *)
(* Items.Page, and RetryFailed, which collects the failed items from the   *)
(* same pages and retries them, several at once.                           *)
(*                                                                         *)
(* With a status, pages come from StatusIndex, which follows the table     *)
(* item by item and may answer with any image it has not yet forgotten.    *)
(* Without one they come from the table.                                   *)
(***************************************************************************)
EXTENDS Integers, Sequences, FiniteSets

CONSTANTS
  N,              \* items of the batch, 1 .. N in the order of their IDs
  MaxAttempts,    \* batch.MaxAttempts
  MaxPageLimit,   \* batch.MaxPageLimit: the page of RetryFailed
  Limits,         \* what a client may ask for
  Filters,        \* the statuses a client may ask for
  AnyStatus,      \* no status
  RetryInFlight,  \* ddb.retryInFlight
  Batches,        \* the images the rows may have before the operation
  MaxChanges      \* bounds what workers and operators do to the batch until the
                  \* operation is over; what they do later nobody reads

Status == {"QUEUED", "DECIDED", "FAILED", "CANCELLED"}

ASSUME PagingAssumption ==
  /\ N \in Nat /\ MaxAttempts \in Nat \ {0} /\ MaxChanges \in Nat
  /\ MaxPageLimit \in Nat \ {0} /\ RetryInFlight \in Nat \ {0}
  /\ Limits \subseteq 1 .. MaxPageLimit
  /\ Filters \subseteq Status \cup {AnyStatus} /\ AnyStatus \notin Status

Items == 1 .. N
Image == [status : Status, attempts : 1 .. MaxAttempts]
Read  == [item : Items, attempts : 1 .. MaxAttempts]

ASSUME BatchesAssumption == Batches \subseteq [Items -> Image]

VARIABLES
  images,    \* per stored item, the images its readers may see: the last is the row
  changes,   \* how often the batch was changed by others
  steady,    \* history: items indexed and unchanged since the operation began
  op,        \* "list" or "retry"
  filter,    \* q.Status
  limit,     \* q.Limit
  after,     \* q.After, 0 for the first page
  start,     \* ExclusiveStartKey: what the next Query reads from
  page,      \* what Page has read so far
  pc,        \* where the operation is
  listed,    \* items of the pages the client has
  eligible,  \* failed items RetryFailed collected and has not started
  calling,   \* retries whose answer has not come
  moved,     \* items RetryMany counts as moved
  errs,      \* a retry met a store error
  requeued,  \* history: items a retry of this call did queue again
  answer     \* the status code, or "none"

tableVars == <<images, changes, steady>>
queryVars == <<op, filter, limit>>
pageVars  == <<after, start, page, listed>>
retryVars == <<eligible, calling, moved, errs, requeued>>
vars == <<tableVars, queryVars, pageVars, pc, retryVars, answer>>

Stored == DOMAIN images

Final(s) == s[Len(s)]
Row(i) == Final(images[i])

\* A batch that is unknown, or all of whose items are stored.
Init ==
  /\ \/ images = [i \in {} |-> <<>>]
     \/ \E b \in Batches : images = [i \in Items |-> <<b[i]>>]
  /\ changes = 0
  /\ steady = {}
  /\ op = "none" /\ filter = AnyStatus /\ limit = 1
  /\ after = 0 /\ start = 0 /\ page = <<>> /\ listed = <<>>
  /\ pc = "idle"
  /\ eligible = {} /\ calling = {} /\ moved = {} /\ errs = FALSE /\ requeued = {}
  /\ answer = "none"

-----------------------------------------------------------------------------
(* The table and its index.                                                *)

\* The transitions of an item (ItemLifecycle).
Moves(m) ==
  {[m EXCEPT !.status = s] : s \in
     CASE m.status = "QUEUED" -> {"DECIDED", "FAILED"}
       [] m.status = "FAILED" -> {"CANCELLED"}
       [] OTHER -> {}}
  \cup {[status |-> "QUEUED", attempts |-> n] :
          n \in {k \in 1 .. MaxAttempts : m.status = "FAILED" /\ k = m.attempts + 1}}

Write(i, m) ==
  /\ images' = [images EXCEPT ![i] = Append(@, m)]
  /\ steady' = steady \ {i}

\* A worker, the dead-letter consumer or another operator moves an item.
Change(i, m) ==
  /\ changes < MaxChanges /\ pc # "over"
  /\ m \in Moves(Row(i))
  /\ Write(i, m)
  /\ changes' = changes + 1
  /\ UNCHANGED <<queryVars, pageVars, pc, retryVars, answer>>

\* Every replica of the index has passed the oldest image.
IndexFollows(i) ==
  /\ pc # "over"
  /\ Len(images[i]) > 1
  /\ images' = [images EXCEPT ![i] = Tail(@)]
  /\ UNCHANGED <<changes, steady, queryVars, pageVars, pc, retryVars, answer>>

Matches(m) == filter = AnyStatus \/ m.status = filter

\* pageInput: the images a Query may read of an item, from the table, consistently,
\* or from the index.
Seen(i) == IF filter = AnyStatus THEN {Row(i)} ELSE {images[i][k] : k \in 1 .. Len(images[i])}

Views == {v \in [Stored -> UNION {Seen(i) : i \in Stored}] : \A i \in Stored : v[i] \in Seen(i)}

\* A Query that starts at the key it is given.
FromStart(v) == {i \in Stored : i >= start /\ Matches(v[i])}

\* What the Query selects: the items after ExclusiveStartKey that match.
Selected(v) == {i \in Stored : i > start /\ Matches(v[i])}

\* A Query returns the first of them, in order: at least one if there is one, at
\* most its Limit, and fewer than that when it stops at 1 MB.
Returned(S, want) ==
  {r \in UNION {[1 .. n -> S] : n \in 0 .. want} :
    /\ \A j, k \in 1 .. Len(r) : j < k => r[j] < r[k]
    /\ \A i \in S, k \in 1 .. Len(r) : i < r[k] => \E j \in 1 .. k : r[j] = i
    /\ S # {} => r # <<>>}

\* LastEvaluatedKey is absent only when all is returned and the Query did not stop
\* at its Limit; when it stops at 1 MB it may be present even on the last item.
MayEnd(S, r, want) == Len(r) < want /\ \A i \in S : \E k \in 1 .. Len(r) : r[k] = i

-----------------------------------------------------------------------------
(* The operations begin.                                                   *)

Begin(o, f, n) ==
  /\ pc = "idle"
  /\ op' = o /\ filter' = f /\ limit' = n
  /\ pc' = "reading"
  /\ steady' = {i \in Stored : Len(images[i]) = 1}
  /\ UNCHANGED <<images, changes, pageVars, retryVars, answer>>

List(f, n) == Begin("list", f, n)
RetryFailed == Begin("retry", "FAILED", MaxPageLimit)

\* The client comes back with the cursor of its last page.
NextPage ==
  /\ pc = "holding"
  /\ pc' = "reading"
  /\ start' = after
  /\ UNCHANGED <<tableVars, queryVars, after, page, listed, retryVars, answer>>

-----------------------------------------------------------------------------
(* What the caller of Page does with it.                                   *)

\* A loop that asks for the same page again.
SameAfter(p) == after

\* q.After, and the cursor: the last item of the page.
LastOf(p) == Final(p).item

Over(code) == pc' = "over" /\ answer' = code

\* ListItems hands out a cursor when an item follows a page that is not empty.
ListsPage(p, more) ==
  /\ op = "list"
  /\ listed' = listed \o [k \in 1 .. Len(p) |-> p[k].item]
  /\ \/ /\ more /\ p # <<>>
        /\ after' = LastOf(p) /\ pc' = "holding"
        /\ UNCHANGED answer
     \/ /\ ~more \/ p = <<>>
        /\ Over("200")
        /\ UNCHANGED after
  /\ UNCHANGED <<start, retryVars>>

\* RetryFailed keeps the items under the cap and asks for the next page, or goes on
\* to RetryMany.
Collects(p, more) ==
  /\ op = "retry"
  /\ eligible' = eligible \cup {m \in {p[k] : k \in 1 .. Len(p)} : m.attempts < MaxAttempts}
  /\ \/ /\ more /\ p # <<>>
        /\ after' = LastOf(p) /\ start' = after'
        /\ pc' = "reading"
        /\ UNCHANGED answer
     \/ /\ ~more \/ p = <<>>
        /\ IF eligible' = {} THEN Over("202") ELSE pc' = "retrying" /\ UNCHANGED answer
        /\ UNCHANGED <<after, start>>
  /\ UNCHANGED <<listed, calling, moved, errs, requeued>>

Deliver(p, more) ==
  /\ ListsPage(p, more) \/ Collects(p, more)
  /\ page' = <<>>
  /\ UNCHANGED <<tableVars, queryVars>>

-----------------------------------------------------------------------------
(* Page: each step is a Query, or the end of one that failed.              *)

\* A page that takes a Query that stopped early for the last one.
ShortIsLast(last, p) == last \/ Len(p) < limit

IsLast(last, p) == last

\* A Query that asks for a whole page again.
WholePage == limit

\* in.Limit: what the page lacks.
Want == limit - Len(page)

Rows(r, v) == [k \in 1 .. Len(r) |-> [item |-> r[k], attempts |-> v[r[k]].attempts]]

Query ==
  /\ pc = "reading"
  /\ \E v \in Views :
       LET S == Selected(v)
       IN  \E r \in Returned(S, Want), last \in BOOLEAN :
             /\ last => MayEnd(S, r, Want)
             /\ S = {} => last
             /\ LET p == page \o Rows(r, v) IN
                \/ /\ IsLast(last, p)
                   /\ after # 0 \/ p # <<>>
                   /\ Deliver(p, FALSE)
                \/ /\ IsLast(last, p)
                   /\ after = 0 /\ p = <<>>
                   /\ pc' = "checking"
                   /\ UNCHANGED <<tableVars, queryVars, pageVars, retryVars, answer>>
                \/ /\ ~IsLast(last, p)
                   /\ page' = p
                   /\ start' = Final(r)
                   /\ pc' = IF Len(p) = limit THEN "probing" ELSE "reading"
                   /\ UNCHANGED <<tableVars, queryVars, after, listed, retryVars, answer>>

\* A full page that takes LastEvaluatedKey for an item to come.
Always(v) == TRUE

Follows(v) == Selected(v) # {}

\* more: a full page looks for an item behind it.
Probe ==
  /\ pc = "probing"
  /\ \E v \in Views : Deliver(page, Follows(v))

\* A check for items with the status only.
OfTheStatus == \E i \in Stored : Matches(Row(i))

Exists == Stored # {}

\* mustExist: an empty first page of a batch that has items in another status.
MustExist ==
  /\ pc = "checking"
  /\ \/ Exists /\ Deliver(<<>>, FALSE)
     \/ /\ ~Exists
        /\ Over("404")
        /\ UNCHANGED <<tableVars, queryVars, pageVars, retryVars>>

\* A read fails: the caller has an error.
ReadFails ==
  /\ pc \in {"reading", "probing", "checking"}
  /\ Over("failed")
  /\ UNCHANGED <<tableVars, queryVars, pageVars, retryVars>>

-----------------------------------------------------------------------------
(* RetryMany.                                                              *)

\* The loop takes the items in order and waits for a slot; after a store error it
\* starts no more.
StartRetry ==
  /\ pc = "retrying"
  /\ eligible # {}
  /\ Cardinality(calling) < RetryInFlight
  /\ \/ /\ errs
        /\ eligible' = {}
        /\ UNCHANGED calling
     \/ /\ ~errs
        /\ \E m \in eligible :
             /\ \A l \in eligible : m.item <= l.item
             /\ eligible' = eligible \ {m}
             /\ calling' = calling \cup {m}
  /\ UNCHANGED <<tableVars, queryVars, pageVars, pc, moved, errs, requeued, answer>>

RetryCond(m) ==
  /\ Row(m.item).status = "FAILED"
  /\ Row(m.item).attempts = m.attempts
  /\ m.attempts < MaxAttempts

\* A goroutine that counts every retry that is not a store error.
NoStoreError(told) == told # "error"

Counts(told) == told = "moved"

\* A retry's update is applied if its condition holds, and its answer comes. An answer
\* that is lost is a store error, or the SDK sends the update again, which meets
\* its own row and fails its condition.
RetryReturns(m, applied, told) ==
  /\ m \in calling
  /\ applied => RetryCond(m)
  /\ \/ told = "moved" /\ applied
     \/ told = "skipped" /\ (applied \/ ~RetryCond(m))
     \/ told = "error"
  /\ IF applied
     THEN /\ Write(m.item, [status |-> "QUEUED", attempts |-> m.attempts + 1])
          /\ requeued' = requeued \cup {m.item}
     ELSE UNCHANGED <<images, steady, requeued>>
  /\ calling' = calling \ {m}
  /\ moved' = IF Counts(told) THEN moved \cup {m.item} ELSE moved
  /\ errs' = (errs \/ told = "error")
  /\ UNCHANGED <<changes, queryVars, pageVars, pc, eligible, answer>>

\* wg.Wait(): 202 with how many moved, or 503.
RetryEnds ==
  /\ pc = "retrying"
  /\ eligible = {} /\ calling = {}
  /\ Over(IF errs THEN "503" ELSE "202")
  /\ UNCHANGED <<tableVars, queryVars, pageVars, retryVars>>

\* The invocation is killed. Updates it sent may still be applied.
Dies ==
  /\ pc \in {"reading", "probing", "checking", "retrying"}
  /\ Over("none")
  /\ UNCHANGED <<tableVars, queryVars, pageVars, retryVars>>

Runs == Query \/ Probe \/ MustExist \/ StartRetry \/ RetryEnds

Returns == \E m \in calling, applied \in BOOLEAN, told \in {"moved", "skipped", "error"} :
             RetryReturns(m, applied, told)

Next ==
  \/ \E i \in Stored, m \in Image : Change(i, m)
  \/ \E i \in Stored : IndexFollows(i)
  \/ \E f \in Filters, n \in Limits : List(f, n)
  \/ RetryFailed
  \/ NextPage
  \/ Runs
  \/ ReadFails
  \/ Returns
  \/ Dies

Spec == Init /\ [][Next]_vars

\* The handler goes on and calls to the store return. Nothing is assumed of the
\* index, the client, or whoever changes the batch.
FairSpec == Spec /\ WF_vars(Runs) /\ WF_vars(Returns)

-----------------------------------------------------------------------------
(* Properties.                                                             *)

Working == pc \in {"reading", "probing", "checking", "retrying"}

\* Every part of the state has its type. A page is never longer than it may be, no
\* more retries are under way than RetryMany allows, and no row passes the cap.
TypeOK ==
  /\ Stored \in {{}, Items}
  /\ \A i \in Stored : images[i] \in Seq(Image) /\ images[i] # <<>>
  /\ changes \in 0 .. MaxChanges
  /\ steady \subseteq Stored
  /\ op \in {"none", "list", "retry"}
  /\ filter \in Status \cup {AnyStatus}
  /\ limit \in 1 .. MaxPageLimit
  /\ after \in 0 .. N /\ start \in 0 .. N
  /\ page \in Seq(Read) /\ Len(page) <= limit
  /\ pc \in {"idle", "reading", "probing", "checking", "holding", "retrying", "over"}
  /\ listed \in Seq(Items)
  /\ eligible \subseteq Read /\ calling \subseteq Read
  /\ Cardinality(calling) <= RetryInFlight
  /\ moved \subseteq Items /\ requeued \subseteq Items
  /\ errs \in BOOLEAN
  /\ answer \in {"none", "200", "202", "404", "503", "failed"}

\* A listing gives its items in order and none of them twice, over all its pages,
\* however items come and go between two of them (Page's After, read's
\* ExclusiveStartKey).
ListedOnceInOrder ==
  \A j, k \in 1 .. Len(listed) : j < k => listed[j] < listed[k]

Listed == {listed[k] : k \in 1 .. Len(listed)}

\* A listing that ends has every item that was there to be listed from its first page
\* to its last, and a retry-failed that answers 202 leaves no failure under the
\* cap that stood in the index when it began: neither a Query that stops early
\* nor a cursor loses one.
NothingSkipped ==
  /\ answer = "200" =>
       \A i \in Stored : (filter = AnyStatus \/ (i \in steady /\ Matches(Row(i)))) => i \in Listed
  /\ answer = "202" =>
       \A i \in steady : Row(i).status = "FAILED" => Row(i).attempts = MaxAttempts

\* A page behind a cursor is empty only if the batch or its index changed: more looks
\* before a cursor is handed out.
CursorLeadsOn ==
  [][pc # "over" /\ answer' = "200" /\ after # 0 /\ listed' = listed =>
       filter # AnyStatus /\ steady # Stored]_vars

\* 404 is for a batch with no items, and only for that (mustExist).
UnknownIsEmpty ==
  /\ answer = "404" => Stored = {}
  /\ answer \in {"200", "202"} => Stored # {}

\* What RetryMany counts it did move, under its own attempt, also when answers are
\* lost and updates sent again.
CountedWereRequeued == moved \subseteq requeued

\* Every page and every retry-failed ends, or its invocation is killed: each Query
\* goes on behind the last, and RetryMany waits for no more updates than it sent.
CallsEnd == Working ~> ~Working
=============================================================================
