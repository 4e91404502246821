--------------------------- MODULE ItemLifecycle ---------------------------
(***************************************************************************)
(* What the batch module promises of one batch's items, whatever queues,   *)
(* streams, retries and crashes lie between the callers and the table      *)
(* (batch.Items and the item status diagram of docs/architecture.md):      *)
(*                                                                         *)
(*   - an item is queued on attempt 1, is decided or fails on the attempt  *)
(*     it is queued on, and only a failed item is retried or cancelled;    *)
(*   - a retry moves to the next attempt, never past MaxAttempts;          *)
(*   - a decided or cancelled item never changes again;                    *)
(*   - only a batch that was never accepted loses items.                   *)
(*                                                                         *)
(* One thing takes an item out of this order, because the puts of a submit *)
(* have no condition: a put that is sent again queues its item anew.       *)
(*                                                                         *)
(* BatchPipeline and BatchCreate implement this specification.             *)
(***************************************************************************)
EXTENDS Integers

CONSTANTS
  Items,        \* the items of one submitted batch
  MaxAttempts,  \* batch.MaxAttempts: 5 in the code
  Verdict       \* the decision the policy takes on each item's customer

VARIABLES
  status,    \* the item's status; "ABSENT" before its row is written and
             \* "REMOVED" once a rollback deleted the row
  attempts,  \* the attempt the item is on, 0 while it has no row
  accepted,  \* the client was told the batch is recorded
  resent     \* how many puts of each item were sent again

vars == <<status, attempts, accepted, resent>>

NoRow == {"ABSENT", "REMOVED"}

Init ==
  /\ status = [i \in Items |-> "ABSENT"]
  /\ attempts = [i \in Items |-> 0]
  /\ accepted = FALSE
  /\ resent = [i \in Items |-> 0]

Place(i, to, attempt) ==
  /\ status' = [status EXCEPT ![i] = to]
  /\ attempts' = [attempts EXCEPT ![i] = attempt]
  /\ UNCHANGED accepted

Move(i, to, attempt) == Place(i, to, attempt) /\ UNCHANGED resent

\* A row of a batch still being submitted appears, queued on attempt 1.
Submit(i) ==
  /\ ~accepted
  /\ status[i] = "ABSENT"
  /\ Move(i, "QUEUED", 1)

\* The submit of every item succeeded.
Accept ==
  /\ ~accepted
  /\ \A i \in Items : status[i] \notin NoRow
  /\ accepted' = TRUE
  /\ UNCHANGED <<status, attempts, resent>>

\* A submit that failed takes a row back, wherever the item stands by then.
Withdraw(i) ==
  /\ ~accepted
  /\ status[i] \notin NoRow
  /\ Move(i, "REMOVED", 0)

\* A put of the submit is sent again, whatever became of the first one.
PutAgain(i) ==
  /\ status[i] # "ABSENT"
  /\ Place(i, "QUEUED", 1)
  /\ resent' = [resent EXCEPT ![i] = @ + 1]

Decide(i) ==
  /\ status[i] = "QUEUED"
  /\ Move(i, Verdict[i], attempts[i])

Fail(i) ==
  /\ status[i] = "QUEUED"
  /\ Move(i, "FAILED", attempts[i])

Retry(i) ==
  /\ status[i] = "FAILED"
  /\ attempts[i] < MaxAttempts
  /\ Move(i, "QUEUED", attempts[i] + 1)

Cancel(i) ==
  /\ status[i] = "FAILED"
  /\ Move(i, "CANCELLED", attempts[i])

Next ==
  \/ Accept
  \/ \E i \in Items :
       \/ Submit(i)
       \/ Withdraw(i)
       \/ PutAgain(i)
       \/ Decide(i)
       \/ Fail(i)
       \/ Retry(i)
       \/ Cancel(i)

Spec == Init /\ [][Next]_vars

=============================================================================
