---------------------------- MODULE Idempotency ----------------------------
(***************************************************************************)
(* One Idempotency-Key and the invocations of the HTTP Lambda that use it: *)
(* idempotency.Do over the IdempotencyKeys table.                          *)
(*                                                                         *)
(* A claim is a lease.  Nothing tells the table that its holder died, so   *)
(* exclusion rests on time alone: the Lambda kills an invocation Timeout   *)
(* after it started, and no caller takes a pending key over before Lease   *)
(* has passed on its own clock.  Clocks of different hosts may differ.     *)
(***************************************************************************)
EXTENDS Integers

CONSTANTS
  Callers,   \* invocations, each one call of Do with an owner of its own
  Requests,  \* what is asked: fingerprints of route and body
  Lease,     \* idempotency.Lease
  TTL,       \* idempotency.TTL
  Timeout,   \* topology.lambdaTimeoutS
  Second,    \* the clock's ticks in a second: lease_until has the clock's
             \* resolution, expires_at is in seconds
  Skew,      \* how far a host's clock may be from the real time
  MaxClock,  \* bounds the real time
  None       \* no row

ASSUME TimesAssumption ==
  /\ Lease \in Nat \ {0} /\ TTL \in Nat \ {0} /\ Timeout \in Nat \ {0}
  /\ Second \in Nat \ {0} /\ Skew \in Nat /\ MaxClock \in Nat

\* topology.lambdaTimeoutS "must stay under idempotency.Lease", by enough to
\* cover two clocks that are wrong in opposite directions; a key outlives the
\* lease of its claim.
ASSUME LeaseAssumption == Timeout + 2 * Skew <= Lease /\ Lease <= TTL

ASSUME NoneAssumption == None \notin [request : Requests, owner : Callers,
  state : {"PENDING", "DONE"}, leaseUntil : Int, expiresAt : Int]

VARIABLES
  clock,     \* the real time
  row,       \* the key's item in IdempotencyKeys, or None
  pc,        \* where each invocation is in Do
  request,   \* what each invocation asks
  start,     \* when each invocation started
  now,       \* what Do read from its host's clock
  ok,        \* run answered 2xx
  recorded,  \* invocations whose run recorded a decision or a batch
  answers    \* what each invocation answered its client

vars == <<clock, row, pc, request, start, now, ok, recorded, answers>>

Row == [request : Requests, owner : Callers, state : {"PENDING", "DONE"},
        leaseUntil : Int, expiresAt : Int]

\* "late" invocations are dead, but a write they sent is still under way.
Places == {"new", "claiming", "running", "storing", "lateclaim", "latestore", "over"}
Answer == [how : {"none", "ran", "replayed", "reused", "in_progress", "failed"},
           of : Callers]

Alive(c)   == pc[c] \in {"claiming", "running", "storing"}
Holding(c) == pc[c] \in {"running", "storing"}

Goto(c, place) == pc' = [pc EXCEPT ![c] = place]
Reply(c, how, of) == answers' = [answers EXCEPT ![c] = [how |-> how, of |-> of]]

Init ==
  /\ clock = 0
  /\ row = None
  /\ pc = [c \in Callers |-> "new"]
  /\ request \in [Callers -> Requests]
  /\ start = [c \in Callers |-> 0]
  /\ now = [c \in Callers |-> 0]
  /\ ok = [c \in Callers |-> FALSE]
  /\ recorded = {}
  /\ answers = [c \in Callers |-> [how |-> "none", of |-> c]]

-----------------------------------------------------------------------------
(* The table: ddb.Keys. Each operation is one conditional write.           *)

Seconds(t) == t \div Second

\* A lease that only covers the Lambda's timeout, not the clocks.
NoMargin(c) == [request |-> request[c], owner |-> c, state |-> "PENDING",
                leaseUntil |-> now[c] + Timeout, expiresAt |-> Seconds(now[c] + TTL)]

Pending(c) == [request |-> request[c], owner |-> c, state |-> "PENDING",
               leaseUntil |-> now[c] + Lease, expiresAt |-> Seconds(now[c] + TTL)]

Expired(r, t) == r.expiresAt < Seconds(t)

\* A condition that lets the lease free a done row too, which breaks
\* ResponseStays below.
LeaseOnly(c) == row # None => Expired(row, now[c]) \/ row.leaseUntil < now[c]

\* A condition that leaves a pending row to its expiry.
ExpiryOnly(c) == row # None => Expired(row, now[c])

\* attribute_not_exists OR expires_at < now OR (PENDING AND lease_until < now).
Claimable(c) ==
  row # None =>
    \/ Expired(row, now[c])
    \/ row.state = "PENDING" /\ row.leaseUntil < now[c]

\* owner = :owner AND state = PENDING, on both Complete and Release.
StillHolds(c) == row # None /\ row.owner = c /\ row.state = "PENDING"

\* A Do that releases the key whatever run answered.
AlwaysReleases(c) == row' = IF StillHolds(c) THEN None ELSE row

\* Complete when run answered 2xx, Release when it did not. Complete removes
\* lease_until; here a done row keeps it, which no condition reads.
Bookkeeping(c) ==
  row' = IF ~StillHolds(c) THEN row
         ELSE IF ok[c] THEN [row EXCEPT !.state = "DONE"]
         ELSE None

-----------------------------------------------------------------------------
(* Do.                                                                     *)

\* Do reads the clock before anything else.
Begin(c, t) ==
  /\ pc[c] = "new"
  /\ t \in (clock - Skew)..(clock + Skew)
  /\ Goto(c, "claiming")
  /\ start' = [start EXCEPT ![c] = clock]
  /\ now' = [now EXCEPT ![c] = t]
  /\ UNCHANGED <<clock, row, request, ok, recorded, answers>>

ClaimWins(c) ==
  /\ pc[c] = "claiming"
  /\ Claimable(c)
  /\ row' = Pending(c)
  /\ Goto(c, "running")
  /\ UNCHANGED <<clock, request, start, now, ok, recorded, answers>>

\* The claim is written but its answer is lost. The SDK sends the PutItem again,
\* which now meets the caller's own row (ErrInProgress), or gives up (an error).
ClaimUnheard(c, how) ==
  /\ pc[c] = "claiming"
  /\ how \in {"in_progress", "failed"}
  /\ Claimable(c)
  /\ row' = Pending(c)
  /\ Goto(c, "over")
  /\ Reply(c, how, c)
  /\ UNCHANGED <<clock, request, start, now, ok, recorded>>

\* A Do that replays without comparing requests.
FingerprintUnchecked(c) ==
  IF row.state = "PENDING" THEN Reply(c, "in_progress", row.owner)
  ELSE Reply(c, "replayed", row.owner)

\* The condition fails: the live row answers. The answer is noted with the owner
\* whose claim or response it is about.
LiveRowAnswers(c) ==
  \/ row.request # request[c] /\ Reply(c, "reused", c)
  \/ row.request = request[c] /\ row.state = "PENDING" /\ Reply(c, "in_progress", row.owner)
  \/ row.request = request[c] /\ row.state = "DONE" /\ Reply(c, "replayed", row.owner)

ClaimLoses(c) ==
  /\ pc[c] = "claiming"
  /\ ~Claimable(c)
  /\ LiveRowAnswers(c)
  /\ Goto(c, "over")
  /\ UNCHANGED <<clock, row, request, start, now, ok, recorded>>

ClaimFails(c) ==
  /\ pc[c] = "claiming"
  /\ Goto(c, "over")
  /\ Reply(c, "failed", c)
  /\ UNCHANGED <<clock, row, request, start, now, ok, recorded>>

\* run evaluates and records, and answers 2xx only for what was recorded. It may
\* record and not know: the answer of the write is lost and the response is 503.
Run(c, wrote, answered) ==
  /\ pc[c] = "running"
  /\ answered => wrote
  /\ recorded' = IF wrote THEN recorded \cup {c} ELSE recorded
  /\ ok' = [ok EXCEPT ![c] = answered]
  /\ Goto(c, "storing")
  /\ UNCHANGED <<clock, row, request, start, now, answers>>

\* Complete or Release, and the response: a failed write is only logged.
Finish(c, written) ==
  /\ pc[c] = "storing"
  /\ IF written THEN Bookkeeping(c) ELSE UNCHANGED row
  /\ Goto(c, "over")
  /\ Reply(c, IF ok[c] THEN "ran" ELSE "failed", c)
  /\ UNCHANGED <<clock, request, start, now, ok, recorded>>

-----------------------------------------------------------------------------
(* What the platform does.                                                 *)

\* The invocation dies or is killed. Its run may have recorded already, and a
\* write it sent may land later.
Dies(c, wrote) ==
  /\ Alive(c)
  /\ wrote => pc[c] = "running"
  /\ recorded' = IF wrote THEN recorded \cup {c} ELSE recorded
  /\ \/ Goto(c, "over")
     \/ pc[c] = "claiming" /\ Goto(c, "lateclaim")
     \/ pc[c] = "storing" /\ Goto(c, "latestore")
  /\ UNCHANGED <<clock, row, request, start, now, ok, answers>>

LateWrite(c) ==
  /\ \/ pc[c] = "lateclaim" /\ row' = IF Claimable(c) THEN Pending(c) ELSE row
     \/ pc[c] = "latestore" /\ Bookkeeping(c)
  /\ Goto(c, "over")
  /\ UNCHANGED <<clock, request, start, now, ok, recorded, answers>>

\* DynamoDB deletes an expired item some time after it expired.
DeleteExpired ==
  /\ row # None
  /\ Expired(row, clock)
  /\ row' = None
  /\ UNCHANGED <<clock, pc, request, start, now, ok, recorded, answers>>

\* An invocation nothing kills.
Unlimited == TRUE

\* No invocation outlives its timeout.
KillsInTime == \A c \in Callers : Alive(c) => clock < start[c] + Timeout

Tick ==
  /\ clock < MaxClock
  /\ KillsInTime
  /\ clock' = clock + 1
  /\ UNCHANGED <<row, pc, request, start, now, ok, recorded, answers>>

Next ==
  \/ \E c \in Callers :
       \/ \E t \in (clock - Skew)..(clock + Skew) : Begin(c, t)
       \/ ClaimWins(c)
       \/ \E how \in {"in_progress", "failed"} : ClaimUnheard(c, how)
       \/ ClaimLoses(c)
       \/ ClaimFails(c)
       \/ \E wrote, answered \in BOOLEAN : Run(c, wrote, answered)
       \/ \E written \in BOOLEAN : Finish(c, written)
       \/ \E wrote \in BOOLEAN : Dies(c, wrote)
       \/ LateWrite(c)
  \/ DeleteExpired
  \/ Tick

Spec == Init /\ [][Next]_vars

-----------------------------------------------------------------------------
(* Properties.                                                             *)

\* Every part of the state has its type, no host's clock is ahead by more than
\* Skew, and no invocation is alive past its timeout.
TypeOK ==
  /\ clock \in Nat
  /\ row \in Row \cup {None}
  /\ pc \in [Callers -> Places]
  /\ request \in [Callers -> Requests]
  /\ start \in [Callers -> Nat]
  /\ now \in [Callers -> Int]
  /\ ok \in [Callers -> BOOLEAN]
  /\ recorded \subseteq Callers
  /\ answers \in [Callers -> Answer]
  /\ \A c \in Callers :
       /\ pc[c] # "new" => now[c] \in (start[c] - Skew)..(start[c] + Skew)
       /\ start[c] <= clock
       /\ Alive(c) => clock <= start[c] + Timeout

\* Only one caller at a time runs the request of a key: whoever runs still has
\* the row it claimed, whatever other claims, late writes and expiries did
\* (package idempotency: "only one caller at a time holds the claim").
HolderHasTheRow ==
  \A c \in Callers : Holding(c) => row = Pending(c)

\* A replayed response answers the request that was asked, and is the 2xx of a
\* run that recorded what it says it did.
ReplayIsFaithful ==
  \A c \in Callers :
    answers[c].how = "replayed" =>
      LET first == answers[c].of
      IN  /\ request[first] = request[c]
          /\ first \in recorded
          /\ ok[first]

\* Once a response is stored, every later caller of the key gets it until the
\* key expires: the row stays as it is, so no second run can start.
ResponseStays ==
  [][row # None /\ row.state = "DONE" =>
       row' = row \/ Expired(row, clock + Skew)]_vars

\* Nobody is told that a request is in progress after the lease of its claim: a
\* caller that died, or whose claim was written but not heard, blocks the key and
\* its own retries for a lease and no longer.
InProgressIsBounded ==
  \A c \in Callers :
    answers[c].how = "in_progress" => now[c] <= now[answers[c].of] + Lease

\* What was answered 2xx is not run again before the lease of its claim is over,
\* even if its caller died before Complete or its Complete was lost or is late (Do
\* after run): it can be recorded a second time after a lease and not before.
NotRerunWithinLease ==
  \A c, d \in Callers :
    ok[c] /\ Holding(d) /\ d # c => clock + Skew > now[c] + Lease

=============================================================================
