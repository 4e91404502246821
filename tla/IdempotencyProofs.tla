------------------------- MODULE IdempotencyProofs -------------------------
(***************************************************************************)
(* Proofs about Idempotency, for every set of callers and requests, every  *)
(* lease, timeout, skew and TTL that keep LeaseAssumption, and every       *)
(* number of ticks in a second.                                            *)
(***************************************************************************)
EXTENDS Idempotency, IntegerFacts, TLAPS

-----------------------------------------------------------------------------
(* Time.                                                                   *)

\* A key outlives the lease of its claim: a time up to the lease's end finds the
\* row neither expired nor free to take over (ddb.Keys.Claim's condition).
LEMMA LeaseLasts ==
  ASSUME TypeOK, NEW d \in Callers, row = Pending(d),
         NEW t \in Int, t <= now[d] + Lease
  PROVE  ~Expired(row, t) /\ ~(row.leaseUntil < t)
<1>1. now[d] \in Int /\ now[d] + TTL \in Int /\ t <= now[d] + TTL
  BY TimesAssumption, LeaseAssumption DEF TypeOK
<1>2. Seconds(t) <= Seconds(now[d] + TTL)
  BY <1>1, DivisionIsMonotone, TimesAssumption DEF Seconds
<1>3. Seconds(t) \in Int /\ Seconds(now[d] + TTL) \in Int
  BY <1>1, DivisionBounds, TimesAssumption DEF Seconds
<1>4. row.expiresAt = Seconds(now[d] + TTL) /\ row.leaseUntil = now[d] + Lease
  BY DEF Pending
<1>5. QED
  BY <1>1, <1>2, <1>3, <1>4, TimesAssumption DEF Expired

\* No clock of an invocation that is under way, and not the real time either, is
\* past the lease of one that still runs: Timeout + 2 * Skew is within Lease.
LEMMA HolderIsInTime ==
  ASSUME TypeOK, NEW d \in Callers, Holding(d)
  PROVE  /\ clock <= now[d] + Lease
         /\ \A c \in Callers : pc[c] # "new" => now[c] \in Int /\ now[c] <= now[d] + Lease
<1>1. /\ clock \in Nat /\ start[d] \in Nat /\ now[d] \in Int
      /\ clock <= start[d] + Timeout
      /\ start[d] - Skew <= now[d]
  BY TimesAssumption DEF TypeOK, Holding, Alive
<1>2. ASSUME NEW c \in Callers, pc[c] # "new"
      PROVE  now[c] \in Int /\ now[c] <= clock + Skew
  BY <1>2, TimesAssumption DEF TypeOK
<1>3. QED
  BY <1>1, <1>2, TimesAssumption, LeaseAssumption

\* So the claim of whoever runs cannot be taken over.
LEMMA HolderIsNotOverrun ==
  ASSUME TypeOK, HolderHasTheRow, NEW d \in Callers, Holding(d),
         NEW c \in Callers, pc[c] # "new"
  PROVE  ~Claimable(c)
<1>1. row = Pending(d)
  BY DEF HolderHasTheRow
<1>2. ~Expired(row, now[c]) /\ ~(row.leaseUntil < now[c])
  BY <1>1, HolderIsInTime, LeaseLasts
<1>3. row # None
  <2>1. row \in Row
    BY <1>1, TimesAssumption, DivisionBounds DEF Pending, Row, TypeOK, Seconds
  <2>2. QED
    BY <2>1, NoneAssumption DEF Row
<1>4. QED
  BY <1>2, <1>3 DEF Claimable

-----------------------------------------------------------------------------
(* Types.                                                                  *)

\* A claim is a row of the table.
LEMMA PendingIsRow ==
  ASSUME TypeOK, NEW c \in Callers
  PROVE  Pending(c) \in Row
<1>1. now[c] + TTL \in Int /\ now[c] + Lease \in Int
  BY TimesAssumption DEF TypeOK
<1>2. Seconds(now[c] + TTL) \in Int
  BY <1>1, DivisionBounds, TimesAssumption DEF Seconds
<1>3. QED
  BY <1>1, <1>2 DEF TypeOK, Pending, Row

\* None is not a row.
LEMMA NoneIsNoRow == None \notin Row
BY NoneAssumption DEF Row

\* Complete and Release keep the row's type.
LEMMA BookkeepingType ==
  ASSUME TypeOK, NEW c \in Callers, Bookkeeping(c)
  PROVE  row' \in Row \cup {None}
BY DEF TypeOK, Bookkeeping, StillHolds, Row

LEMMA InitType == Init => TypeOK
BY TimesAssumption DEF Init, TypeOK, Row, Places, Answer, Alive

LEMMA NextType == TypeOK /\ [Next]_vars => TypeOK'
<1> SUFFICES ASSUME TypeOK, [Next]_vars PROVE TypeOK'
  OBVIOUS
<1> USE DEF Places, Answer, Alive, Goto, Reply
<1>1. ASSUME NEW c \in Callers, NEW t \in (clock - Skew)..(clock + Skew),
             Begin(c, t)
      PROVE  TypeOK'
  BY <1>1, TimesAssumption DEF TypeOK, Begin
<1>2. ASSUME NEW c \in Callers, ClaimWins(c) PROVE TypeOK'
  BY <1>2, PendingIsRow DEF TypeOK, ClaimWins
<1>3. ASSUME NEW c \in Callers, NEW how \in {"in_progress", "failed"},
             ClaimUnheard(c, how)
      PROVE  TypeOK'
  BY <1>3, PendingIsRow DEF TypeOK, ClaimUnheard
<1>4. ASSUME NEW c \in Callers, ClaimLoses(c) PROVE TypeOK'
  <2>1. row \in Row /\ row.owner \in Callers /\ row.state \in {"PENDING", "DONE"}
    BY <1>4 DEF TypeOK, ClaimLoses, Claimable, Row
  <2>2. answers' \in [Callers -> Answer]
    BY <1>4, <2>1 DEF TypeOK, ClaimLoses, LiveRowAnswers
  <2>3. QED
    BY <1>4, <2>2 DEF TypeOK, ClaimLoses
<1>5. ASSUME NEW c \in Callers, ClaimFails(c) PROVE TypeOK'
  BY <1>5 DEF TypeOK, ClaimFails
<1>6. ASSUME NEW c \in Callers, NEW wrote \in BOOLEAN, NEW answered \in BOOLEAN,
             Run(c, wrote, answered)
      PROVE  TypeOK'
  BY <1>6 DEF TypeOK, Run
<1>7. ASSUME NEW c \in Callers, NEW written \in BOOLEAN, Finish(c, written)
      PROVE  TypeOK'
  <2>1. row' \in Row \cup {None}
    BY <1>7, BookkeepingType DEF Finish, TypeOK
  <2>2. QED
    BY <1>7, <2>1 DEF TypeOK, Finish
<1>8. ASSUME NEW c \in Callers, NEW wrote \in BOOLEAN, Dies(c, wrote)
      PROVE  TypeOK'
  BY <1>8 DEF TypeOK, Dies
<1>9. ASSUME NEW c \in Callers, LateWrite(c) PROVE TypeOK'
  <2>1. row' \in Row \cup {None}
    BY <1>9, BookkeepingType, PendingIsRow DEF LateWrite, TypeOK
  <2>2. QED
    BY <1>9, <2>1 DEF TypeOK, LateWrite
<1>10. ASSUME DeleteExpired PROVE TypeOK'
  BY <1>10 DEF TypeOK, DeleteExpired
<1>11. ASSUME Tick PROVE TypeOK'
  BY <1>11, TimesAssumption DEF TypeOK, Tick, KillsInTime
<1>12. CASE UNCHANGED vars
  BY <1>12 DEF TypeOK, vars
<1>13. QED
  BY <1>1, <1>2, <1>3, <1>4, <1>5, <1>6, <1>7, <1>8, <1>9, <1>10, <1>11, <1>12
  DEF Next

\* Every part of the state keeps its type, and no invocation outlives its
\* timeout, under any interleaving of invocations, kills and late writes.
THEOREM TypeCorrect == Spec => []TypeOK
<1>1. Init => TypeOK
  BY InitType
<1>2. TypeOK /\ [Next]_vars => TypeOK'
  BY NextType
<1>3. QED
  BY <1>1, <1>2, PTL DEF Spec
-----------------------------------------------------------------------------
(* One holder at a time. TypeOK /\ HolderHasTheRow is inductive: TypeOK has   *)
(* the bounds on the clocks, from which HolderIsNotOverrun follows.          *)

LEMMA InitHolds == Init => HolderHasTheRow
BY DEF Init, HolderHasTheRow, Holding

\* An action that leaves the row, the requests and the clocks' readings alone,
\* and starts no one, keeps what the holders have.
LEMMA NobodyStarts ==
  ASSUME HolderHasTheRow, UNCHANGED <<row, request, now>>,
         \A d \in Callers : Holding(d)' => Holding(d)
  PROVE  HolderHasTheRow'
BY DEF HolderHasTheRow, Pending

\* A claim that wins does so when nobody runs.
LEMMA ClaimsMeetNoHolder ==
  ASSUME TypeOK, HolderHasTheRow, NEW c \in Callers, pc[c] # "new", Claimable(c)
  PROVE  \A d \in Callers : ~Holding(d)
BY HolderIsNotOverrun

\* A bookkeeping write of one invocation does not touch another's claim.
LEMMA BookkeepingIsOwn ==
  ASSUME HolderHasTheRow, NEW c \in Callers, Bookkeeping(c),
         NEW d \in Callers, d # c, Holding(d)
  PROVE  row' = Pending(d)
BY DEF HolderHasTheRow, Bookkeeping, StillHolds, Pending

LEMMA NextHolds == TypeOK /\ HolderHasTheRow /\ [Next]_vars => HolderHasTheRow'
<1> SUFFICES ASSUME TypeOK, HolderHasTheRow, [Next]_vars PROVE HolderHasTheRow'
  OBVIOUS
<1> USE DEF Goto
<1>1. ASSUME NEW c \in Callers, NEW t \in (clock - Skew)..(clock + Skew),
             Begin(c, t)
      PROVE  HolderHasTheRow'
  <2>1. ASSUME NEW d \in Callers, Holding(d)'
        PROVE  Holding(d) /\ now'[d] = now[d]
    BY <1>1, <2>1 DEF Begin, Holding, TypeOK
  <2>2. QED
    BY <1>1, <2>1 DEF Begin, HolderHasTheRow, Pending
<1>2. ASSUME NEW c \in Callers, ClaimWins(c) PROVE HolderHasTheRow'
  <2>1. \A d \in Callers : ~Holding(d)
    BY <1>2, ClaimsMeetNoHolder DEF ClaimWins
  <2>2. \A d \in Callers : Holding(d)' => d = c
    BY <1>2, <2>1 DEF ClaimWins, Holding, TypeOK
  <2>3. QED
    BY <1>2, <2>2 DEF ClaimWins, HolderHasTheRow, Pending
<1>3. ASSUME NEW c \in Callers, NEW how \in {"in_progress", "failed"},
             ClaimUnheard(c, how)
      PROVE  HolderHasTheRow'
  <2>1. \A d \in Callers : ~Holding(d)
    BY <1>3, ClaimsMeetNoHolder DEF ClaimUnheard
  <2>2. \A d \in Callers : ~Holding(d)'
    BY <1>3, <2>1 DEF ClaimUnheard, Holding, TypeOK
  <2>3. QED
    BY <2>2 DEF HolderHasTheRow
<1>4. ASSUME NEW c \in Callers, ClaimLoses(c) \/ ClaimFails(c)
      PROVE  HolderHasTheRow'
  BY <1>4, NobodyStarts DEF ClaimLoses, ClaimFails, Holding, TypeOK
<1>5. ASSUME NEW c \in Callers, NEW wrote \in BOOLEAN, NEW answered \in BOOLEAN,
             Run(c, wrote, answered)
      PROVE  HolderHasTheRow'
  BY <1>5, NobodyStarts DEF Run, Holding, TypeOK
<1>6. ASSUME NEW c \in Callers, NEW written \in BOOLEAN, Finish(c, written)
      PROVE  HolderHasTheRow'
  <2>1. ASSUME NEW d \in Callers, Holding(d)'
        PROVE  d # c /\ Holding(d)
    BY <1>6, <2>1 DEF Finish, Holding, TypeOK
  <2>2. ASSUME NEW d \in Callers, Holding(d)'
        PROVE  row' = Pending(d)
    BY <1>6, <2>1, <2>2, BookkeepingIsOwn DEF Finish, HolderHasTheRow
  <2>3. QED
    BY <1>6, <2>2 DEF Finish, HolderHasTheRow, Pending
<1>7. ASSUME NEW c \in Callers, NEW wrote \in BOOLEAN, Dies(c, wrote)
      PROVE  HolderHasTheRow'
  BY <1>7, NobodyStarts DEF Dies, Holding, TypeOK
<1>8. ASSUME NEW c \in Callers, LateWrite(c) PROVE HolderHasTheRow'
  <2>1. ASSUME NEW d \in Callers, Holding(d)'
        PROVE  d # c /\ Holding(d)
    BY <1>8, <2>1 DEF LateWrite, Holding, TypeOK
  <2>2. ASSUME NEW d \in Callers, Holding(d)'
        PROVE  row' = Pending(d)
    <3>1. CASE pc[c] = "lateclaim" /\ row' = IF Claimable(c) THEN Pending(c) ELSE row
      BY <2>1, <2>2, <3>1, ClaimsMeetNoHolder DEF HolderHasTheRow
    <3>2. CASE pc[c] = "latestore" /\ Bookkeeping(c)
      BY <2>1, <2>2, <3>2, BookkeepingIsOwn
    <3>3. QED
      BY <1>8, <3>1, <3>2 DEF LateWrite
  <2>3. QED
    BY <1>8, <2>2 DEF LateWrite, HolderHasTheRow, Pending
<1>9. ASSUME DeleteExpired PROVE HolderHasTheRow'
  <2>1. ASSUME NEW d \in Callers, Holding(d) PROVE FALSE
    <3>1. row = Pending(d) /\ clock \in Int /\ clock <= now[d] + Lease
      BY <2>1, HolderIsInTime DEF HolderHasTheRow, TypeOK
    <3>2. ~Expired(row, clock)
      BY <3>1, LeaseLasts
    <3>3. QED
      BY <1>9, <3>2 DEF DeleteExpired
  <2>2. QED
    BY <1>9, <2>1 DEF DeleteExpired, HolderHasTheRow, Holding
<1>10. ASSUME Tick PROVE HolderHasTheRow'
  BY <1>10, NobodyStarts DEF Tick, Holding
<1>11. CASE UNCHANGED vars
  BY <1>11, NobodyStarts DEF vars, Holding
<1>12. QED
  BY <1>1, <1>2, <1>3, <1>4, <1>5, <1>6, <1>7, <1>8, <1>9, <1>10, <1>11 DEF Next

\* Only one caller at a time runs a key's request, and it has the row it claimed
\* until it ends, for every lease that covers the timeout and twice the skew.
THEOREM OneHolder == Spec => []HolderHasTheRow
<1>1. Init => TypeOK /\ HolderHasTheRow
  BY InitType, InitHolds
<1>2. TypeOK /\ HolderHasTheRow /\ [Next]_vars => (TypeOK /\ HolderHasTheRow)'
  BY NextType, NextHolds
<1>3. QED
  BY <1>1, <1>2, PTL DEF Spec
-----------------------------------------------------------------------------
(* Replays. A replay reads the row, which names its run; the row has to say  *)
(* the truth about that run, also once the run is over.                      *)

\* A run that answered 2xx has recorded and is past the run.
AnsweredIsRecorded ==
  \A c \in Callers :
    ok[c] => c \in recorded /\ pc[c] \in {"storing", "latestore", "over"}

\* The row is of its owner's request, and done only once the owner answered 2xx.
RowIsOfItsOwner ==
  row # None => /\ row.request = request[row.owner]
                /\ row.state = "DONE" => ok[row.owner]

ReplayInv == AnsweredIsRecorded /\ RowIsOfItsOwner /\ ReplayIsFaithful

\* Claims and bookkeeping writes keep the row truthful.
LEMMA ClaimIsOfItsOwner ==
  ASSUME NEW c \in Callers, row' = Pending(c), UNCHANGED request
  PROVE  RowIsOfItsOwner'
BY DEF RowIsOfItsOwner, Pending

LEMMA BookkeepingIsTruthful ==
  ASSUME TypeOK, RowIsOfItsOwner, NEW c \in Callers, Bookkeeping(c),
         UNCHANGED <<request, ok>>
  PROVE  RowIsOfItsOwner'
<1>1. CASE StillHolds(c) /\ ok[c]
  <2>1. row \in Row /\ row.owner = c /\ row' = [row EXCEPT !.state = "DONE"]
    BY <1>1 DEF TypeOK, StillHolds, Bookkeeping
  <2>2. row'.owner = c /\ row'.request = row.request
    BY <2>1 DEF Row
  <2>3. QED
    BY <1>1, <2>1, <2>2 DEF RowIsOfItsOwner, StillHolds
<1>2. CASE StillHolds(c) /\ ~ok[c]
  BY <1>2 DEF Bookkeeping, RowIsOfItsOwner
<1>3. CASE ~StillHolds(c)
  BY <1>3 DEF Bookkeeping, RowIsOfItsOwner
<1>4. QED
  BY <1>1, <1>2, <1>3

\* An answer other than a replay, and runs that only add to what is recorded,
\* keep every replay faithful.
LEMMA NewAnswerKeepsReplays ==
  ASSUME TypeOK, ReplayIsFaithful, NEW c \in Callers,
         NEW how \in {"ran", "in_progress", "failed", "reused"}, NEW d \in Callers,
         Reply(c, how, d), UNCHANGED <<request, ok, recorded>>
  PROVE  ReplayIsFaithful'
BY DEF ReplayIsFaithful, Reply, TypeOK, Answer

LEMMA InitReplays == Init => ReplayInv
BY DEF Init, ReplayInv, AnsweredIsRecorded, RowIsOfItsOwner, ReplayIsFaithful

LEMMA NextReplays == TypeOK /\ ReplayInv /\ [Next]_vars => ReplayInv'
<1> SUFFICES ASSUME TypeOK, ReplayInv, [Next]_vars PROVE ReplayInv'
  OBVIOUS
<1>0. AnsweredIsRecorded /\ RowIsOfItsOwner /\ ReplayIsFaithful
  BY DEF ReplayInv
<1>1. ASSUME NEW c \in Callers, NEW t \in (clock - Skew)..(clock + Skew),
             Begin(c, t)
      PROVE  ReplayInv'
  BY <1>0, <1>1 DEF ReplayInv, AnsweredIsRecorded, RowIsOfItsOwner,
     ReplayIsFaithful, Begin, Goto, TypeOK
<1>2. ASSUME NEW c \in Callers, ClaimWins(c) PROVE ReplayInv'
  <2>1. RowIsOfItsOwner'
    BY <1>2, ClaimIsOfItsOwner DEF ClaimWins
  <2>2. AnsweredIsRecorded' /\ ReplayIsFaithful'
    BY <1>0, <1>2 DEF AnsweredIsRecorded, ReplayIsFaithful, ClaimWins, Goto, TypeOK
  <2>3. QED
    BY <2>1, <2>2 DEF ReplayInv
<1>3. ASSUME NEW c \in Callers, NEW how \in {"in_progress", "failed"},
             ClaimUnheard(c, how)
      PROVE  ReplayInv'
  <2>1. RowIsOfItsOwner'
    BY <1>3, ClaimIsOfItsOwner DEF ClaimUnheard
  <2>2. AnsweredIsRecorded'
    BY <1>0, <1>3 DEF AnsweredIsRecorded, ClaimUnheard, Goto, TypeOK
  <2>3. ReplayIsFaithful'
    BY <1>0, <1>3, NewAnswerKeepsReplays DEF ClaimUnheard
  <2>4. QED
    BY <2>1, <2>2, <2>3 DEF ReplayInv
<1>4. ASSUME NEW c \in Callers, ClaimLoses(c) PROVE ReplayInv'
  <2>1. RowIsOfItsOwner' /\ AnsweredIsRecorded'
    BY <1>0, <1>4 DEF RowIsOfItsOwner, AnsweredIsRecorded, ClaimLoses, Goto, TypeOK
  <2>2. UNCHANGED <<request, ok, recorded>>
    BY <1>4 DEF ClaimLoses
  <2>3. ASSUME Reply(c, "reused", c) \/ Reply(c, "in_progress", row.owner)
        PROVE  ReplayIsFaithful'
    <3>1. row.owner \in Callers
      BY <1>4 DEF ClaimLoses, Claimable, TypeOK, Row
    <3>2. QED
      BY <1>0, <2>2, <2>3, <3>1, NewAnswerKeepsReplays
  <2>4. ASSUME row.request = request[c], row.state = "DONE",
               Reply(c, "replayed", row.owner)
        PROVE  ReplayIsFaithful'
    <3>1. row # None /\ row \in Row /\ row.owner \in Callers
      BY <1>4 DEF ClaimLoses, Claimable, TypeOK, Row
    <3>2. /\ row.request = request[row.owner]
          /\ ok[row.owner] /\ row.owner \in recorded
      BY <1>0, <2>4, <3>1 DEF RowIsOfItsOwner, AnsweredIsRecorded
    <3>3. /\ answers'[c] = [how |-> "replayed", of |-> row.owner]
          /\ \A d \in Callers : d # c => answers'[d] = answers[d]
      BY <2>4 DEF Reply, TypeOK
    <3>4. ASSUME NEW d \in Callers, answers'[d].how = "replayed"
          PROVE  LET first == answers'[d].of
                 IN  request[first] = request[d] /\ first \in recorded /\ ok[first]
      <4>1. CASE d = c
        <5>1. answers'[d].of = row.owner
          BY <3>3, <4>1
        <5>2. request[row.owner] = request[d]
          BY <2>4, <3>2, <4>1
        <5>3. QED
          BY <3>2, <5>1, <5>2
      <4>2. CASE d # c
        BY <1>0, <3>3, <3>4, <4>2 DEF ReplayIsFaithful
      <4>3. QED
        BY <4>1, <4>2
    <3>5. QED
      BY <2>2, <3>4 DEF ReplayIsFaithful
  <2>5. QED
    BY <1>4, <2>1, <2>3, <2>4 DEF ReplayInv, ClaimLoses, LiveRowAnswers
<1>5. ASSUME NEW c \in Callers, ClaimFails(c) PROVE ReplayInv'
  <2>1. RowIsOfItsOwner' /\ AnsweredIsRecorded'
    BY <1>0, <1>5 DEF RowIsOfItsOwner, AnsweredIsRecorded, ClaimFails, Goto, TypeOK
  <2>2. ReplayIsFaithful'
    BY <1>0, <1>5, NewAnswerKeepsReplays DEF ClaimFails
  <2>3. QED
    BY <2>1, <2>2 DEF ReplayInv
<1>6. ASSUME NEW c \in Callers, NEW wrote \in BOOLEAN, NEW answered \in BOOLEAN,
             Run(c, wrote, answered)
      PROVE  ReplayInv'
  <2>1. /\ ~ok[c]
        /\ \A d \in Callers : ok[d] => ok'[d]
        /\ recorded \subseteq recorded'
    BY <1>0, <1>6 DEF AnsweredIsRecorded, Run, TypeOK
  <2>2. AnsweredIsRecorded'
    BY <1>0, <1>6 DEF AnsweredIsRecorded, Run, Goto, TypeOK
  <2>3. RowIsOfItsOwner'
    <3>1. row # None => row.owner \in Callers
      BY DEF TypeOK, Row
    <3>2. QED
      BY <1>0, <1>6, <2>1, <3>1 DEF RowIsOfItsOwner, Run
  <2>4. ReplayIsFaithful'
    <3>1. \A d \in Callers : answers[d].of \in Callers
      BY DEF TypeOK, Answer
    <3>2. QED
      BY <1>0, <1>6, <2>1, <3>1 DEF ReplayIsFaithful, Run
  <2>5. QED
    BY <2>2, <2>3, <2>4 DEF ReplayInv
<1>7. ASSUME NEW c \in Callers, NEW written \in BOOLEAN, Finish(c, written)
      PROVE  ReplayInv'
  <2>1. RowIsOfItsOwner'
    BY <1>0, <1>7, BookkeepingIsTruthful DEF Finish, RowIsOfItsOwner
  <2>2. AnsweredIsRecorded'
    BY <1>0, <1>7 DEF AnsweredIsRecorded, Finish, Goto, TypeOK
  <2>3. ReplayIsFaithful'
    BY <1>0, <1>7, NewAnswerKeepsReplays DEF Finish
  <2>4. QED
    BY <2>1, <2>2, <2>3 DEF ReplayInv
<1>8. ASSUME NEW c \in Callers, NEW wrote \in BOOLEAN, Dies(c, wrote)
      PROVE  ReplayInv'
  <2>1. recorded \subseteq recorded'
    BY <1>8 DEF Dies
  <2>2. AnsweredIsRecorded'
    <3>1. ASSUME NEW d \in Callers, ok'[d]
          PROVE  d \in recorded' /\ pc'[d] \in {"storing", "latestore", "over"}
      BY <1>0, <1>8, <2>1, <3>1 DEF AnsweredIsRecorded, Dies, Goto, TypeOK
    <3>2. QED
      BY <3>1 DEF AnsweredIsRecorded
  <2>3. RowIsOfItsOwner' /\ ReplayIsFaithful'
    BY <1>0, <1>8, <2>1 DEF RowIsOfItsOwner, ReplayIsFaithful, Dies
  <2>4. QED
    BY <2>2, <2>3 DEF ReplayInv
<1>9. ASSUME NEW c \in Callers, LateWrite(c) PROVE ReplayInv'
  <2>1. RowIsOfItsOwner'
    <3>1. CASE row' = row
      BY <1>0, <1>9, <3>1 DEF RowIsOfItsOwner, LateWrite
    <3>2. CASE row' = Pending(c)
      BY <1>9, <3>2, ClaimIsOfItsOwner DEF LateWrite
    <3>3. CASE Bookkeeping(c)
      BY <1>0, <1>9, <3>3, BookkeepingIsTruthful DEF LateWrite
    <3>4. QED
      BY <1>9, <3>1, <3>2, <3>3 DEF LateWrite
  <2>2. AnsweredIsRecorded' /\ ReplayIsFaithful'
    BY <1>0, <1>9 DEF AnsweredIsRecorded, ReplayIsFaithful, LateWrite, Goto, TypeOK
  <2>3. QED
    BY <2>1, <2>2 DEF ReplayInv
<1>10. ASSUME DeleteExpired \/ Tick PROVE ReplayInv'
  BY <1>0, <1>10 DEF ReplayInv, AnsweredIsRecorded, RowIsOfItsOwner,
     ReplayIsFaithful, DeleteExpired, Tick
<1>11. CASE UNCHANGED vars
  BY <1>0, <1>11 DEF ReplayInv, AnsweredIsRecorded, RowIsOfItsOwner,
     ReplayIsFaithful, vars
<1>12. QED
  BY <1>1, <1>2, <1>3, <1>4, <1>5, <1>6, <1>7, <1>8, <1>9, <1>10, <1>11 DEF Next

\* A replayed response answers the request that was asked, with the 2xx of a run
\* that recorded its decision or batch.
THEOREM ReplaysAreFaithful == Spec => []ReplayIsFaithful
<1>1. Init => TypeOK /\ ReplayInv
  BY InitType, InitReplays
<1>2. TypeOK /\ ReplayInv /\ [Next]_vars => (TypeOK /\ ReplayInv)'
  BY NextType, NextReplays
<1>3. ReplayInv => ReplayIsFaithful
  BY DEF ReplayInv
<1>4. QED
  BY <1>1, <1>2, <1>3, PTL DEF Spec

-----------------------------------------------------------------------------
(* Stored responses.                                                         *)

\* A row that has expired on some clock has expired on every later one.
LEMMA ExpiryIsMonotone ==
  ASSUME NEW r \in Row, NEW t \in Int, NEW u \in Int, t <= u, Expired(r, t)
  PROVE  Expired(r, u)
<1>1. Seconds(t) <= Seconds(u)
  BY DivisionIsMonotone, TimesAssumption DEF Seconds
<1>2. Seconds(t) \in Int /\ Seconds(u) \in Int /\ r.expiresAt \in Int
  BY DivisionBounds, TimesAssumption DEF Seconds, Row
<1>3. QED
  BY <1>1, <1>2 DEF Expired

\* A done row can be claimed only once it expired on the fastest clock.
LEMMA DoneIsClaimedExpired ==
  ASSUME TypeOK, row # None, row.state = "DONE", NEW c \in Callers, pc[c] # "new",
         Claimable(c)
  PROVE  Expired(row, clock + Skew)
<1>1. /\ row \in Row /\ now[c] \in Int /\ clock + Skew \in Int
      /\ now[c] <= clock + Skew
  BY TimesAssumption DEF TypeOK
<1>2. Expired(row, now[c])
  BY DEF Claimable
<1>3. QED
  BY <1>1, <1>2, ExpiryIsMonotone

\* A stored response stays until its key expires: no claim, release, late write
\* or deletion takes the place of a done row before.
THEOREM StoredResponsesStay == Spec => ResponseStays
<1> DEFINE Stays ==
      row # None /\ row.state = "DONE" => row' = row \/ Expired(row, clock + Skew)
<1>1. ASSUME TypeOK, Next, row # None, row.state = "DONE"
      PROVE  row' = row \/ Expired(row, clock + Skew)
  <2>1. CASE row' = row
    BY <2>1
  <2>2. ASSUME NEW c \in Callers, pc[c] # "new", Claimable(c)
        PROVE  Expired(row, clock + Skew)
    BY <1>1, <2>2, DoneIsClaimedExpired
  <2>3. ASSUME NEW c \in Callers, Bookkeeping(c)
        PROVE  row' = row
    BY <1>1, <2>3 DEF Bookkeeping, StillHolds
  <2>4. ASSUME NEW c \in Callers,
               \/ ClaimWins(c)
               \/ \E how \in {"in_progress", "failed"} : ClaimUnheard(c, how)
        PROVE  Expired(row, clock + Skew)
    BY <2>2, <2>4 DEF ClaimWins, ClaimUnheard
  <2>5. ASSUME NEW c \in Callers, LateWrite(c)
        PROVE  row' = row \/ Expired(row, clock + Skew)
    BY <2>2, <2>3, <2>5 DEF LateWrite
  <2>6. ASSUME NEW c \in Callers, NEW written \in BOOLEAN, Finish(c, written)
        PROVE  row' = row
    BY <2>3, <2>6 DEF Finish
  <2>7. CASE DeleteExpired
    <3>1. row \in Row /\ clock \in Int /\ clock + Skew \in Int /\ clock <= clock + Skew
      BY <1>1, TimesAssumption DEF TypeOK
    <3>2. QED
      BY <2>7, <3>1, ExpiryIsMonotone DEF DeleteExpired
  <2>8. ASSUME NEW c \in Callers,
               \/ \E t \in (clock - Skew)..(clock + Skew) : Begin(c, t)
               \/ ClaimLoses(c)
               \/ ClaimFails(c)
               \/ \E wrote, answered \in BOOLEAN : Run(c, wrote, answered)
               \/ \E wrote \in BOOLEAN : Dies(c, wrote)
        PROVE  row' = row
    BY <2>8 DEF Begin, ClaimLoses, ClaimFails, Run, Dies
  <2>9. CASE Tick
    BY <2>9 DEF Tick
  <2>10. QED
    BY <1>1, <2>4, <2>5, <2>6, <2>7, <2>8, <2>9 DEF Next
<1>2. TypeOK /\ [Next]_vars => [Stays]_vars
  BY <1>1
<1>3. Spec => []TypeOK
  BY TypeCorrect
<1>4. QED
  BY <1>2, <1>3, PTL DEF Spec, ResponseStays

-----------------------------------------------------------------------------
(* Leases end. The row and every "in progress" have to remember when their   *)
(* claim was made.                                                           *)

\* A pending row is free from a lease after its owner's reading of the clock on.
RowHasItsLease ==
  row # None => /\ pc[row.owner] # "new"
                /\ row.state = "PENDING" => row.leaseUntil = now[row.owner] + Lease

\* Who was told that a request is in progress, and who it is of, have begun.
AnsweredHaveBegun ==
  \A c \in Callers : answers[c].how = "in_progress" =>
    pc[c] # "new" /\ pc[answers[c].of] # "new"

LeaseInv == RowHasItsLease /\ AnsweredHaveBegun /\ InProgressIsBounded

\* A step of one that has begun keeps what was read from the clocks.
LEMMA BegunStay ==
  ASSUME TypeOK, LeaseInv, UNCHANGED <<now, answers>>,
         \A d \in Callers : pc'[d] = "new" => pc[d] = "new"
  PROVE  AnsweredHaveBegun' /\ InProgressIsBounded'
BY DEF LeaseInv, AnsweredHaveBegun, InProgressIsBounded, TypeOK, Answer

\* An answer to one that has begun, about one whose lease has not ended on its clock.
LEMMA NewAnswerIsBounded ==
  ASSUME TypeOK, LeaseInv, UNCHANGED now, NEW c \in Callers, NEW how, NEW d \in Callers,
         Reply(c, how, d),
         how = "in_progress" => now[c] <= now[d] + Lease /\ pc'[c] # "new" /\ pc'[d] # "new",
         \A e \in Callers : pc'[e] = "new" => pc[e] = "new"
  PROVE  AnsweredHaveBegun' /\ InProgressIsBounded'
<1>1. \A e \in Callers :
        answers'[e] = IF e = c THEN [how |-> how, of |-> d] ELSE answers[e]
  BY DEF Reply, TypeOK
<1>2. \A e \in Callers : answers[e].of \in Callers
  BY DEF TypeOK, Answer
<1>3. QED
  BY <1>1, <1>2 DEF LeaseInv, AnsweredHaveBegun, InProgressIsBounded

\* A claim has the lease of its owner, and bookkeeping never prolongs one.
LEMMA ClaimHasItsLease ==
  ASSUME NEW c \in Callers, row' = Pending(c), UNCHANGED now, pc'[c] # "new"
  PROVE  RowHasItsLease'
BY DEF RowHasItsLease, Pending

LEMMA RowKeepsItsLease ==
  ASSUME TypeOK, LeaseInv, UNCHANGED now,
         \/ row' = row
         \/ row' = None
         \/ \E c \in Callers : Bookkeeping(c),
         \A e \in Callers : pc'[e] = "new" => pc[e] = "new"
  PROVE  RowHasItsLease'
<1>1. row # None => row \in Row /\ row.owner \in Callers
  BY DEF TypeOK, Row
<1>2. row' = row \/ row' = None \/ (row # None /\ row' = [row EXCEPT !.state = "DONE"])
  BY DEF Bookkeeping, StillHolds
<1>3. CASE row' = row \/ row' = None
  BY <1>1, <1>3 DEF LeaseInv, RowHasItsLease
<1>4. CASE row # None /\ row' = [row EXCEPT !.state = "DONE"]
  <2>1. row'.owner = row.owner /\ row'.state = "DONE"
    BY <1>1, <1>4 DEF Row
  <2>2. QED
    BY <1>1, <1>4, <2>1 DEF LeaseInv, RowHasItsLease
<1>5. QED
  BY <1>2, <1>3, <1>4

LEMMA InitLease == Init => LeaseInv
BY DEF Init, LeaseInv, RowHasItsLease, AnsweredHaveBegun, InProgressIsBounded

LEMMA NextLease == TypeOK /\ LeaseInv /\ [Next]_vars => LeaseInv'
<1> SUFFICES ASSUME TypeOK, LeaseInv, [Next]_vars PROVE LeaseInv'
  OBVIOUS
<1>0. RowHasItsLease /\ AnsweredHaveBegun /\ InProgressIsBounded
  BY DEF LeaseInv
<1>1. ASSUME NEW c \in Callers, NEW t \in (clock - Skew)..(clock + Skew),
             Begin(c, t)
      PROVE  LeaseInv'
  <2>1. \A d \in Callers : pc[d] # "new" => pc'[d] # "new" /\ now'[d] = now[d]
    BY <1>1 DEF Begin, Goto, TypeOK
  <2>2. UNCHANGED <<row, answers>>
    BY <1>1 DEF Begin
  <2>3. row # None => row.owner \in Callers
    BY DEF TypeOK, Row
  <2>4. \A d \in Callers : answers[d].of \in Callers
    BY DEF TypeOK, Answer
  <2>5. QED
    BY <1>0, <2>1, <2>2, <2>3, <2>4
       DEF LeaseInv, RowHasItsLease, AnsweredHaveBegun, InProgressIsBounded
<1>2. ASSUME NEW c \in Callers, ClaimWins(c) PROVE LeaseInv'
  <2>1. /\ \A d \in Callers : pc'[d] = "new" => pc[d] = "new"
        /\ pc'[c] # "new" /\ UNCHANGED <<now, answers>> /\ row' = Pending(c)
    BY <1>2 DEF ClaimWins, Goto, TypeOK
  <2>2. QED
    BY <2>1, ClaimHasItsLease, BegunStay DEF LeaseInv
<1>3. ASSUME NEW c \in Callers, NEW how \in {"in_progress", "failed"},
             ClaimUnheard(c, how)
      PROVE  LeaseInv'
  <2>1. /\ \A d \in Callers : pc'[d] = "new" => pc[d] = "new"
        /\ pc'[c] # "new" /\ UNCHANGED now /\ row' = Pending(c) /\ Reply(c, how, c)
    BY <1>3 DEF ClaimUnheard, Goto, TypeOK
  <2>2. now[c] <= now[c] + Lease
    BY TimesAssumption DEF TypeOK
  <2>3. QED
    BY <2>1, <2>2, ClaimHasItsLease, NewAnswerIsBounded DEF LeaseInv
<1>4. ASSUME NEW c \in Callers, ClaimLoses(c) PROVE LeaseInv'
  <2>1. /\ \A d \in Callers : pc'[d] = "new" => pc[d] = "new"
        /\ pc'[c] # "new" /\ UNCHANGED <<now, row>>
    BY <1>4 DEF ClaimLoses, Goto, TypeOK
  <2>2. row # None /\ row \in Row /\ row.owner \in Callers
    BY <1>4 DEF ClaimLoses, Claimable, TypeOK, Row
  <2>3. ASSUME row.state = "PENDING" PROVE now[c] <= now[row.owner] + Lease
    <3>1. ~ (row.leaseUntil < now[c]) /\ row.leaseUntil = now[row.owner] + Lease
      BY <1>0, <1>4, <2>2, <2>3 DEF ClaimLoses, Claimable, RowHasItsLease
    <3>2. now[c] \in Int /\ now[row.owner] + Lease \in Int
      BY <2>2, TimesAssumption DEF TypeOK
    <3>3. QED
      BY <3>1, <3>2
  <2>4. pc'[row.owner] # "new"
    BY <1>0, <2>1, <2>2 DEF RowHasItsLease
  <2>5. AnsweredHaveBegun' /\ InProgressIsBounded'
    <3>1. CASE Reply(c, "reused", c)
      BY <2>1, <3>1, NewAnswerIsBounded
    <3>2. CASE row.state = "PENDING" /\ Reply(c, "in_progress", row.owner)
      BY <2>1, <2>2, <2>3, <2>4, <3>2, NewAnswerIsBounded
    <3>3. CASE Reply(c, "replayed", row.owner)
      BY <2>1, <2>2, <3>3, NewAnswerIsBounded
    <3>4. QED
      BY <1>4, <3>1, <3>2, <3>3 DEF ClaimLoses, LiveRowAnswers
  <2>6. RowHasItsLease'
    BY <2>1, RowKeepsItsLease
  <2>7. QED
    BY <2>5, <2>6 DEF LeaseInv
<1>5. ASSUME NEW c \in Callers, ClaimFails(c) PROVE LeaseInv'
  <2>1. /\ \A d \in Callers : pc'[d] = "new" => pc[d] = "new"
        /\ UNCHANGED <<now, row>> /\ Reply(c, "failed", c)
    BY <1>5 DEF ClaimFails, Goto, TypeOK
  <2>2. QED
    BY <2>1, RowKeepsItsLease, NewAnswerIsBounded DEF LeaseInv
<1>6. ASSUME NEW c \in Callers, NEW written \in BOOLEAN, Finish(c, written)
      PROVE  LeaseInv'
  <2>1. /\ \A d \in Callers : pc'[d] = "new" => pc[d] = "new"
        /\ UNCHANGED now /\ (row' = row \/ Bookkeeping(c))
        /\ Reply(c, IF ok[c] THEN "ran" ELSE "failed", c)
    BY <1>6 DEF Finish, Goto, TypeOK
  <2>2. AnsweredHaveBegun' /\ InProgressIsBounded'
    BY <2>1, NewAnswerIsBounded
  <2>3. RowHasItsLease'
    BY <2>1, RowKeepsItsLease
  <2>4. QED
    BY <2>2, <2>3 DEF LeaseInv
<1>7. ASSUME NEW c \in Callers,
             \/ \E wrote, answered \in BOOLEAN : Run(c, wrote, answered)
             \/ \E wrote \in BOOLEAN : Dies(c, wrote)
      PROVE  LeaseInv'
  <2>1. /\ \A d \in Callers : pc'[d] = "new" => pc[d] = "new"
        /\ UNCHANGED <<now, row, answers>>
    BY <1>7 DEF Run, Dies, Goto, TypeOK
  <2>2. QED
    BY <2>1, RowKeepsItsLease, BegunStay DEF LeaseInv
<1>8. ASSUME NEW c \in Callers, LateWrite(c) PROVE LeaseInv'
  <2>1. /\ \A d \in Callers : pc'[d] = "new" => pc[d] = "new"
        /\ pc'[c] # "new" /\ UNCHANGED <<now, answers>>
    BY <1>8 DEF LateWrite, Goto, TypeOK
  <2>2. RowHasItsLease'
    <3>1. CASE row' = Pending(c)
      BY <2>1, <3>1, ClaimHasItsLease
    <3>2. CASE row' = row \/ Bookkeeping(c)
      BY <2>1, <3>2, RowKeepsItsLease
    <3>3. QED
      BY <1>8, <3>1, <3>2 DEF LateWrite
  <2>3. QED
    BY <2>1, <2>2, BegunStay DEF LeaseInv
<1>9. ASSUME DeleteExpired \/ Tick PROVE LeaseInv'
  <2>1. UNCHANGED <<now, answers, pc>> /\ (row' = row \/ row' = None)
    BY <1>9 DEF DeleteExpired, Tick
  <2>2. QED
    BY <2>1, RowKeepsItsLease, BegunStay DEF LeaseInv
<1>10. CASE UNCHANGED vars
  BY <1>0, <1>10 DEF vars, LeaseInv, RowHasItsLease, AnsweredHaveBegun, InProgressIsBounded
<1>11. QED
  BY <1>1, <1>2, <1>3, <1>4, <1>5, <1>6, <1>7, <1>8, <1>9, <1>10 DEF Next

\* A claim blocks its key for a lease and no longer: nobody is told that a request
\* is in progress after its lease (idempotency.Do, ddb.Keys.Claim).
THEOREM LeasesEnd == Spec => []InProgressIsBounded
<1>1. Init => TypeOK /\ LeaseInv
  BY InitType, InitLease
<1>2. TypeOK /\ LeaseInv /\ [Next]_vars => (TypeOK /\ LeaseInv)'
  BY NextType, NextLease
<1>3. LeaseInv => InProgressIsBounded
  BY DEF LeaseInv
<1>4. QED
  BY <1>1, <1>2, <1>3, PTL DEF Spec

-----------------------------------------------------------------------------
(* The lease protects what was recorded, also when nobody completes the key. *)

HasKey(c) == row # None /\ row.owner = c
Late(c)   == clock + Skew > now[c] + Lease

\* The key stays with whoever answered 2xx until its lease is over.
KeyInv ==
  /\ row # None => row.expiresAt = Seconds(now[row.owner] + TTL)
  /\ \A c \in Callers : ok[c] => HasKey(c) \/ Late(c)

\* A key that expired or can be claimed is past its owner's lease on every clock.
LEMMA ExpiredIsLate ==
  ASSUME TypeOK, KeyInv, row # None, NEW t \in Int, t <= clock + Skew, Expired(row, t)
  PROVE  Late(row.owner)
<1>1. row.owner \in Callers /\ now[row.owner] \in Int
  BY DEF TypeOK, Row
<1>2. now[row.owner] + TTL \in Int
  BY <1>1, TimesAssumption
<1>3. Seconds(now[row.owner] + TTL) < Seconds(t)
  BY DEF KeyInv, Expired
<1>4. Seconds(now[row.owner] + TTL) \in Int /\ Seconds(t) \in Int
  BY <1>2, DivisionBounds, TimesAssumption DEF Seconds
<1>5. ~ (t <= now[row.owner] + TTL)
  <2> SUFFICES ASSUME t <= now[row.owner] + TTL PROVE FALSE
    OBVIOUS
  <2>1. Seconds(t) <= Seconds(now[row.owner] + TTL)
    BY <1>2, DivisionIsMonotone, TimesAssumption DEF Seconds
  <2>2. QED
    BY <1>3, <1>4, <2>1
<1>6. clock \in Nat
  BY DEF TypeOK
<1>7. QED
  BY <1>1, <1>5, <1>6, TimesAssumption, LeaseAssumption DEF Late

LEMMA ClaimableIsLate ==
  ASSUME TypeOK, LeaseInv, KeyInv, row # None, NEW d \in Callers, pc[d] # "new", Claimable(d)
  PROVE  Late(row.owner)
<1>1. now[d] \in Int /\ now[d] <= clock + Skew
  BY TimesAssumption DEF TypeOK
<1>2. CASE Expired(row, now[d])
  BY <1>1, <1>2, ExpiredIsLate
<1>3. CASE row.state = "PENDING" /\ row.leaseUntil < now[d]
  <2>1. row.leaseUntil = now[row.owner] + Lease
    BY <1>3 DEF LeaseInv, RowHasItsLease
  <2>2. row.owner \in Callers /\ now[row.owner] \in Int /\ clock \in Nat
    BY DEF TypeOK, Row
  <2>3. QED
    BY <1>1, <1>3, <2>1, <2>2, TimesAssumption DEF Late
<1>4. QED
  BY <1>2, <1>3 DEF Claimable

\* A step that leaves the key with its owner.
LEMMA KeyIsKept ==
  ASSUME TypeOK, KeyInv, UNCHANGED now, clock' \in {clock, clock + 1},
         row' = row \/ (row # None /\ row' = [row EXCEPT !.state = "DONE"]),
         \A c \in Callers : ok'[c] => ok[c] \/ HasKey(c)
  PROVE  KeyInv'
<1>1. \A c \in Callers : HasKey(c) => HasKey(c)'
  <2>1. row # None => row \in Row /\ [row EXCEPT !.state = "DONE"] \in Row
    BY DEF TypeOK, Row
  <2>2. QED
    BY <2>1, NoneIsNoRow DEF HasKey, Row
<1>2. \A c \in Callers : Late(c) => Late(c)'
  <2>1. clock \in Nat /\ \A c \in Callers : now[c] \in Int
    BY DEF TypeOK
  <2>2. QED
    BY <2>1, TimesAssumption DEF Late
<1>3. row' # None => row'.expiresAt = Seconds(now'[row'.owner] + TTL)
  BY DEF KeyInv, TypeOK, Row, Seconds
<1>4. QED
  BY <1>1, <1>2, <1>3 DEF KeyInv, Seconds

\* A step that takes the key away from one that is late, or that did not answer 2xx.
LEMMA KeyIsTaken ==
  ASSUME TypeOK, KeyInv, UNCHANGED <<now, clock, ok>>,
         row' = None \/ \E d \in Callers : row' = Pending(d),
         \A c \in Callers : ok[c] /\ HasKey(c) => Late(c)
  PROVE  KeyInv'
<1>1. \A c \in Callers : Late(c) => Late(c)'
  BY DEF Late
<1>2. row' # None => row'.expiresAt = Seconds(now'[row'.owner] + TTL)
  BY DEF Pending, Seconds
<1>3. QED
  BY <1>1, <1>2 DEF KeyInv, Seconds

LEMMA BookkeepingKeepsKey ==
  ASSUME TypeOK, KeyInv, UNCHANGED <<now, clock, ok>>, NEW d \in Callers, Bookkeeping(d)
  PROVE  KeyInv'
<1>1. CASE StillHolds(d) /\ ~ok[d]
  <2>1. row' = None /\ row.owner = d
    BY <1>1 DEF Bookkeeping, StillHolds
  <2>2. QED
    BY <1>1, <2>1, KeyIsTaken DEF HasKey
<1>2. CASE ~(StillHolds(d) /\ ~ok[d])
  BY <1>2, KeyIsKept DEF Bookkeeping, StillHolds
<1>3. QED
  BY <1>1, <1>2

LEMMA ClaimKeepsKey ==
  ASSUME TypeOK, LeaseInv, KeyInv, UNCHANGED <<now, clock, ok>>,
         NEW d \in Callers, pc[d] # "new", Claimable(d), row' = Pending(d)
  PROVE  KeyInv'
<1>1. \A c \in Callers : HasKey(c) => Late(c)
  BY ClaimableIsLate DEF HasKey
<1>2. QED
  BY <1>1, KeyIsTaken

LEMMA NextKey ==
  TypeOK /\ HolderHasTheRow /\ ReplayInv /\ LeaseInv /\ KeyInv /\ [Next]_vars => KeyInv'
<1> SUFFICES ASSUME TypeOK, HolderHasTheRow, ReplayInv, LeaseInv, KeyInv, [Next]_vars
             PROVE  KeyInv'
  OBVIOUS
<1>1. ASSUME NEW c \in Callers, NEW t \in (clock - Skew)..(clock + Skew), Begin(c, t)
      PROVE  KeyInv'
  <2>1. \A d \in Callers : pc[d] # "new" => now'[d] = now[d]
    BY <1>1 DEF Begin, TypeOK
  <2>2. UNCHANGED <<clock, row, ok>>
    BY <1>1 DEF Begin
  <2>3. row # None => row.owner \in Callers /\ pc[row.owner] # "new"
    BY DEF TypeOK, Row, LeaseInv, RowHasItsLease
  <2>4. \A d \in Callers : ok[d] => pc[d] # "new"
    BY DEF ReplayInv, AnsweredIsRecorded
  <2>5. \A d \in Callers : ok[d] => (Late(d)' <=> Late(d))
    BY <2>1, <2>2, <2>4 DEF Late
  <2>6. \A d \in Callers : HasKey(d)' <=> HasKey(d)
    BY <2>2 DEF HasKey
  <2>7. QED
    BY <2>1, <2>2, <2>3, <2>5, <2>6 DEF KeyInv, Seconds
<1>2. ASSUME NEW c \in Callers, ClaimWins(c) PROVE KeyInv'
  BY <1>2, ClaimKeepsKey DEF ClaimWins
<1>3. ASSUME NEW c \in Callers, NEW how, ClaimUnheard(c, how) PROVE KeyInv'
  BY <1>3, ClaimKeepsKey DEF ClaimUnheard
<1>4. ASSUME NEW c \in Callers,
             ClaimLoses(c) \/ ClaimFails(c) \/ \E wrote \in BOOLEAN : Dies(c, wrote)
      PROVE  KeyInv'
  <2>1. UNCHANGED <<clock, row, now, ok>>
    BY <1>4 DEF ClaimLoses, ClaimFails, Dies
  <2>2. QED
    BY <2>1, KeyIsKept
<1>5. ASSUME NEW c \in Callers, NEW wrote, NEW answered, Run(c, wrote, answered)
      PROVE  KeyInv'
  <2>1. row = Pending(c) /\ UNCHANGED <<clock, row, now>>
    BY <1>5 DEF Run, Holding, HolderHasTheRow
  <2>2. HasKey(c)
    BY <2>1, PendingIsRow, NoneIsNoRow DEF HasKey, Pending
  <2>3. \A d \in Callers : ok'[d] => ok[d] \/ HasKey(d)
    BY <1>5, <2>2 DEF Run, TypeOK
  <2>4. QED
    BY <2>1, <2>3, KeyIsKept
<1>6. ASSUME NEW c \in Callers, NEW written \in BOOLEAN, Finish(c, written)
      PROVE  KeyInv'
  <2>1. UNCHANGED <<clock, now, ok>> /\ (row' = row \/ Bookkeeping(c))
    BY <1>6 DEF Finish
  <2>2. QED
    BY <2>1, KeyIsKept, BookkeepingKeepsKey
<1>7. ASSUME NEW c \in Callers, LateWrite(c) PROVE KeyInv'
  <2>1. UNCHANGED <<clock, now, ok>> /\ pc[c] # "new"
    BY <1>7 DEF LateWrite
  <2>2. row' = row \/ (Claimable(c) /\ row' = Pending(c)) \/ Bookkeeping(c)
    BY <1>7 DEF LateWrite
  <2>3. QED
    BY <2>1, <2>2, KeyIsKept, ClaimKeepsKey, BookkeepingKeepsKey
<1>8. CASE DeleteExpired
  <2>1. clock \in Int /\ clock <= clock + Skew
    BY TimesAssumption DEF TypeOK
  <2>2. \A c \in Callers : HasKey(c) => Late(c)
    BY <1>8, <2>1, ExpiredIsLate DEF DeleteExpired, HasKey
  <2>3. QED
    BY <1>8, <2>2, KeyIsTaken DEF DeleteExpired
<1>9. CASE Tick
  BY <1>9, KeyIsKept DEF Tick
<1>10. CASE UNCHANGED vars
  BY <1>10, KeyIsKept DEF vars
<1>11. QED
  BY <1>1, <1>2, <1>3, <1>4, <1>5, <1>6, <1>7, <1>8, <1>9, <1>10 DEF Next

\* NotRerunWithinLease: what was recorded can be recorded again after a lease and not
\* before, for any lease that covers the timeout and the skew (idempotency.Do).
THEOREM LeaseProtectsTheRun == Spec => []NotRerunWithinLease
<1>1. Init => KeyInv
  BY DEF Init, KeyInv
<1>2. TypeOK /\ HolderHasTheRow /\ KeyInv => NotRerunWithinLease
  <2> SUFFICES ASSUME TypeOK, HolderHasTheRow, KeyInv, NEW c \in Callers, NEW d \in Callers,
                      ok[c], Holding(d), d # c
               PROVE  clock + Skew > now[c] + Lease
    BY DEF NotRerunWithinLease
  <2>1. row.owner = d
    BY DEF HolderHasTheRow, Pending
  <2>2. QED
    BY <2>1 DEF KeyInv, HasKey, Late
<1>3. QED
  BY <1>1, <1>2, NextKey, InitReplays, NextReplays, InitLease, NextLease, TypeCorrect, OneHolder,
     PTL DEF Spec
=============================================================================
