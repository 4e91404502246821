------------------------- MODULE BatchCreateProofs -------------------------
(* Theorems about BatchCreate, for any batch, chunk size, number of chunks  *)
(* in flight and of tries, and any deadline that leaves the rollback's time. *)
EXTENDS BatchCreate, TLAPS, FiniteSetTheorems, IntegerFacts

-----------------------------------------------------------------------------
(* The inductive invariant, in five parts.                                 *)

TypeInv ==
  /\ table \in [Items -> {"ABSENT", "PRESENT", "REMOVED"}]
  /\ transit \subseteq Request
  /\ phase \in {"writing", "listing", "deleting", "over"}
  /\ outcome \in {"none", "ok", "undone", "kept", "killed"}
  /\ batch \subseteq Items
  /\ next \in Nat \ {0}
  /\ at \in [Chunks -> {"idle", "sending", "waiting", "done", "failed"}]
  /\ reqs \in [Chunks -> SUBSET Items]
  /\ tries \in [Chunks -> 0..WriteTries]
  /\ clock \in Nat /\ undoFrom \in Nat \cup {NotYet}
  /\ late \subseteq Items

\* The writes end early enough for the rollback to have its time.
TimeInv ==
  /\ phase = "over" <=> outcome # "none"
  /\ phase = "writing" => batch = Items /\ undoFrom = NotYet /\ clock <= WriteDeadline
  /\ phase \in {"listing", "deleting"} => undoFrom \in Nat /\ undoFrom <= WriteDeadline
  /\ outcome = "killed" => undoFrom # NotYet /\ clock >= undoFrom + RollbackTimeout
  /\ Cardinality(Active) <= IF phase = "writing" THEN WriteInFlight ELSE 1

\* What a chunk is to do with a row is done.
Settled(i) ==
  IF phase = "writing" THEN table[i] = "PRESENT" ELSE table[i] # "PRESENT" \/ i \in late

\* A chunk's rows are settled, under way, or still to be sent, unless it failed.
ChunkInv == Working => \A k \in Chunks :
  /\ at[k] = "idle" <=> k >= next
  /\ at[k] = "waiting" => tries[k] < WriteTries
  /\ at[k] # "idle" => reqs[k] \subseteq Chunk(batch, k)
  /\ \A i \in Chunk(batch, k) :
       /\ at[k] = "done" => Settled(i)
       /\ at[k] = "sending" => Settled(i) \/ (i \in reqs[k] /\ [op |-> Op, row |-> i] \in transit)
       /\ at[k] = "waiting" => Settled(i) \/ i \in reqs[k]

\* A put under way has no row yet, and a chunk that writes has sent it.
FlightInv ==
  /\ \A r \in transit : /\ r.op = "put" => table[r.row] = "ABSENT"
                        /\ r.op = "delete" => table[r.row] # "ABSENT"
  /\ phase \in {"writing", "listing"} => \A r \in transit : r.op = "put"
  /\ phase = "writing" => \A k \in Chunks :
       /\ \A r \in transit : r.row \in Chunk(batch, k) =>
            at[k] = "failed" \/ (at[k] = "sending" /\ r.row \in reqs[k])
       /\ at[k] = "waiting" => \A i \in reqs[k] : table[i] = "ABSENT"
       /\ at[k] = "idle" => \A i \in Chunk(batch, k) : table[i] = "ABSENT"
  /\ phase = "deleting" => /\ \A i \in batch : table[i] # "ABSENT"
                           /\ \A i \in Items : i \in batch \/ Settled(i)
  /\ phase = "deleting" \/ outcome = "undone" =>
       \A r \in transit : r.op = "put" => r.row \in late

OutcomeInv == SuccessIsWhole /\ RollbackIsComplete

IInv == TypeInv /\ TimeInv /\ ChunkInv /\ FlightInv /\ OutcomeInv

-----------------------------------------------------------------------------
(* Chunks.                                                                 *)

\* One more divisor is one more in the quotient.
LEMMA NextQuotient ==
  ASSUME NEW a \in Int, NEW s \in Nat \ {0}
  PROVE  (a + s) \div s = (a \div s) + 1
<1> DEFINE p == a \div s
           q == (a + s) \div s
<1>1. p \in Int /\ s * p <= a /\ a < s * p + s
  BY DivisionBounds
<1>2. q \in Int /\ s * q <= a + s /\ a + s < s * q + s
  BY DivisionBounds
<1> HIDE DEF p, q
<1>3. s * q < s * (p + 2) /\ s * (p + 1) < s * (q + 1)
  <2>1. s * (p + 2) = s * p + 2 * s /\ s * (p + 1) = s * p + s /\ s * (q + 1) = s * q + s
    BY <1>1, <1>2, Z3
  <2>2. s * p \in Int /\ s * q \in Int
    BY <1>1, <1>2
  <2> QED BY <1>1, <1>2, <2>1, <2>2, Z3
<1>4. \A x, y \in Int : s * x < s * y => x < y
  <2> SUFFICES ASSUME NEW x \in Int, NEW y \in Int, y <= x PROVE s * y <= s * x
    BY Z3
  <2> QED BY Z3
<1>5. q < p + 2 /\ p + 1 < q + 1
  BY <1>1, <1>2, <1>3, <1>4
<1> QED BY <1>1, <1>2, <1>5 DEF p, q

\* There is a chunk number for every chunk of a set of rows.
LEMMA ChunkNumbers ==
  ASSUME NEW S \in SUBSET Items
  PROVE  /\ IsFiniteSet(S) /\ Cardinality(S) \in Nat
         /\ LastChunk(S) \in Int
         /\ \A k \in Nat \ {0} : k <= LastChunk(S) => k \in Chunks
<1> DEFINE c == Cardinality(S)
           W == WriteChunk
           b == (N - 1) \div W
<1>1. N \in Nat \ {0} /\ W \in Nat \ {0}
  BY CreateAssumption
<1>2. IsFiniteSet(S) /\ c \in Nat /\ c <= N
  <2>1. IsFiniteSet(Items) /\ Cardinality(Items) = N
    BY <1>1, FS_Interval DEF Items
  <2> QED BY <2>1, FS_Subset, FS_CardinalityType
<1> HIDE DEF c, W
<1>3. (c + W - 1) \in Int /\ (N - 1 + W) \in Int /\ c + W - 1 <= N - 1 + W /\ N - 1 \in Int
  BY <1>1, <1>2
<1>4. (c + W - 1) \div W <= (N - 1 + W) \div W /\ (c + W - 1) \div W \in Int
  BY <1>1, <1>3, DivisionIsMonotone, DivisionBounds
<1>5. (N - 1 + W) \div W = b + 1 /\ b \in Int
  BY <1>1, <1>3, NextQuotient, DivisionBounds
<1>6. Chunks = 1 .. b + 1 /\ LastChunk(S) = (c + W - 1) \div W
  BY DEF Chunks, LastChunk, c, W
<1> HIDE DEF b
<1> DEFINE l == (c + W - 1) \div W
<1>7. l \in Int /\ l <= b + 1
  BY <1>4, <1>5
<1> HIDE DEF l
<1>8. \A k \in Nat \ {0} : k <= l => k \in 1 .. b + 1
  BY <1>5, <1>7
<1> QED BY <1>2, <1>6, <1>7, <1>8 DEF c, l

\* Every row is in a chunk.
LEMMA ChunkOfRow ==
  ASSUME NEW S \in SUBSET Items, NEW i \in S
  PROVE  \E k \in Chunks : k <= LastChunk(S) /\ i \in Chunk(S, k)
<1> DEFINE B == {j \in S : j < i}
           c == Cardinality(S)
           d == Cardinality(B)
           W == WriteChunk
           k == (d \div W) + 1
<1>1. W \in Nat \ {0} /\ IsFiniteSet(S) /\ c \in Nat /\ LastChunk(S) = (c + W - 1) \div W
  BY ChunkNumbers, CreateAssumption DEF LastChunk
<1>2. d \in Nat /\ d <= c - 1
  <2>1. i \in Nat
    BY CreateAssumption DEF Items
  <2>2. B \subseteq S \ {i}
    BY <2>1
  <2>3. IsFiniteSet(S \ {i}) /\ Cardinality(S \ {i}) = c - 1
    BY <1>1, FS_RemoveElement
  <2> QED BY <2>2, <2>3, FS_Subset, FS_CardinalityType
<1> HIDE DEF c, d, W
<1>3. d \div W \in Nat
  <2>1. 0 \div W = 0
    BY <1>1, Z3
  <2> QED BY <1>1, <1>2, <2>1, DivisionIsMonotone, DivisionBounds
<1>4. k <= (c + W - 1) \div W
  <2>1. (d + W) \div W = k
    <3>1. d \in Int /\ W \in Nat \ {0}
      BY <1>1, <1>2
    <3> QED BY <3>1, NextQuotient, Zenon
  <2>2. d + W <= c + W - 1 /\ d + W \in Int /\ c + W - 1 \in Int
    BY <1>1, <1>2
  <2> HIDE DEF k
  <2> QED BY <1>1, <2>1, <2>2, DivisionIsMonotone
<1>5. k \in Nat \ {0}
  BY <1>3
<1>6. k \in Chunks /\ k <= LastChunk(S)
  BY <1>1, <1>4, <1>5, ChunkNumbers
<1>7. d \div W = k - 1
  BY <1>3
<1>8. i \in Chunk(S, k)
  BY <1>7 DEF Chunk, d, W
<1> QED BY <1>6, <1>8

\* A row is in one chunk only.
LEMMA ChunksAreDisjoint ==
  ASSUME NEW S, NEW k \in Chunks, NEW l \in Chunks, NEW i, i \in Chunk(S, k), i \in Chunk(S, l)
  PROVE  k = l /\ i \in S
<1>1. k \in Int /\ l \in Int
  BY DEF Chunks
<1>2. k - 1 = l - 1 /\ i \in S
  BY DEF Chunk
<1> QED BY <1>1, <1>2

\* A chunk that starts, and one that ends, change how many are at work.
LEMMA AtWork ==
  ASSUME NEW S \in SUBSET Chunks
  PROVE  /\ IsFiniteSet(S) /\ Cardinality(S) \in Nat
         /\ \A k \in Chunks : Cardinality(S \cup {k}) <= Cardinality(S) + 1
         /\ \A T \in SUBSET S : Cardinality(T) \in Nat /\ Cardinality(T) <= Cardinality(S)
<1>1. IsFiniteSet(Chunks)
  <2> DEFINE b == ((N - 1) \div WriteChunk) + 1
  <2>1. b \in Int
    BY CreateAssumption, DivisionBounds
  <2> HIDE DEF b
  <2>2. IsFiniteSet(1 .. b)
    BY <2>1, FS_Interval
  <2> QED BY <2>2 DEF Chunks, b
<1>2. IsFiniteSet(S)
  BY <1>1, FS_Subset
<1>3. Cardinality(S) \in Nat
  BY <1>2, FS_CardinalityType
<1>4. ASSUME NEW k \in Chunks PROVE Cardinality(S \cup {k}) <= Cardinality(S) + 1
  <2> DEFINE T == S \cup {k}
             c == Cardinality(S)
             d == Cardinality(T)
  <2>1. d = IF k \in S THEN c ELSE c + 1
    BY <1>2, FS_AddElement
  <2>2. c \in Nat
    BY <1>3
  <2> HIDE DEF c, d
  <2>3. d <= c + 1
    BY <2>1, <2>2, SMT
  <2> QED BY <2>3 DEF c, d
<1>5. ASSUME NEW T \in SUBSET S PROVE Cardinality(T) \in Nat /\ Cardinality(T) <= Cardinality(S)
  BY <1>2, FS_Subset, FS_CardinalityType
<1> QED BY <1>2, <1>3, <1>4, <1>5

\* The numbers of the deadlines.
LEMMA Deadlines ==
  /\ WriteDeadline \in Nat /\ Deadline \in Nat /\ RollbackTimeout \in Nat
  /\ WriteDeadline < Deadline /\ WriteDeadline + RollbackTimeout = Deadline
  /\ NotYet = -1 /\ WriteTries \in Nat \ {0} /\ WriteInFlight \in Nat \ {0}
BY CreateAssumption DEF WriteDeadline, NotYet

-----------------------------------------------------------------------------
(* The initial states, and the steps of time.                              *)

LEMMA InitInv == Init => IInv
<1> SUFFICES ASSUME Init PROVE IInv
  OBVIOUS
<1> USE DEF Init
<1>1. TypeInv
  BY Deadlines DEF TypeInv
<1>2. Active = {} /\ Cardinality({}) = 0
  BY FS_EmptySet DEF Active
<1>3. TimeInv
  BY <1>2, Deadlines DEF TimeInv
<1>4. \A k \in Chunks : k >= 1
  BY DEF Chunks
<1>5. ChunkInv
  BY <1>4 DEF ChunkInv
<1>6. \A S, k : \A i \in Chunk(S, k) : i \in S
  BY DEF Chunk
<1>7. FlightInv
  BY <1>6 DEF FlightInv
<1>8. OutcomeInv
  BY DEF OutcomeInv, SuccessIsWhole, RollbackIsComplete
<1> QED BY <1>1, <1>3, <1>5, <1>7, <1>8 DEF IInv

\* What only the clock, the number of tries or the end of the phase touches.
LEMMA RowsUntouched ==
  ASSUME IInv, UNCHANGED <<table, transit, phase, outcome, batch, next, at, reqs, tries, undoFrom, late>>,
         clock' \in Nat, phase = "writing" => clock' <= WriteDeadline,
         outcome = "killed" => clock' >= clock
  PROVE  IInv'
<1> USE DEF IInv
<1>1. TypeInv'
  BY DEF TypeInv
<1>2. Active' = Active
  BY DEF Active
<1>3. TimeInv'
  BY <1>2, Deadlines DEF TimeInv, TypeInv
<1>4. ChunkInv' /\ FlightInv' /\ OutcomeInv'
  BY DEF ChunkInv, FlightInv, OutcomeInv, Settled, Working, Op, SuccessIsWhole, RollbackIsComplete
<1> QED BY <1>1, <1>3, <1>4

LEMMA TickStep == IInv /\ Tick => IInv'
<1> SUFFICES ASSUME IInv, Tick PROVE IInv'
  OBVIOUS
<1>1. clock \in Nat /\ WriteDeadline \in Nat /\ clock' = clock + 1 /\ ~ContextEnded
  BY Deadlines DEF IInv, TypeInv, Tick
<1>2. phase = "writing" => clock' <= WriteDeadline
  BY <1>1 DEF ContextEnded
<1> QED BY <1>1, <1>2, RowsUntouched DEF Tick

\* The operation is over, and its rows are as the outcome says.
LEMMA EndStep ==
  ASSUME IInv, NEW how \in {"ok", "undone", "kept", "killed"}, Answers(how),
         how = "ok" => transit = {} /\ \A i \in Items : table[i] = "PRESENT",
         how = "undone" => /\ \A i \in Items : table[i] = "PRESENT" => i \in late
                           /\ \A r \in transit : r.op = "put" => r.row \in late,
         how = "killed" => undoFrom # NotYet /\ clock >= undoFrom + RollbackTimeout,
         Cardinality(Active) <= 1,
         UNCHANGED <<table, transit, batch, next, at, reqs, tries, clock, undoFrom, late>>
  PROVE  IInv'
<1> USE DEF IInv, Answers
<1>1. TypeInv'
  BY DEF TypeInv
<1>2. Active' = Active
  BY DEF Active
<1>3. TimeInv'
  BY <1>2 DEF TimeInv
<1>4. ChunkInv'
  BY DEF ChunkInv, Working
<1>5. FlightInv'
  BY DEF FlightInv
<1>6. OutcomeInv'
  BY DEF OutcomeInv, SuccessIsWhole, RollbackIsComplete
<1> QED BY <1>1, <1>3, <1>4, <1>5, <1>6

LEMMA KillStep == IInv /\ Kill => IInv'
<1> SUFFICES ASSUME IInv, Kill PROVE IInv'
  OBVIOUS
<1>1. clock \in Nat /\ phase # "over" /\ clock >= Deadline
  BY DEF IInv, TypeInv, Kill
<1>2. phase \in {"listing", "deleting"}
  BY <1>1, Deadlines DEF IInv, TypeInv, TimeInv
<1>3. undoFrom \in Nat /\ undoFrom <= WriteDeadline /\ Cardinality(Active) <= 1
  BY <1>2 DEF IInv, TimeInv
<1>4. undoFrom # NotYet /\ clock >= undoFrom + RollbackTimeout
  BY <1>1, <1>3, Deadlines
<1> QED BY <1>3, <1>4, EndStep DEF Kill, Answers

-----------------------------------------------------------------------------
(* The steps of Create.                                                    *)

\* When all chunks are over and none failed, every row is settled.
LEMMA AllSettled ==
  ASSUME IInv, Working, AllOver, AllSucceeded
  PROVE  \A i \in batch : Settled(i)
<1> SUFFICES ASSUME NEW i \in batch PROVE Settled(i)
  OBVIOUS
<1>1. batch \in SUBSET Items
  BY DEF IInv, TypeInv
<1>2. PICK k \in Chunks : k <= LastChunk(batch) /\ i \in Chunk(batch, k)
  BY <1>1, ChunkOfRow
<1>3. k < next
  <2>1. k \in Int /\ next \in Int /\ LastChunk(batch) \in Int /\ next > LastChunk(batch)
    BY <1>1, ChunkNumbers DEF IInv, TypeInv, AllOver, Chunks
  <2> QED BY <1>2, <2>1
<1>4. k \in Int /\ next \in Int
  BY DEF Chunks, IInv, TypeInv
<1>5. at[k] # "idle"
  BY <1>3, <1>4 DEF IInv, ChunkInv
<1>6. at[k] \notin {"sending", "waiting", "failed"}
  BY DEF AllOver, Active, AllSucceeded
<1>7. at[k] = "done"
  BY <1>5, <1>6 DEF IInv, TypeInv
<1> QED BY <1>2, <1>7 DEF IInv, ChunkInv

LEMMA CreatedStep == IInv /\ Created => IInv'
<1> SUFFICES ASSUME IInv, Created PROVE IInv'
  OBVIOUS
<1>1. phase = "writing" /\ Working /\ AllOver /\ AllSucceeded /\ batch = Items /\ Answers("ok")
  BY DEF Created, Working, IInv, TimeInv
<1>2. \A i \in Items : table[i] = "PRESENT"
  BY <1>1, AllSettled DEF Settled
<1>3. transit = {}
  <2> SUFFICES ASSUME NEW r \in transit PROVE FALSE
    OBVIOUS
  <2>1. r.row \in Items
    BY DEF IInv, TypeInv, Request
  <2>2. r.op = "put" /\ table[r.row] = "ABSENT"
    BY <1>1 DEF IInv, FlightInv
  <2> QED BY <1>2, <2>1, <2>2
<1>4. Cardinality(Active) <= 1
  BY <1>1, FS_EmptySet DEF AllOver
<1> QED BY <1>1, <1>2, <1>3, <1>4, EndStep DEF Created

LEMMA UndoStep == IInv /\ Undo => IInv'
<1> SUFFICES ASSUME IInv, Undo PROVE IInv'
  OBVIOUS
<1> USE DEF IInv, Undo
<1>1. TypeInv'
  BY DEF TypeInv
<1>2. Active' = {} /\ Cardinality({}) = 0
  BY FS_EmptySet DEF Active, AllOver
<1>3. TimeInv'
  BY <1>2 DEF TimeInv, TypeInv
<1>4. ChunkInv' /\ FlightInv' /\ OutcomeInv'
  BY DEF ChunkInv, Working, FlightInv, OutcomeInv, SuccessIsWhole, RollbackIsComplete, TimeInv
<1> QED BY <1>1, <1>3, <1>4

LEMMA ListStep == IInv /\ List => IInv'
<1> SUFFICES ASSUME IInv, List PROVE IInv'
  OBVIOUS
<1> USE DEF IInv, List
<1>1. TypeInv'
  <2>1. late' \subseteq Items
    BY DEF TypeInv, Request
  <2>2. 0 \in 0..WriteTries
    BY Deadlines
  <2> QED BY <2>1, <2>2 DEF TypeInv
<1>2. Active' = {} /\ Cardinality({}) = 0
  BY FS_EmptySet DEF Active
<1>3. TimeInv'
  BY <1>2 DEF TimeInv
<1>4. \A k \in Chunks : k >= 1 /\ at'[k] = "idle"
  BY DEF Chunks
<1>5. ChunkInv'
  BY <1>4 DEF ChunkInv
<1>6. FlightInv'
  BY DEF FlightInv, Settled, TimeInv
<1>7. OutcomeInv'
  BY DEF OutcomeInv, SuccessIsWhole, RollbackIsComplete, TimeInv
<1> QED BY <1>1, <1>3, <1>5, <1>6, <1>7

LEMMA ListFailsStep == IInv /\ ListFails => IInv'
<1> SUFFICES ASSUME IInv, ListFails PROVE IInv'
  OBVIOUS
<1>1. Cardinality(Active) <= 1
  BY DEF IInv, TimeInv, ListFails
<1> QED BY <1>1, EndStep DEF ListFails

LEMMA UndoneStep == IInv /\ Undone => IInv'
<1> SUFFICES ASSUME IInv, Undone PROVE IInv'
  OBVIOUS
<1> DEFINE how == IF AllSucceeded THEN "undone" ELSE "kept"
<1>1. phase = "deleting" /\ Working /\ AllOver /\ Answers(how) /\ how \in {"undone", "kept"}
  BY DEF Undone, Working
<1>2. how = "undone" => \A i \in Items : table[i] = "PRESENT" => i \in late
  <2> SUFFICES ASSUME AllSucceeded, NEW i \in Items, table[i] = "PRESENT" PROVE i \in late
    OBVIOUS
  <2>1. Settled(i)
    BY <1>1, AllSettled DEF IInv, FlightInv
  <2> QED BY <1>1, <2>1 DEF Settled
<1>3. \A r \in transit : r.op = "put" => r.row \in late
  BY <1>1 DEF IInv, FlightInv
<1>4. Cardinality(Active) <= 1
  BY <1>1 DEF IInv, TimeInv
<1> HIDE DEF how
<1> QED BY <1>1, <1>2, <1>3, <1>4, EndStep DEF Undone

-----------------------------------------------------------------------------
(* The steps of the chunks, and of DynamoDB.                               *)

LEMMA LandStep ==
  ASSUME IInv, NEW r \in transit, Land(r)
  PROVE  IInv'
<1> USE DEF IInv
<1>1. /\ transit' = transit \ {r}
      /\ UNCHANGED <<phase, outcome, batch, next, at, reqs, tries, clock, undoFrom, late>>
  BY DEF Land
<1>2. r \in Request /\ r.row \in Items /\ r.op \in {"put", "delete"}
  BY DEF TypeInv, Request
<1>3. /\ table' \in [Items -> {"ABSENT", "PRESENT", "REMOVED"}]
      /\ \A i \in Items : i # r.row => table'[i] = table[i]
      /\ table'[r.row] = IF r.op = "put" THEN "PRESENT" ELSE "REMOVED"
  BY <1>2 DEF Land, TypeInv
<1>4. ASSUME NEW q \in transit' PROVE q \in transit /\ q.row # r.row /\ q.row \in Items
  <2>1. q \in transit /\ q # r /\ q \in Request
    BY <1>1 DEF TypeInv
  <2>2. q.row \in Items /\ q.op \in {"put", "delete"}
    BY <2>1 DEF Request
  <2>3. /\ q.op = "put" => table[q.row] = "ABSENT"
        /\ q.op = "delete" => table[q.row] # "ABSENT"
        /\ r.op = "put" => table[r.row] = "ABSENT"
        /\ r.op = "delete" => table[r.row] # "ABSENT"
    BY <2>1 DEF FlightInv
  <2>4. q.row = r.row => q.op = r.op
    BY <1>2, <2>2, <2>3
  <2>5. q.row = r.row /\ q.op = r.op => q = r
    BY <1>2, <2>1 DEF Request
  <2> QED BY <2>1, <2>2, <2>4, <2>5
<1>5. phase = "writing" => r.op = "put"
  BY DEF FlightInv
<1>6. phase = "deleting" /\ r.op = "put" => r.row \in late
  BY DEF FlightInv
<1>7. TypeInv'
  BY <1>1, <1>3 DEF TypeInv
<1>8. TimeInv'
  <2>1. Active' = Active
    BY <1>1 DEF Active
  <2> QED BY <1>1, <2>1 DEF TimeInv
<1>9. Working => \A i \in Items : /\ Settled(i) => Settled(i)'
                                  /\ i = r.row => Settled(i)'
  <2>1. CASE phase = "writing"
    BY <1>1, <1>3, <1>5, <2>1 DEF Settled
  <2>2. CASE phase = "deleting"
    BY <1>1, <1>3, <1>6, <2>2 DEF Settled
  <2> QED BY <2>1, <2>2 DEF Working
<1>10. batch \subseteq Items /\ \A k : Chunk(batch, k) \subseteq Items
  BY DEF TypeInv, Chunk
<1>11. ChunkInv'
  <2>1. \A q : q \in transit /\ q.row # r.row => q \in transit'
    BY <1>1
  <2>2. Working' = Working /\ Op' = Op /\ \A k : Chunk(batch, k)' = Chunk(batch, k)
    BY <1>1 DEF Working, Op, Chunk
  <2> SUFFICES ASSUME Working, NEW k \in Chunks
               PROVE  /\ at[k] = "idle" <=> k >= next
                      /\ at[k] = "waiting" => tries[k] < WriteTries
                      /\ at[k] # "idle" => reqs[k] \subseteq Chunk(batch, k)
                      /\ \A i \in Chunk(batch, k) :
                           /\ at[k] = "done" => Settled(i)'
                           /\ at[k] = "sending" => \/ Settled(i)'
                                                   \/ i \in reqs[k] /\ [op |-> Op, row |-> i] \in transit'
                           /\ at[k] = "waiting" => Settled(i)' \/ i \in reqs[k]
    BY <1>1, <2>2 DEF ChunkInv
  <2>3. \A i \in Chunk(batch, k) :
           /\ at[k] = "sending" => \/ Settled(i)'
                                   \/ i \in reqs[k] /\ [op |-> Op, row |-> i] \in transit'
    BY <1>9, <1>10, <2>1 DEF ChunkInv
  <2> QED BY <1>9, <1>10, <2>3 DEF ChunkInv
<1>12. FlightInv'
  <2>1. \A q \in transit' : /\ q.op = "put" => table'[q.row] = "ABSENT"
                            /\ q.op = "delete" => table'[q.row] # "ABSENT"
    BY <1>3, <1>4 DEF FlightInv
  <2>2. phase \in {"writing", "listing"} => \A q \in transit' : q.op = "put"
    BY <1>1 DEF FlightInv
  <2>3. ASSUME phase = "writing", NEW k \in Chunks
        PROVE  /\ \A q \in transit' : q.row \in Chunk(batch, k) =>
                    at[k] = "failed" \/ (at[k] = "sending" /\ q.row \in reqs[k])
               /\ at[k] = "waiting" => \A i \in reqs[k] : table'[i] = "ABSENT"
               /\ at[k] = "idle" => \A i \in Chunk(batch, k) : table'[i] = "ABSENT"
    <3>1. r.row \in Chunk(batch, k) => at[k] = "failed" \/ at[k] = "sending"
      BY <2>3 DEF FlightInv
    <3>2. at[k] = "waiting" => reqs[k] \subseteq Chunk(batch, k)
      BY <2>3 DEF ChunkInv, Working
    <3>3. at[k] = "waiting" => \A i \in reqs[k] : table'[i] = "ABSENT"
      BY <1>3, <1>10, <2>3, <3>1, <3>2 DEF FlightInv
    <3>4. at[k] = "idle" => \A i \in Chunk(batch, k) : table'[i] = "ABSENT"
      BY <1>3, <1>10, <2>3, <3>1 DEF FlightInv
    <3>5. \A q \in transit' : q.row \in Chunk(batch, k) =>
            at[k] = "failed" \/ (at[k] = "sending" /\ q.row \in reqs[k])
      BY <1>4, <2>3 DEF FlightInv
    <3> QED BY <3>3, <3>4, <3>5
  <2>4. phase = "deleting" => /\ \A i \in batch : table'[i] # "ABSENT"
                              /\ \A i \in Items : i \in batch \/ Settled(i)'
    BY <1>3, <1>9, <1>10 DEF FlightInv, Working
  <2>5. phase = "deleting" \/ outcome = "undone" =>
          \A q \in transit' : q.op = "put" => q.row \in late
    BY <1>4 DEF FlightInv
  <2> HIDE DEF IInv
  <2>6. (phase = "writing" => \A k \in Chunks :
           /\ \A q \in transit : q.row \in Chunk(batch, k) =>
                at[k] = "failed" \/ (at[k] = "sending" /\ q.row \in reqs[k])
           /\ at[k] = "waiting" => \A i \in reqs[k] : table[i] = "ABSENT"
           /\ at[k] = "idle" => \A i \in Chunk(batch, k) : table[i] = "ABSENT")'
    BY <1>1, <2>3 DEF Chunk
  <2> QED BY <1>1, <2>1, <2>2, <2>4, <2>5, <2>6 DEF FlightInv
<1>13. OutcomeInv'
  <2>1. outcome # "ok"
    BY DEF OutcomeInv, SuccessIsWhole
  <2>2. outcome = "undone" /\ r.op = "put" => r.row \in late
    BY DEF FlightInv
  <2> QED BY <1>1, <1>3, <2>1, <2>2, <1>2 DEF OutcomeInv, SuccessIsWhole, RollbackIsComplete
<1> QED BY <1>7, <1>8, <1>11, <1>12, <1>13

\* A step of one chunk, which comes to w with the requests R and n calls made.
LEMMA ChunkStep ==
  ASSUME IInv, Working, NEW k \in Chunks, NEW w \in {"sending", "waiting", "done", "failed"},
         NEW R \in SUBSET Chunk(batch, k), NEW n \in 0 .. WriteTries,
         at' = [at EXCEPT ![k] = w],
         reqs' = [reqs EXCEPT ![k] = R],
         tries' = [tries EXCEPT ![k] = n],
         next' \in Nat \ {0},
         \A l \in Chunks : l >= next' <=> (l >= next /\ l # k),
         w = "waiting" => n < WriteTries,
         \A q \in transit : q.row \notin Chunk(batch, k) => q \in transit',
         \A q \in transit' : \/ q \in transit
                             \/ w = "sending" /\ q.op = Op /\ q.row \in R /\ q \in Request,
         \A q \in transit' : phase = "writing" /\ q.row \in Chunk(batch, k) =>
                               w = "failed" \/ (w = "sending" /\ q.row \in R),
         phase = "writing" /\ w \in {"sending", "waiting"} => \A i \in R : table[i] = "ABSENT",
         \A i \in Chunk(batch, k) :
           /\ w = "done" => Settled(i)
           /\ w = "sending" => Settled(i) \/ (i \in R /\ [op |-> Op, row |-> i] \in transit')
           /\ w = "waiting" => Settled(i) \/ i \in R,
         Cardinality(Active') <= IF phase = "writing" THEN WriteInFlight ELSE 1,
         UNCHANGED <<table, phase, outcome, batch, clock, undoFrom, late>>
  PROVE  IInv'
<1> USE DEF IInv
<1>1. /\ batch \subseteq Items /\ \A l : Chunk(batch, l) \subseteq batch
      /\ at \in [Chunks -> {"idle", "sending", "waiting", "done", "failed"}]
      /\ reqs \in [Chunks -> SUBSET Items] /\ tries \in [Chunks -> 0 .. WriteTries]
      /\ phase \in {"writing", "deleting"}
  BY DEF TypeInv, Chunk, Working
<1>2. /\ at'[k] = w /\ reqs'[k] = R /\ tries'[k] = n
      /\ \A l \in Chunks : l # k => at'[l] = at[l] /\ reqs'[l] = reqs[l] /\ tries'[l] = tries[l]
  BY <1>1
<1>3. /\ Working' /\ Op' = Op /\ \A l : Chunk(batch, l)' = Chunk(batch, l)
      /\ \A i : Settled(i)' = Settled(i)
  BY DEF Working, Op, Chunk, Settled
<1>4. \A l \in Chunks : \A i : i \in Chunk(batch, l) /\ i \in Chunk(batch, k) => l = k
  BY ChunksAreDisjoint
<1>5. TypeInv'
  <2>1. transit' \subseteq Request
    BY DEF TypeInv
  <2> QED BY <1>1, <2>1 DEF TypeInv
<1>6. TimeInv'
  BY DEF TimeInv
<1>7. ChunkInv'
  <2> SUFFICES ASSUME NEW l \in Chunks
               PROVE  /\ at'[l] = "idle" <=> l >= next'
                      /\ at'[l] = "waiting" => tries'[l] < WriteTries
                      /\ at'[l] # "idle" => reqs'[l] \subseteq Chunk(batch, l)
                      /\ \A i \in Chunk(batch, l) :
                           /\ at'[l] = "done" => Settled(i)
                           /\ at'[l] = "sending" => \/ Settled(i)
                                                    \/ i \in reqs'[l] /\ [op |-> Op, row |-> i] \in transit'
                           /\ at'[l] = "waiting" => Settled(i) \/ i \in reqs'[l]
    BY <1>3 DEF ChunkInv
  <2>1. CASE l = k
    BY <1>2, <2>1
  <2>2. CASE l # k
    <3>1. \A i \in Chunk(batch, l) : [op |-> Op, row |-> i] \in transit => [op |-> Op, row |-> i] \in transit'
      BY <1>4, <2>2
    <3> QED BY <1>2, <2>2, <3>1 DEF ChunkInv
  <2> QED BY <2>1, <2>2
<1>8. FlightInv'
  <2>1. Op = IF phase = "writing" THEN "put" ELSE "delete"
    BY DEF Op
  <2>2. phase = "deleting" => \A i \in R : table[i] # "ABSENT"
    BY <1>1 DEF FlightInv
  <2>3. \A q \in transit' : /\ q.op = "put" => table[q.row] = "ABSENT"
                            /\ q.op = "delete" => table[q.row] # "ABSENT"
    BY <1>1, <2>1, <2>2 DEF FlightInv
  <2>4. phase = "writing" => \A q \in transit' : q.op = "put"
    BY <2>1 DEF FlightInv
  <2>5. phase = "deleting" => \A q \in transit' : q.op = "put" => q.row \in late
    BY <2>1 DEF FlightInv
  <2>6. ASSUME phase = "writing", NEW l \in Chunks
        PROVE  /\ \A q \in transit' : q.row \in Chunk(batch, l) =>
                    at'[l] = "failed" \/ (at'[l] = "sending" /\ q.row \in reqs'[l])
               /\ at'[l] = "waiting" => \A i \in reqs'[l] : table[i] = "ABSENT"
               /\ at'[l] = "idle" => \A i \in Chunk(batch, l) : table[i] = "ABSENT"
    <3>1. CASE l = k
      BY <1>2, <2>6, <3>1
    <3>2. CASE l # k
      <4>1. \A q \in transit' : q.row \in Chunk(batch, l) => q \in transit
        BY <1>4, <3>2
      <4> QED BY <1>2, <2>6, <3>2, <4>1 DEF FlightInv
    <3> QED BY <3>1, <3>2
  <2>7. outcome # "undone"
    BY <1>1 DEF TimeInv
  <2> QED BY <1>1, <1>3, <2>3, <2>4, <2>5, <2>6, <2>7 DEF FlightInv
<1>9. OutcomeInv'
  BY <1>1 DEF OutcomeInv, SuccessIsWhole, RollbackIsComplete, TimeInv
<1> QED BY <1>5, <1>6, <1>7, <1>8, <1>9

\* What is known of a chunk that is at work.
LEMMA AtWorkFacts ==
  ASSUME IInv, Working, NEW k \in Chunks, at[k] \in {"sending", "waiting"}
  PROVE  /\ reqs[k] \in SUBSET Chunk(batch, k) /\ tries[k] \in 0 .. WriteTries
         /\ reqs' = reqs => reqs' = [reqs EXCEPT ![k] = reqs[k]]
         /\ tries' = tries => tries' = [tries EXCEPT ![k] = tries[k]]
         /\ next' = next => /\ next' \in Nat \ {0}
                            /\ \A l \in Chunks : l >= next' <=> (l >= next /\ l # k)
         /\ Cardinality(Active) <= IF phase = "writing" THEN WriteInFlight ELSE 1
         /\ Cardinality(Active) \in Nat
         /\ k \in Active /\ Active \in SUBSET Chunks
<1> USE DEF IInv
<1>1. reqs[k] \in SUBSET Chunk(batch, k) /\ tries[k] \in 0 .. WriteTries
  BY DEF TypeInv, ChunkInv
<1>2. reqs = [reqs EXCEPT ![k] = reqs[k]] /\ tries = [tries EXCEPT ![k] = tries[k]]
  BY DEF TypeInv
<1>3. ~(k >= next) /\ next \in Nat \ {0}
  BY DEF TypeInv, ChunkInv
<1>4. Active \in SUBSET Chunks /\ k \in Active
  BY DEF Active
<1>5. Cardinality(Active) \in Nat
  BY <1>4, AtWork
<1> QED BY <1>1, <1>2, <1>3, <1>4, <1>5 DEF TimeInv

\* A chunk that is at work already, or is so no more, brings no other to work.
LEMMA NoMoreAtWork ==
  ASSUME IInv, Working, NEW k \in Chunks, at[k] \in {"sending", "waiting"},
         NEW w \in {"sending", "waiting", "done", "failed"}, at' = [at EXCEPT ![k] = w]
  PROVE  Cardinality(Active') <= IF phase = "writing" THEN WriteInFlight ELSE 1
<1>1. /\ Cardinality(Active) <= IF phase = "writing" THEN WriteInFlight ELSE 1
      /\ Cardinality(Active) \in Nat
      /\ k \in Active /\ Active \in SUBSET Chunks
  BY AtWorkFacts
<1>2. Active' \subseteq Active
  BY <1>1 DEF Active, IInv, TypeInv
<1> DEFINE c == Cardinality(Active)
           d == Cardinality(Active')
           m == IF phase = "writing" THEN WriteInFlight ELSE 1
<1>3. d \in Nat /\ d <= c /\ c \in Nat /\ c <= m
  BY <1>1, <1>2, AtWork
<1>4. m \in Nat
  BY Deadlines
<1> HIDE DEF c, d, m
<1>5. d <= m
  BY <1>3, <1>4
<1> QED BY <1>5 DEF d, m

LEMMA StartChunkStep == IInv /\ StartChunk => IInv'
<1> SUFFICES ASSUME IInv, StartChunk PROVE IInv'
  OBVIOUS
<1> DEFINE R == Chunk(batch, next)
<1>1. /\ Working /\ next \in Nat \ {0} /\ next <= LastChunk(batch) /\ batch \in SUBSET Items
      /\ next' = next + 1
      /\ at' = [at EXCEPT ![next] = "sending"] /\ reqs' = [reqs EXCEPT ![next] = R]
      /\ tries' = [tries EXCEPT ![next] = 1] /\ transit' = transit \cup Sent(R)
      /\ UNCHANGED <<table, phase, outcome, batch, clock, undoFrom, late>>
  BY DEF StartChunk, IInv, TypeInv
<1>2. next \in Chunks
  BY <1>1, ChunkNumbers
<1>3. at[next] = "idle"
  BY <1>1, <1>2 DEF IInv, ChunkInv
<1>4. \A l \in Chunks : l >= next' <=> (l >= next /\ l # next)
  BY <1>1 DEF Chunks
<1>5. 1 \in 0 .. WriteTries
  BY Deadlines
<1>6. R \subseteq Items /\ Op \in {"put", "delete"}
  BY <1>1 DEF Chunk, Op
<1>7. \A q \in Sent(R) : q.op = Op /\ q.row \in R /\ q \in Request
  BY <1>6 DEF Sent, Request
<1>8. \A i \in R : [op |-> Op, row |-> i] \in Sent(R)
  BY DEF Sent
<1>9. phase = "writing" => \A i \in R : table[i] = "ABSENT"
  BY <1>2, <1>3 DEF IInv, FlightInv
<1>10. \A q \in transit : phase = "writing" /\ q.row \in R => FALSE
  BY <1>2, <1>3 DEF IInv, FlightInv
<1>11. Cardinality(Active') <= IF phase = "writing" THEN WriteInFlight ELSE 1
  <2> DEFINE c == Cardinality(Active)
             d == Cardinality(Active')
             e == Cardinality(Active \cup {next})
             m == IF phase = "writing" THEN WriteInFlight ELSE 1
  <2>1. Active \in SUBSET Chunks /\ Active \cup {next} \in SUBSET Chunks /\ Active' \subseteq Active \cup {next}
    BY <1>1, <1>2 DEF Active, IInv, TypeInv
  <2>2. c \in Nat /\ e <= c + 1
    BY <1>2, <2>1, AtWork
  <2>3. e \in Nat /\ d \in Nat /\ d <= e
    BY <2>1, AtWork
  <2>4. c < m /\ m \in Nat
    <3>1. CASE phase = "writing"
      BY <3>1, Deadlines DEF StartChunk, MayStart, FreeSlot, Holding, Active
    <3>2. CASE phase # "writing"
      BY <3>2, FS_EmptySet DEF StartChunk, MayStart
    <3> QED BY <3>1, <3>2
  <2> HIDE DEF c, d, e, m
  <2>5. d <= m
    BY <2>2, <2>3, <2>4
  <2> QED BY <2>5 DEF d, m
<1> HIDE DEF R
<1>12. /\ R \in SUBSET Chunk(batch, next) /\ \A i \in Chunk(batch, next) : i \in R
  BY DEF R
<1>13. \A q \in transit' : q \in transit \/ (q.op = Op /\ q.row \in R /\ q \in Request)
  BY <1>1, <1>7
<1>14. \A i \in Chunk(batch, next) : [op |-> Op, row |-> i] \in transit'
  BY <1>1, <1>8, <1>12
<1>15. \A q \in transit : q \in transit'
  BY <1>1
<1>16. next' \in Nat \ {0}
  BY <1>1
<1>17. \A q \in transit' : phase = "writing" /\ q.row \in Chunk(batch, next) => q.row \in R
  BY <1>12
<1> QED BY <1>1, <1>2, <1>4, <1>5, <1>9, <1>11, <1>12, <1>13, <1>14, <1>15, <1>16, <1>17, ChunkStep

LEMMA CallReturnsStep ==
  ASSUME IInv, NEW k \in Chunks, CallReturns(k)
  PROVE  IInv'
<1> DEFINE R == Unprocessed(k)
           n == tries[k]
           w == IF R = {} THEN "done" ELSE IF n = WriteTries THEN "failed" ELSE "waiting"
<1>1. /\ Working /\ at[k] = "sending"
      /\ at' = [at EXCEPT ![k] = w] /\ reqs' = [reqs EXCEPT ![k] = R]
      /\ transit' = transit \ Sent(reqs[k])
      /\ UNCHANGED <<table, phase, outcome, batch, next, tries, clock, undoFrom, late>>
  BY DEF CallReturns
<1>2. /\ reqs[k] \in SUBSET Chunk(batch, k) /\ n \in 0 .. WriteTries
      /\ tries' = [tries EXCEPT ![k] = n]
      /\ next' \in Nat \ {0} /\ \A l \in Chunks : l >= next' <=> (l >= next /\ l # k)
  BY <1>1, AtWorkFacts
<1>3. w \in {"waiting", "done", "failed"} /\ (w = "waiting" => n # WriteTries) /\ (w = "done" => R = {})
  OBVIOUS
<1>4. R \subseteq reqs[k] /\ \A i \in reqs[k] : i \in R <=> [op |-> Op, row |-> i] \in transit
  BY DEF Unprocessed
<1> HIDE DEF R, w
<1>5. w = "waiting" => n < WriteTries
  BY <1>2, <1>3, Deadlines
<1>6. \A q \in transit : q.row \notin Chunk(batch, k) => q \in transit'
  BY <1>1, <1>2 DEF Sent
<1>7. \A q \in transit' : q \in transit
  BY <1>1
<1>8. ASSUME NEW q \in transit', phase = "writing", q.row \in Chunk(batch, k) PROVE FALSE
  <2>1. q \in transit /\ q.op = "put" /\ q.row \in reqs[k] /\ q \in Request
    BY <1>1, <1>8 DEF IInv, TypeInv, FlightInv
  <2>2. q \in Sent(reqs[k])
    BY <1>8, <2>1 DEF Sent, Op, Request
  <2> QED BY <1>1, <2>2
<1>9. phase = "writing" => \A i \in R : table[i] = "ABSENT"
  <2> SUFFICES ASSUME phase = "writing", NEW i \in R PROVE table[i] = "ABSENT"
    OBVIOUS
  <2> DEFINE q == [op |-> Op, row |-> i]
  <2>1. q \in transit /\ q.op = "put" /\ q.row = i
    BY <1>4 DEF Op
  <2> HIDE DEF q
  <2> QED BY <2>1 DEF IInv, FlightInv
<1>10. \A i \in Chunk(batch, k) : Settled(i) \/ i \in R
  BY <1>1, <1>4 DEF IInv, ChunkInv
<1>11. R \in SUBSET Chunk(batch, k)
  BY <1>2, <1>4
<1>12. Cardinality(Active') <= IF phase = "writing" THEN WriteInFlight ELSE 1
  BY <1>1, <1>3, NoMoreAtWork
<1> HIDE DEF n
<1> QED BY <1>1, <1>2, <1>3, <1>5, <1>6, <1>7, <1>8, <1>9, <1>10, <1>11, <1>12, ChunkStep

LEMMA CallErrsStep ==
  ASSUME IInv, NEW k \in Chunks, NEW dropped \in SUBSET transit, CallErrs(k, dropped)
  PROVE  IInv'
<1> DEFINE R == reqs[k]
           n == tries[k]
<1>1. /\ Working /\ at[k] = "sending"
      /\ dropped \subseteq Sent(R) /\ transit' = transit \ dropped
      /\ at' = [at EXCEPT ![k] = "failed"]
      /\ UNCHANGED <<table, phase, outcome, batch, next, reqs, tries, clock, undoFrom, late>>
  BY DEF CallErrs
<1>2. /\ R \in SUBSET Chunk(batch, k) /\ n \in 0 .. WriteTries
      /\ reqs' = [reqs EXCEPT ![k] = R] /\ tries' = [tries EXCEPT ![k] = n]
      /\ next' \in Nat \ {0} /\ \A l \in Chunks : l >= next' <=> (l >= next /\ l # k)
  BY <1>1, AtWorkFacts
<1>3. Cardinality(Active') <= IF phase = "writing" THEN WriteInFlight ELSE 1
  BY <1>1, NoMoreAtWork
<1>4. \A q \in transit : q.row \notin Chunk(batch, k) => q \in transit'
  BY <1>1, <1>2 DEF Sent
<1>5. \A q \in transit' : q \in transit
  BY <1>1
<1> HIDE DEF R, n
<1> QED BY <1>1, <1>2, <1>3, <1>4, <1>5, ChunkStep

LEMMA SendAgainStep ==
  ASSUME IInv, NEW k \in Chunks, SendAgain(k)
  PROVE  IInv'
<1> DEFINE R == reqs[k]
           n == tries[k] + 1
<1>1. /\ Working /\ at[k] = "waiting"
      /\ at' = [at EXCEPT ![k] = "sending"] /\ tries' = [tries EXCEPT ![k] = n]
      /\ transit' = transit \cup Sent(R)
      /\ UNCHANGED <<table, phase, outcome, batch, next, reqs, clock, undoFrom, late>>
  BY DEF SendAgain, IInv, TypeInv
<1>2. /\ R \in SUBSET Chunk(batch, k) /\ tries[k] \in 0 .. WriteTries
      /\ reqs' = [reqs EXCEPT ![k] = R]
      /\ next' \in Nat \ {0} /\ \A l \in Chunks : l >= next' <=> (l >= next /\ l # k)
  BY <1>1, AtWorkFacts
<1>3. n \in 0 .. WriteTries
  BY <1>1, <1>2, Deadlines DEF IInv, ChunkInv
<1>4. Cardinality(Active') <= IF phase = "writing" THEN WriteInFlight ELSE 1
  BY <1>1, NoMoreAtWork
<1>5. R \subseteq Items /\ Op \in {"put", "delete"}
  BY <1>2 DEF Chunk, Op, IInv, TypeInv
<1>6. \A q \in Sent(R) : q.op = Op /\ q.row \in R /\ q \in Request
  BY <1>5 DEF Sent, Request
<1>7. \A i \in R : [op |-> Op, row |-> i] \in Sent(R)
  BY DEF Sent
<1>8. phase = "writing" => /\ \A i \in R : table[i] = "ABSENT"
                           /\ \A q \in transit : q.row \notin Chunk(batch, k)
  BY <1>1 DEF IInv, FlightInv
<1>9. \A i \in Chunk(batch, k) : Settled(i) \/ i \in R
  BY <1>1 DEF IInv, ChunkInv
<1> HIDE DEF R, n
<1>10. \A i \in Chunk(batch, k) : Settled(i) \/ (i \in R /\ [op |-> Op, row |-> i] \in transit')
  BY <1>1, <1>7, <1>9
<1>11. \A q \in transit' : q \in transit \/ (q.op = Op /\ q.row \in R /\ q \in Request)
  BY <1>1, <1>6
<1>12. \A q \in transit : q \in transit'
  BY <1>1
<1>13. \A q \in transit' : phase = "writing" /\ q.row \in Chunk(batch, k) => q.row \in R
  BY <1>8, <1>11
<1> QED BY <1>1, <1>2, <1>3, <1>4, <1>8, <1>10, <1>11, <1>12, <1>13, ChunkStep

LEMMA GiveUpStep ==
  ASSUME IInv, NEW k \in Chunks, GiveUp(k)
  PROVE  IInv'
<1> DEFINE R == reqs[k]
           n == tries[k]
<1>1. /\ Working /\ at[k] = "waiting" /\ at' = [at EXCEPT ![k] = "failed"]
      /\ UNCHANGED <<table, transit, phase, outcome, batch, next, reqs, tries, clock, undoFrom, late>>
  BY DEF GiveUp
<1>2. /\ R \in SUBSET Chunk(batch, k) /\ n \in 0 .. WriteTries
      /\ reqs' = [reqs EXCEPT ![k] = R] /\ tries' = [tries EXCEPT ![k] = n]
      /\ next' \in Nat \ {0} /\ \A l \in Chunks : l >= next' <=> (l >= next /\ l # k)
  BY <1>1, AtWorkFacts
<1>3. Cardinality(Active') <= IF phase = "writing" THEN WriteInFlight ELSE 1
  BY <1>1, NoMoreAtWork
<1> HIDE DEF R, n
<1> QED BY <1>1, <1>2, <1>3, ChunkStep

-----------------------------------------------------------------------------
(* The theorems.                                                           *)

LEMMA StepInv == IInv /\ [Next]_vars => IInv'
<1> SUFFICES ASSUME IInv, [Next]_vars PROVE IInv'
  OBVIOUS
<1>1. CASE Tick \/ Kill \/ StartChunk
  BY <1>1, TickStep, KillStep, StartChunkStep
<1>2. ASSUME NEW r \in transit, Land(r) PROVE IInv'
  BY <1>2, LandStep
<1>3. ASSUME NEW k \in Chunks,
             \/ CallReturns(k)
             \/ \E dropped \in SUBSET transit : CallErrs(k, dropped)
             \/ SendAgain(k)
             \/ GiveUp(k)
      PROVE  IInv'
  BY <1>3, CallReturnsStep, CallErrsStep, SendAgainStep, GiveUpStep
<1>4. CASE Created \/ Undo \/ List \/ ListFails \/ Undone
  BY <1>4, CreatedStep, UndoStep, ListStep, ListFailsStep, UndoneStep
<1>5. CASE UNCHANGED vars
  <2>1. clock' \in Nat /\ (phase = "writing" => clock' <= WriteDeadline) /\ clock' >= clock
    BY <1>5 DEF vars, IInv, TypeInv, TimeInv
  <2> QED BY <1>5, <2>1, RowsUntouched DEF vars
<1> QED BY <1>1, <1>2, <1>3, <1>4, <1>5 DEF Next

LEMMA Invariance == Spec => []IInv
  BY InitInv, StepInv, PTL DEF Spec

\* A chunk makes at most writeTries calls, and no more chunks are under way than
\* writeInFlight (batchWriteAll, batchWrite).
THEOREM TypeCorrect == Spec => []TypeOK
<1>1. IInv => TypeOK
  BY DEF IInv, TypeInv, TimeInv, TypeOK
<1> QED BY <1>1, Invariance, PTL

\* A batch that was recorded is whole, and nothing of it is still under way (Create,
\* batchWrite's unprocessed requests).
THEOREM RecordedIsWhole == Spec => []SuccessIsWhole
<1>1. IInv => SuccessIsWhole
  BY DEF IInv, OutcomeInv
<1> QED BY <1>1, Invariance, PTL

\* A rollback that reports no error has deleted every row it could read (deleteBatch).
THEOREM RolledBackIsGone == Spec => []RollbackIsComplete
<1>1. IInv => RollbackIsComplete
  BY DEF IInv, OutcomeInv
<1> QED BY <1>1, Invariance, PTL

\* The process is killed only after the rollback had its whole time (writeDeadline).
THEOREM RollbackIsInTime == Spec => []RollbackHasItsTime
<1>1. IInv => RollbackHasItsTime
  BY DEF IInv, TimeInv, RollbackHasItsTime
<1> QED BY <1>1, Invariance, PTL

\* What a step does to the rows is a step of the life cycle.
LEMMA StepOfLifecycle ==
  IInv /\ IInv' /\ [Next]_vars => [Lifecycle!Next]_(Lifecycle!vars)
<1> DEFINE st == [i \in Items |-> IF table[i] = "PRESENT" THEN "QUEUED" ELSE table[i]]
           tr == [i \in Items |-> IF table[i] = "PRESENT" THEN 1 ELSE 0]
           ok == (outcome = "ok")
<1> SUFFICES ASSUME IInv, IInv', [Next]_vars
             PROVE  Lifecycle!Next \/ UNCHANGED <<st, tr, ok>>
  BY DEF Lifecycle!vars
<1>1. \A i \in Items : table[i] \in {"ABSENT", "PRESENT", "REMOVED"}
  BY DEF IInv, TypeInv
<1>2. ASSUME NEW r \in transit, Land(r) PROVE Lifecycle!Next \/ UNCHANGED <<st, tr, ok>>
  <2> DEFINE i == r.row
             row == IF r.op = "put" THEN "PRESENT" ELSE "REMOVED"
  <2>1. /\ i \in Items /\ r.op \in {"put", "delete"}
        /\ r.op = "put" => table[i] = "ABSENT"
        /\ r.op = "delete" => table[i] # "ABSENT"
    BY DEF IInv, TypeInv, Request, FlightInv
  <2>2. table' = [table EXCEPT ![i] = row] /\ outcome' = outcome /\ outcome # "ok"
    BY <1>2 DEF Land, IInv, OutcomeInv, SuccessIsWhole
  <2>3. table \in [Items -> {"ABSENT", "PRESENT", "REMOVED"}]
    BY DEF IInv, TypeInv
  <2> HIDE DEF i
  <2>4. CASE r.op = "put"
    <3>1. st' = [st EXCEPT ![i] = "QUEUED"] /\ tr' = [tr EXCEPT ![i] = 1]
      BY <2>1, <2>2, <2>3, <2>4
    <3>2. st[i] = "ABSENT" /\ ~ok /\ ok' = ok
      BY <2>1, <2>2, <2>4
    <3>3. Lifecycle!Submit(i)
      BY <3>1, <3>2 DEF Lifecycle!Submit, Lifecycle!Move, Lifecycle!Place
    <3> QED BY <2>1, <3>3 DEF Lifecycle!Next
  <2>5. CASE r.op = "delete" /\ table[i] = "PRESENT"
    <3>1. st' = [st EXCEPT ![i] = "REMOVED"] /\ tr' = [tr EXCEPT ![i] = 0]
      BY <2>1, <2>2, <2>3, <2>5
    <3>2. st[i] = "QUEUED" /\ ~ok /\ ok' = ok
      BY <2>1, <2>2, <2>5
    <3>3. Lifecycle!Withdraw(i)
      BY <3>1, <3>2 DEF Lifecycle!Withdraw, Lifecycle!Move, Lifecycle!Place, Lifecycle!NoRow
    <3> QED BY <2>1, <3>3 DEF Lifecycle!Next
  <2>6. CASE r.op = "delete" /\ table[i] = "REMOVED"
    <3>1. table' = table
      BY <2>2, <2>3, <2>6
    <3> QED BY <2>2, <3>1
  <2> QED BY <1>1, <2>1, <2>4, <2>5, <2>6
<1>3. CASE Created
  <2>1. /\ table' = table /\ outcome' = "ok" /\ outcome # "ok"
        /\ \A i \in Items : table[i] = "PRESENT"
    BY <1>3 DEF Created, Answers, IInv, OutcomeInv, SuccessIsWhole, TimeInv
  <2>2. /\ st' = st /\ tr' = tr /\ ok' = TRUE /\ ok = FALSE
        /\ \A i \in Items : st[i] = "QUEUED"
    BY <2>1
  <2>3. Lifecycle!Accept
    BY <2>2 DEF Lifecycle!Accept, Lifecycle!NoRow
  <2> QED BY <2>3 DEF Lifecycle!Next
<1>4. CASE Kill \/ ListFails \/ Undone
  <2>1. table' = table /\ outcome # "ok" /\ outcome' # "ok"
    BY <1>4 DEF Kill, ListFails, Undone, Answers, IInv, TimeInv
  <2> QED BY <2>1
<1>5. CASE UNCHANGED <<table, outcome>>
  BY <1>5
<1>6. ASSUME NEW k \in Chunks,
             \/ CallReturns(k)
             \/ \E dropped \in SUBSET transit : CallErrs(k, dropped)
             \/ SendAgain(k)
             \/ GiveUp(k)
      PROVE  UNCHANGED <<table, outcome>>
  BY <1>6 DEF CallReturns, CallErrs, SendAgain, GiveUp
<1>7. Tick \/ StartChunk \/ Undo \/ List \/ UNCHANGED vars => UNCHANGED <<table, outcome>>
  BY DEF Tick, StartChunk, Undo, List, vars
<1> HIDE DEF st, tr, ok
<1> QED BY <1>2, <1>3, <1>4, <1>5, <1>6, <1>7 DEF Next

\* Create implements the submit of the item life cycle: rows come and go one by one, and
\* none does once the batch is recorded.
THEOREM Implementation == Spec => ImplementsLifecycle
<1>1. Init => Lifecycle!Init
  BY DEF Init, Lifecycle!Init
<1>2. Spec => [][Lifecycle!Next]_(Lifecycle!vars)
  BY Invariance, StepOfLifecycle, PTL DEF Spec
<1> QED BY <1>1, <1>2, PTL DEF Spec, ImplementsLifecycle, Lifecycle!Spec
-----------------------------------------------------------------------------
(* Why Create ends: every step brings it nearer.                            *)

\* The phases still to come, and the steps a chunk of this phase may still take: its
\* start, and per call one that ends it and one that tries again.
PhasesLeft == [writing |-> 3, listing |-> 2, deleting |-> 1, over |-> 0][phase]
StepsOf(place, made) ==
  CASE place = "idle"    -> 2 * WriteTries + 1
    [] place = "sending" -> 2 * (WriteTries - made) + 2
    [] place = "waiting" -> 2 * (WriteTries - made) + 1
    [] OTHER             -> 0
Left      == [k \in Chunks |-> StepsOf(at[k], tries[k])]
StepsLeft == SumFunctionOnSet(Left, Chunks)

\* What DynamoDB and the clock may still do without Create.
Underway == Cardinality(transit) + (Deadline - clock)

\* Nearer to the end, in the order of the phases, then of the chunks' steps, then of
\* what is under way.
Nearer ==
  \/ PhasesLeft' < PhasesLeft
  \/ PhasesLeft' = PhasesLeft /\ StepsLeft' < StepsLeft
  \/ PhasesLeft' = PhasesLeft /\ StepsLeft' = StepsLeft /\ Underway' < Underway

LEMMA RequestsAreFinite == IsFiniteSet(Request)
<1> DEFINE P == {"put", "delete"} \X Items
           f == [r \in Request |-> <<r.op, r.row>>]
<1>1. IsFiniteSet({"put", "delete"})
  <2>1. IsFiniteSet({} \cup {"put"})
    BY FS_EmptySet, FS_AddElement
  <2>2. IsFiniteSet(({} \cup {"put"}) \cup {"delete"})
    BY <2>1, FS_AddElement
  <2>3. ({} \cup {"put"}) \cup {"delete"} = {"put", "delete"}
    OBVIOUS
  <2>4. QED
    BY <2>2, <2>3
<1>2. IsFiniteSet(Items)
  BY CreateAssumption, FS_Interval DEF Items
<1>3. IsFiniteSet(P)
  BY <1>1, <1>2, FS_Product
<1>4. f \in Injection(Request, P)
  <2>1. f \in [Request -> P]
    BY DEF Request
  <2>2. \A a, b \in Request : f[a] = f[b] => a = b
    BY DEF Request
  <2>3. QED
    BY <2>1, <2>2 DEF Injection, IsInjective
<1>5. QED
  BY <1>3, <1>4, FS_Injection

LEMMA StepsAreNat == TypeInv => \A k \in Chunks : Left[k] \in Nat
<1> SUFFICES ASSUME TypeInv, NEW k \in Chunks PROVE StepsOf(at[k], tries[k]) \in Nat
  BY DEF Left
<1>1. tries[k] \in 0 .. WriteTries
  BY DEF TypeInv
<1>2. QED
  BY <1>1, Deadlines DEF StepsOf

\* The measures are natural numbers: the clock does not pass the deadline.
InTime == clock <= Deadline

LEMMA MeasuresAreNat == IInv /\ InTime => PhasesLeft \in Nat /\ StepsLeft \in Nat /\ Underway \in Nat
<1> SUFFICES ASSUME IInv, InTime
             PROVE  PhasesLeft \in Nat /\ StepsLeft \in Nat /\ Underway \in Nat
  OBVIOUS
<1>1. PhasesLeft \in Nat
  BY DEF PhasesLeft, IInv, TypeInv
<1>2. StepsLeft \in Nat
  BY AtWork, StepsAreNat, SumIsNat DEF StepsLeft, IInv
<1>3. Cardinality(transit) \in Nat
  BY RequestsAreFinite, FS_Subset, FS_CardinalityType DEF IInv, TypeInv
<1>4. Underway \in Nat
  BY <1>3, Deadlines DEF Underway, InTime, IInv, TypeInv
<1>5. QED
  BY <1>1, <1>2, <1>4

LEMMA NextInTime == IInv /\ InTime /\ [Next]_vars => InTime'
<1> SUFFICES ASSUME IInv, InTime, [Next]_vars PROVE InTime'
  OBVIOUS
<1>1. CASE Tick
  <2>1. clock < Deadline
    BY <1>1, Deadlines DEF Tick, ContextEnded, IInv, TypeInv, TimeInv
  <2>2. QED
    BY <1>1, <2>1, Deadlines DEF Tick, InTime, IInv, TypeInv
<1>2. ASSUME clock' = clock PROVE InTime'
  BY <1>2 DEF InTime
<1>3. ASSUME Next, ~Tick PROVE clock' = clock
  BY <1>3 DEF Next, Kill, StartChunk, Land, CallReturns, CallErrs, SendAgain, GiveUp,
              Created, Undo, List, ListFails, Undone
<1>4. QED
  BY <1>1, <1>2, <1>3 DEF vars

\* A step of one chunk.
LEMMA ChunkIsNearer ==
  ASSUME TypeInv, TypeInv', phase' = phase, NEW k \in Chunks, NEW place, NEW made,
         at' = [at EXCEPT ![k] = place], tries' = [tries EXCEPT ![k] = made],
         StepsOf(place, made) < StepsOf(at[k], tries[k])
  PROVE  Nearer
<1> DEFINE f == Left
           g == Left'
<1>1. IsFiniteSet(Chunks)
  BY AtWork
<1>2. \A l \in Chunks : f[l] \in Nat
  BY StepsAreNat
<1>3. \A l \in Chunks : g[l] \in Nat
  <2>1. Left' = [l \in Chunks |-> StepsOf(at'[l], tries'[l])]
    BY DEF Left, StepsOf
  <2>2. \A l \in Chunks : tries'[l] \in 0 .. WriteTries
    BY DEF TypeInv
  <2>3. \A l \in Chunks : StepsOf(at'[l], tries'[l]) \in Nat
    BY <2>2, Deadlines DEF StepsOf
  <2>4. QED
    BY <2>1, <2>3
<1>4. /\ \A l \in Chunks \ {k} : f[l] = g[l]
      /\ g[k] < f[k]
  <2>1. /\ at'[k] = place /\ tries'[k] = made
        /\ \A l \in Chunks \ {k} : at'[l] = at[l] /\ tries'[l] = tries[l]
    BY DEF TypeInv
  <2>2. Left' = [l \in Chunks |-> StepsOf(at'[l], tries'[l])]
    BY DEF Left, StepsOf
  <2>3. QED
    BY <2>1, <2>2 DEF Left
<1>5. StepsLeft = SumFunctionOnSet(f, Chunks) /\ StepsLeft' = SumFunctionOnSet(g, Chunks)
  BY DEF StepsLeft, Chunks
<1> HIDE DEF f, g
<1>6. SumFunctionOnSet(g, Chunks) < SumFunctionOnSet(f, Chunks)
  BY <1>1, <1>2, <1>3, <1>4, SmallerSum
<1>7. QED
  BY <1>5, <1>6 DEF Nearer, PhasesLeft

LEMMA StepIsNearer ==
  ASSUME IInv, IInv', InTime, InTime', Next
  PROVE  Nearer
<1>1. TypeInv /\ TypeInv' /\ transit \in SUBSET Request /\ clock \in Nat
  BY DEF IInv, TypeInv
<1>2. CASE Kill \/ Created \/ Undo \/ List \/ ListFails \/ Undone
  BY <1>2, <1>1 DEF Kill, Created, Undo, List, ListFails, Undone, Answers, Nearer, PhasesLeft,
                    TypeInv
<1>3. ASSUME UNCHANGED <<phase, at, tries>>, Underway' < Underway PROVE Nearer
  BY <1>3 DEF Nearer, PhasesLeft, StepsLeft, Left, StepsOf
<1>4. IsFiniteSet(transit) /\ Cardinality(transit) \in Nat
  BY <1>1, RequestsAreFinite, FS_Subset, FS_CardinalityType
<1>5. CASE Tick
  BY <1>1, <1>3, <1>4, <1>5, Deadlines DEF Tick, Underway
<1>6. ASSUME NEW r \in transit, Land(r) PROVE Nearer
  <2>1. Cardinality(transit') = Cardinality(transit) - 1
    BY <1>4, <1>6, FS_RemoveElement DEF Land
  <2>2. QED
    BY <1>1, <1>3, <1>4, <1>6, <2>1, Deadlines DEF Land, Underway
<1>7. CASE StartChunk
  <2>1. next \in Chunks
    BY <1>7, ChunkNumbers DEF StartChunk, IInv, TypeInv
  <2>2. at[next] = "idle" /\ Working
    BY <1>7, <2>1 DEF StartChunk, IInv, TypeInv, ChunkInv, Chunks
  <2>3. StepsOf("sending", 1) < StepsOf(at[next], tries[next])
    BY <2>2, Deadlines DEF StepsOf
  <2>4. QED
    BY <1>1, <1>7, <2>1, <2>3, ChunkIsNearer DEF StartChunk
<1>8. ASSUME NEW k \in Chunks,
             \/ CallReturns(k)
             \/ \E dropped \in SUBSET transit : CallErrs(k, dropped)
             \/ SendAgain(k)
             \/ GiveUp(k)
      PROVE  Nearer
  <2>1. tries[k] \in 0 .. WriteTries /\ phase' = phase
    BY <1>1, <1>8 DEF TypeInv, CallReturns, CallErrs, SendAgain, GiveUp
  <2>2. \/ /\ at[k] = "sending" /\ UNCHANGED tries
           /\ \E place \in {"done", "failed", "waiting"} : at' = [at EXCEPT ![k] = place]
        \/ /\ at[k] = "waiting" /\ at' = [at EXCEPT ![k] = "sending"]
           /\ tries' = [tries EXCEPT ![k] = tries[k] + 1]
        \/ at[k] = "waiting" /\ at' = [at EXCEPT ![k] = "failed"] /\ UNCHANGED tries
    BY <1>8 DEF CallReturns, CallErrs, SendAgain, GiveUp
  <2>3. tries = [tries EXCEPT ![k] = tries[k]]
    BY <1>1 DEF TypeInv
  <2>4. PICK place, made :
          /\ at' = [at EXCEPT ![k] = place] /\ tries' = [tries EXCEPT ![k] = made]
          /\ StepsOf(place, made) < StepsOf(at[k], tries[k])
    <3>1. /\ \A place \in {"done", "failed", "waiting"} :
               StepsOf(place, tries[k]) < StepsOf("sending", tries[k])
          /\ StepsOf("sending", tries[k] + 1) < StepsOf("waiting", tries[k])
          /\ StepsOf("failed", tries[k]) < StepsOf("waiting", tries[k])
      BY <2>1, Deadlines DEF StepsOf
    <3>2. QED
      BY <2>2, <2>3, <3>1
  <2>5. QED
    BY <1>1, <2>1, <2>4, ChunkIsNearer
<1>9. QED
  BY <1>2, <1>5, <1>6, <1>7, <1>8 DEF Next

\* Create ends, however DynamoDB answers and whatever it leaves unprocessed: every step
\* makes a measure smaller that cannot go down for ever, so there are finitely many
\* (writeTries bounds the calls, the contexts bound the time, no phase comes back).
THEOREM CreateIsFinite ==
  Spec => /\ [](PhasesLeft \in Nat /\ StepsLeft \in Nat /\ Underway \in Nat)
          /\ [][Nearer]_vars
<1> DEFINE Measured == PhasesLeft \in Nat /\ StepsLeft \in Nat /\ Underway \in Nat
<1>1. Init => InTime
  BY Deadlines DEF Init, InTime
<1>2. IInv /\ InTime => Measured
  BY MeasuresAreNat
<1>3. IInv /\ InTime /\ IInv' /\ InTime' /\ [Next]_vars => [Nearer]_vars
  BY StepIsNearer
<1> HIDE DEF Measured
<1>4. Spec => []Measured /\ [][Nearer]_vars
  BY <1>1, <1>2, <1>3, NextInTime, Invariance, PTL DEF Spec
<1>5. QED
  BY <1>4 DEF Measured
=============================================================================
