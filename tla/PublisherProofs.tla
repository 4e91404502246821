--------------------------- MODULE PublisherProofs ---------------------------
(***************************************************************************)
(* Proofs about Publisher, for every shard, batch, chunk size and number   *)
(* of calls in flight: its type, which bounds the calls, and that it       *)
(* implements RelayContract.                                               *)
(***************************************************************************)
EXTENDS Publisher, IntegerFacts, TLAPS, FiniteSetTheorems

-----------------------------------------------------------------------------
(* The chunks of a batch.                                                  *)

\* The bounds of the invocation: what the chunks need to be well defined.
InBounds ==
  /\ stream \in [1 .. Last -> Change]
  /\ position \in 1 .. (Last + 1)
  /\ size \in 0 .. (Last + 1 - position)

\* Work is finitely many records of the batch.
LEMMA WorkFacts ==
  ASSUME InBounds
  PROVE  /\ Batch \subseteq 1 .. Last
         /\ Work \subseteq Batch /\ IsFiniteSet(Work)
         /\ Cardinality(Work) \in 0 .. Last
         /\ \A k \in Work : stream[k] \in ItemChange
<1>1. Batch \subseteq 1 .. Last
  BY PublisherAssumption DEF InBounds, Batch
<1>2. Work \subseteq Batch /\ \A k \in Work : stream[k] \in ItemChange
  BY DEF Work, IsWork
<1>3. IsFiniteSet(1 .. Last) /\ Cardinality(1 .. Last) = Last
  BY FS_Interval, PublisherAssumption
<1>4. IsFiniteSet(Work) /\ Cardinality(Work) <= Last
  BY <1>1, <1>2, <1>3, FS_Subset
<1>5. Cardinality(Work) \in Nat
  BY <1>4, FS_CardinalityType
<1>6. QED
  BY <1>1, <1>2, <1>4, <1>5, PublisherAssumption

\* The work before a record is finite, and less than all of it.
LEMMA IndexType ==
  ASSUME InBounds, NEW k \in Work
  PROVE  Index(k) \in Nat /\ Index(k) < Cardinality(Work)
<1> DEFINE B == {j \in Work : j < k}
<1>1. IsFiniteSet(Work) /\ k \in Int
  BY WorkFacts
<1>2. B \subseteq Work /\ k \in Work \ B
  BY <1>1
<1>3. Index(k) = Cardinality(B)
  BY DEF Index
<1> HIDE DEF B
<1>4. /\ IsFiniteSet(B) /\ Cardinality(B) \in Nat
      /\ Cardinality(B) <= Cardinality(Work)
      /\ Cardinality(B) = Cardinality(Work) => B = Work
      /\ Cardinality(Work) \in Nat
  BY <1>1, <1>2, FS_Subset, FS_CardinalityType
<1>5. QED
  BY <1>2, <1>3, <1>4

\* Two records of the work have different places in the list.
LEMMA IndexIsInjective ==
  ASSUME InBounds, NEW j \in Work, NEW k \in Work, Index(j) = Index(k)
  PROVE  j = k
<1>1. \A i \in Work : i \in Int
  BY WorkFacts
<1>2. ASSUME NEW a \in Work, NEW b \in Work, a < b
      PROVE  Index(a) < Index(b)
  <2> DEFINE A == {i \in Work : i < a}
             B == {i \in Work : i < b}
  <2>1. A \cup {a} \subseteq B /\ a \notin A /\ B \subseteq Work /\ A \subseteq Work
    BY <1>1, <1>2
  <2>2. Index(a) = Cardinality(A) /\ Index(b) = Cardinality(B)
    BY DEF Index
  <2> HIDE DEF A, B
  <2>3. IsFiniteSet(A) /\ IsFiniteSet(B)
    BY <2>1, WorkFacts, FS_Subset
  <2>4. Cardinality(A) \in Nat /\ Cardinality(B) \in Nat
    BY <2>3, FS_CardinalityType
  <2>5. Cardinality(A \cup {a}) = Cardinality(A) + 1
    BY <2>1, <2>3, FS_AddElement
  <2>6. Cardinality(A \cup {a}) <= Cardinality(B)
    BY <2>1, <2>3, FS_Subset
  <2>7. QED
    BY <2>2, <2>4, <2>5, <2>6
<1>3. Index(j) \in Nat /\ Index(k) \in Nat
  BY IndexType
<1>4. j < k \/ k < j \/ j = k
  BY <1>1
<1>5. QED
  BY <1>2, <1>3, <1>4

\* A quotient and a remainder make the number.
LEMMA QuotientAndRemainder ==
  ASSUME NEW a \in Nat, NEW s \in Nat \ {0}
  PROVE  /\ a \div s \in Nat /\ a % s \in 0 .. (s - 1)
         /\ a = s * (a \div s) + (a % s)
BY Z3

\* A record is the one its chunk holds under its entry ID.
LEMMA EventOfEntry ==
  ASSUME InBounds, NEW c, NEW k \in Chunk(c)
  PROVE  Event(c, Entry(k)) = k
<1>1. ASSUME NEW j \in Chunk(c), Entry(j) = Entry(k)
      PROVE  j = k
  <2>1. j \in Work /\ k \in Work /\ ChunkOf(j) = ChunkOf(k)
    BY DEF Chunk
  <2>2. Index(j) \in Nat /\ Index(k) \in Nat
    BY <2>1, IndexType
  <2> DEFINE s == ChunkSize
  <2>3. s \in Nat \ {0}
    BY PublisherAssumption
  <2>4. Index(j) \div s + 1 = Index(k) \div s + 1 /\ Index(j) % s = Index(k) % s
    BY <1>1, <2>1 DEF ChunkOf, Entry
  <2> HIDE DEF s
  <2>5. /\ Index(j) \div s \in Nat /\ Index(j) = s * (Index(j) \div s) + (Index(j) % s)
        /\ Index(k) \div s \in Nat /\ Index(k) = s * (Index(k) \div s) + (Index(k) % s)
    BY <2>2, <2>3, QuotientAndRemainder
  <2>6. Index(j) \div s = Index(k) \div s
    BY <2>4, <2>5
  <2>7. Index(j) = Index(k)
    BY <2>4, <2>5, <2>6
  <2>8. QED
    BY <2>1, <2>7, IndexIsInjective
<1>2. QED
  BY <1>1 DEF Event

\* One divisor more is one more in the quotient.
LEMMA NextQuotient ==
  ASSUME NEW a \in Nat, NEW s \in Nat \ {0}
  PROVE  (a + s) \div s = a \div s + 1
<1> DEFINE p == a \div s
           q == (a + s) \div s
<1>1. p \in Int /\ s * p <= a /\ a < s * p + s
  BY DivisionBounds
<1>2. q \in Int /\ s * q <= a + s /\ a + s < s * q + s
  <2>1. a + s \in Int
    OBVIOUS
  <2>2. QED
    BY <2>1, DivisionBounds
<1> HIDE DEF p, q
<1>3. s * q < s * (p + 2) /\ s * (p + 1) < s * (q + 1)
  BY <1>1, <1>2, Z3
<1>4. q < p + 2 /\ p + 1 < q + 1
  BY <1>1, <1>2, <1>3, Z3
<1>5. QED
  BY <1>1, <1>2, <1>4 DEF p, q

\* The chunks are numbered from 1, there are no more than records, and each record
\* of the work is in one of them.
LEMMA ChunkFacts ==
  ASSUME InBounds
  PROVE  /\ Chunks \subseteq 1 .. Last
         /\ \A k \in Work : ChunkOf(k) \in Chunks /\ k \in Chunk(ChunkOf(k))
<1> DEFINE n == Cardinality(Work)
           s == ChunkSize
           q == (n + s - 1) \div s
<1>1. n \in 0 .. Last /\ s \in Nat \ {0} /\ Last \in Nat
  BY WorkFacts, PublisherAssumption
<1>2. Chunks = 1 .. q
  BY DEF Chunks
<1>3. q \in Int /\ s * q <= n + s - 1
  <2>1. n + s - 1 \in Int
    BY <1>1
  <2>2. QED
    BY <1>1, <2>1, DivisionBounds
<1>4. ASSUME NEW k \in Work
      PROVE  ChunkOf(k) \in 1 .. q
  <2> DEFINE a == Index(k)
  <2>1. a \in Nat /\ a + 1 <= n /\ ChunkOf(k) = a \div s + 1
    BY <1>1, IndexType DEF ChunkOf
  <2> HIDE DEF a, n, s
  <2>2. (a + s) \div s = a \div s + 1
    BY <1>1, <2>1, NextQuotient
  <2>3. (a + s) \div s <= (n + s - 1) \div s
    <3>1. a + s \in Int /\ n + s - 1 \in Int /\ a + s <= n + s - 1
      BY <1>1, <2>1
    <3>2. QED
      BY <1>1, <3>1, DivisionIsMonotone
  <2>4. a \div s \in Nat
    BY <1>1, <2>1, QuotientAndRemainder
  <2>5. QED
    BY <1>3, <2>1, <2>2, <2>3, <2>4
<1> HIDE DEF n, s, q
<1>5. q <= n
  <2>1. SUFFICES ASSUME n + 1 <= q PROVE FALSE
    BY <1>1, <1>3
  <2>2. s * (n + 1) <= s * q
    BY <1>1, <1>3, <2>1, Z3
  <2>3. s * (n + 1) <= n + s - 1
    BY <1>1, <1>3, <2>2
  <2>4. QED
    BY <1>1, <2>3, Z3
<1>6. Chunks \subseteq 1 .. Last
  BY <1>1, <1>2, <1>3, <1>5
<1>7. QED
  BY <1>2, <1>4, <1>6 DEF Chunk

\* What is before a chunk is a chunk.
LEMMA ChunksAreFirst ==
  ASSUME InBounds, NEW d \in Chunks, NEW c \in 1 .. d
  PROVE  c \in Chunks
<1> DEFINE q == (Cardinality(Work) + ChunkSize - 1) \div ChunkSize
<1>1. Cardinality(Work) + ChunkSize - 1 \in Int /\ ChunkSize \in Nat \ {0}
  BY WorkFacts, PublisherAssumption
<1>2. q \in Int
  BY <1>1, DivisionBounds
<1>3. Chunks = 1 .. q
  BY DEF Chunks
<1> HIDE DEF q
<1>4. QED
  BY <1>2, <1>3

\* A step that leaves the batch alone leaves its chunks alone.
LEMMA SameChunks ==
  ASSUME UNCHANGED <<stream, position, size>>
  PROVE  /\ Work' = Work /\ Chunks' = Chunks /\ (InBounds' <=> InBounds)
         /\ \A c : Chunk(c)' = Chunk(c)
         /\ \A k : Entry(k)' = Entry(k)
<1>1. Work' = Work /\ (InBounds' <=> InBounds)
  BY DEF Work, Batch, InBounds
<1>2. \A k : Index(k)' = Index(k)
  BY <1>1 DEF Index
<1>3. QED
  BY <1>1, <1>2 DEF Chunks, Chunk, ChunkOf, Entry

-----------------------------------------------------------------------------
(* The invariant.                                                          *)

\* What a goroutine that had its answer knows of a record of its chunk.
Settled(c, k) == stream[k] \in sent \/ Entry(k) \in refused[c]

Answered == {"failing", "locked", "leaving", "done"}

\* Where the goroutines are fits what they hold, and what was refused is in failed
\* once its goroutine wrote it, or is on its way there.
GoroutineInv ==
  /\ size = 0 => failed = {} /\ \A c \in 1 .. Last : at[c] = "idle" /\ refused[c] = {}
  /\ \A c \in 1 .. Last :
       /\ c > started => at[c] = "idle"
       /\ refused[c] \subseteq {Entry(k) : k \in Chunk(c)}
       /\ at[c] \in Answered => \A k \in Chunk(c) : Settled(c, k)
       /\ at[c] = "locked" => copied[c] = failed
       /\ at[c] \in {"leaving", "done"} =>
            \A k \in Chunk(c) : Entry(k) \in refused[c] => EventID(stream[k]) \in failed
  /\ failed \subseteq {EventID(stream[k]) : k \in Work}

\* What the mapping passed was sent, or comes again.
PassedInv ==
  \A k \in 1 .. (position - 1) : IsWork(stream[k]) =>
    stream[k] \in sent \/ \E j \in position .. Last : stream[j] = stream[k]

IInv == TypeOK /\ GoroutineInv /\ PassedInv

LEMMA TypeBounds == TypeOK => InBounds
BY DEF TypeOK, InBounds

\* The goroutines that hold a slot.
Holders == {c \in 1 .. Last : Holds(c)}

LEMMA HoldersAreFinite == IsFiniteSet(Holders) /\ Cardinality(Holders) \in Nat
<1>1. IsFiniteSet(1 .. Last) /\ Holders \subseteq 1 .. Last
  BY FS_Interval, PublisherAssumption DEF Holders
<1>2. QED
  BY <1>1, FS_Subset, FS_CardinalityType

LEMMA OverInv == IInv /\ Over /\ sent' \subseteq ItemChange /\ position' \in 1 .. (Last + 1)
                   => TypeOK' /\ GoroutineInv'
<1> SUFFICES ASSUME IInv, Over, sent' \subseteq ItemChange, position' \in 1 .. (Last + 1)
             PROVE  TypeOK' /\ GoroutineInv'
  OBVIOUS
<1>1. \A c \in 1 .. Last : at'[c] = "idle" /\ refused'[c] = {}
  BY DEF Over, Idle, None
<1>2. Holders' = {}
  BY <1>1 DEF Holders, Holds
<1>3. Cardinality({c \in 1 .. Last : Holds(c)})' = 0
  BY <1>2, FS_EmptySet DEF Holders
<1>4. TypeOK'
  <2>1. stream' \in [1 .. Last -> Change] /\ size' \in 0 .. (Last + 1 - position')
    <3>1. stream' = stream /\ size' = 0
      BY DEF Over
    <3>2. 0 <= Last + 1 - position' /\ Last + 1 - position' \in Int
      <4> DEFINE p == position'
      <4>1. p \in 1 .. (Last + 1) /\ Last \in Nat
        BY PublisherAssumption
      <4> HIDE DEF p
      <4>2. 0 <= Last + 1 - p /\ Last + 1 - p \in Int
        BY <4>1
      <4>3. QED
        BY <4>2 DEF p
    <3>3. QED
      BY <3>1, <3>2 DEF IInv, TypeOK
  <2>2. /\ at' \in [1 .. Last -> {"idle", "sending", "failing", "locked", "leaving", "done"}]
        /\ refused' \in [1 .. Last -> SUBSET Nat]
        /\ copied' \in [1 .. Last -> SUBSET EventIDs]
        /\ failed' \subseteq EventIDs
    BY DEF Over, Idle, None
  <2>3. \A c \in 1 .. Last : at'[c] = "locked" <=> mutex' = c
    BY <1>1 DEF Over
  <2>4. slots' = 0 /\ mutex' = 0 /\ started' = 0
    BY DEF Over
  <2>5. QED
    <3>1. slots' = Cardinality({c \in 1 .. Last : Holds(c)})'
      BY <1>3, <2>4
    <3>2. slots' \in 0 .. InFlight /\ mutex' \in 0 .. Last /\ started' \in 0 .. Last
      BY <2>4, PublisherAssumption
    <3>3. QED
      BY <2>1, <2>2, <2>3, <3>1, <3>2 DEF TypeOK
<1>5. GoroutineInv'
  BY <1>1 DEF Over, GoroutineInv, Answered
<1>6. QED
  BY <1>4, <1>5

LEMMA InitInv == Init => IInv
<1> SUFFICES ASSUME Init PROVE IInv
  OBVIOUS
<1>1. \A c \in 1 .. Last : at[c] = "idle" /\ refused[c] = {}
  BY DEF Init, Idle, None
<1>2. Cardinality({c \in 1 .. Last : Holds(c)}) = 0
  <2>1. {c \in 1 .. Last : Holds(c)} = {}
    BY <1>1 DEF Holds
  <2>2. QED
    BY <2>1, FS_EmptySet
<1>3. TypeOK
  <2>1. stream \in [1 .. Last -> Change]
    BY ShardsAssumption DEF Init
  <2>2. QED
    BY <1>1, <1>2, <2>1, PublisherAssumption DEF TypeOK, Init, Idle, None
<1>4. GoroutineInv /\ PassedInv
  BY <1>1 DEF Init, GoroutineInv, PassedInv, Answered
<1>5. QED
  BY <1>3, <1>4 DEF IInv

LEMMA TypeSent ==
  ASSUME InBounds, sent \subseteq ItemChange, NEW S \in SUBSET Work, Accept(S)
  PROVE  sent' \subseteq ItemChange /\ sent \subseteq sent'
BY WorkFacts DEF Accept

LEMMA EntryType == InBounds => \A k \in Work : Entry(k) \in Nat
<1> SUFFICES ASSUME InBounds, NEW k \in Work PROVE Entry(k) \in Nat
  OBVIOUS
<1>1. Index(k) \in Nat
  BY IndexType
<1>2. Index(k) % ChunkSize \in 0 .. (ChunkSize - 1)
  BY <1>1, PublisherAssumption, QuotientAndRemainder
<1>3. QED
  BY <1>2, PublisherAssumption DEF Entry

LEMMA InvokeInv == ASSUME IInv, NEW n \in 1 .. StreamBatch, Invoke(n)
                   PROVE  TypeOK' /\ GoroutineInv'
<1>1. TypeOK'
  <2>1. size' \in 0 .. (Last + 1 - position) /\ position' = position
    BY PublisherAssumption DEF IInv, TypeOK, Invoke
  <2>2. (\A c \in 1 .. Last : Holds(c)' <=> Holds(c)) /\ Holders' = Holders
    BY DEF Holds, Invoke, Holders
  <2>3. slots' = Cardinality({c \in 1 .. Last : Holds(c)})'
    BY <2>2 DEF Holders, IInv, TypeOK, Invoke
  <2>4. QED
    BY <2>1, <2>3 DEF IInv, TypeOK, Invoke
<1>2. \A c \in 1 .. Last : at'[c] = "idle" /\ refused'[c] = {}
  BY DEF IInv, GoroutineInv, Invoke
<1>3. size' # 0 /\ failed' = {}
  BY PublisherAssumption DEF IInv, GoroutineInv, Invoke
<1>4. QED
  BY <1>1, <1>2, <1>3 DEF GoroutineInv, Answered

LEMMA StartInv == ASSUME IInv, StartChunk
                  PROVE  TypeOK' /\ GoroutineInv'
<1> DEFINE c == started + 1
<1>1. c \in 1 .. Last /\ at[c] = "idle" /\ started \in 0 .. Last
  BY TypeBounds, ChunkFacts DEF IInv, TypeOK, GoroutineInv, StartChunk
<1>2. at' = [at EXCEPT ![c] = "sending"] /\ started' = c
  BY DEF StartChunk
<1> HIDE DEF c
<1>3. \A d \in 1 .. Last : at'[d] = IF d = c THEN "sending" ELSE at[d]
  BY <1>1, <1>2 DEF IInv, TypeOK
<1>4. Holders' = Holders \cup {c} /\ c \notin Holders
  BY <1>1, <1>3 DEF Holders, Holds
<1>5. Cardinality(Holders') = Cardinality(Holders) + 1
  BY <1>4, HoldersAreFinite, FS_AddElement
<1>6. slots' = Cardinality({d \in 1 .. Last : Holds(d)})'
  BY <1>5 DEF Holders, StartChunk, IInv, TypeOK
<1>7. slots' \in 0 .. InFlight
  BY PublisherAssumption DEF StartChunk, IInv, TypeOK
<1>8. TypeOK'
  <2>1. at' \in [1 .. Last -> {"idle", "sending", "failing", "locked", "leaving", "done"}]
    BY <1>2 DEF IInv, TypeOK
  <2>2. \A d \in 1 .. Last : at'[d] = "locked" <=> mutex' = d
    BY <1>1, <1>3 DEF IInv, TypeOK, StartChunk
  <2>3. QED
    BY <1>1, <1>2, <1>6, <1>7, <2>1, <2>2 DEF IInv, TypeOK, StartChunk
<1>9. GoroutineInv'
  <2>1. /\ UNCHANGED <<stream, position, size, refused, copied, failed, sent>>
        /\ size # 0
    BY DEF StartChunk
  <2>2. \A d \in 1 .. Last : d > started' => d # c /\ d > started
    BY <1>1, <1>2 DEF c
  <2>3. QED
    BY <1>2, <1>3, <2>1, <2>2, SameChunks DEF IInv, GoroutineInv, Settled, Answered
<1>10. QED
  BY <1>8, <1>9

\* A goroutine's step that keeps its slot moves only where it is.
LEMMA HoldersStay ==
  ASSUME IInv, NEW c \in 1 .. Last, Holds(c), NEW to \in {"failing", "locked", "leaving"},
         at' = [at EXCEPT ![c] = to], slots' = slots
  PROVE  /\ at' \in [1 .. Last -> {"idle", "sending", "failing", "locked", "leaving", "done"}]
         /\ \A d \in 1 .. Last : at'[d] = IF d = c THEN to ELSE at[d]
         /\ slots' = Cardinality({d \in 1 .. Last : Holds(d)})'
<1>1. /\ at' \in [1 .. Last -> {"idle", "sending", "failing", "locked", "leaving", "done"}]
      /\ \A d \in 1 .. Last : at'[d] = IF d = c THEN to ELSE at[d]
  BY DEF IInv, TypeOK
<1>2. Holders' = Holders
  BY <1>1 DEF Holders, Holds
<1>3. QED
  BY <1>1, <1>2 DEF Holders, IInv, TypeOK

LEMMA ReturnsInv ==
  ASSUME IInv, NEW c \in Chunks, NEW S, NEW R, SendReturns(c, S, R)
  PROVE  TypeOK' /\ GoroutineInv' /\ sent \subseteq sent'
<1> DEFINE to == IF R = {} THEN "leaving" ELSE "failing"
<1>1. InBounds /\ c \in 1 .. Last /\ Chunk(c) \subseteq Work
  BY TypeBounds, ChunkFacts DEF IInv, Chunk
<1>2. sent' \subseteq ItemChange /\ sent \subseteq sent' /\ \A k \in S : stream[k] \in sent'
  BY <1>1, TypeSent DEF SendReturns, Accept, IInv, TypeOK
<1>3. Holds(c) /\ to \in {"failing", "leaving"} /\ slots' = slots
  BY DEF Holds, SendReturns
<1>4. at' = [at EXCEPT ![c] = to]
  BY DEF SendReturns
<1> HIDE DEF to
<1>5. /\ at' \in [1 .. Last -> {"idle", "sending", "failing", "locked", "leaving", "done"}]
      /\ \A d \in 1 .. Last : at'[d] = IF d = c THEN to ELSE at[d]
      /\ slots' = Cardinality({d \in 1 .. Last : Holds(d)})'
  BY <1>1, <1>3, <1>4, HoldersStay
<1>6. refused' \in [1 .. Last -> SUBSET Nat]
      /\ \A d \in 1 .. Last : refused'[d] = IF d = c THEN R ELSE refused[d]
  <2>1. R \subseteq Nat
    BY <1>1, EntryType DEF SendReturns
  <2>2. QED
    BY <1>1, <2>1 DEF SendReturns, IInv, TypeOK
<1>7. UNCHANGED <<stream, position, size, started, slots, mutex, copied, failed>>
  BY DEF SendReturns
<1>8. TypeOK'
  <2>1. \A d \in 1 .. Last : at'[d] = "locked" <=> mutex' = d
    BY <1>3, <1>5, <1>7 DEF IInv, TypeOK, SendReturns
  <2>2. QED
    BY <1>2, <1>5, <1>6, <1>7, <2>1 DEF IInv, TypeOK
<1>9. GoroutineInv'
  <2>1. size' # 0 /\ c <= started
    BY <1>1, <1>7 DEF SendReturns, IInv, GoroutineInv, TypeOK
  <2>2. \A k \in Chunk(c) : k \in S \/ Entry(k) \in R
    BY DEF SendReturns
  <2>3. R \subseteq {Entry(k) : k \in Chunk(c)}
    BY DEF SendReturns
  <2>4. ASSUME NEW d \in 1 .. Last
        PROVE  /\ d > started' => at'[d] = "idle"
               /\ refused'[d] \subseteq {Entry(k) : k \in Chunk(d)}
               /\ at'[d] \in Answered => \A k \in Chunk(d) : Settled(d, k)'
               /\ at'[d] = "locked" => copied'[d] = failed'
               /\ at'[d] \in {"leaving", "done"} => \A k \in Chunk(d) :
                    Entry(k) \in refused'[d] => EventID(stream[k]) \in failed'
    <3>1. CASE d = c
      <4>1. \A k \in Chunk(c) : Settled(c, k)'
        BY <1>1, <1>2, <1>6, <1>7, <2>2, SameChunks DEF Settled
      <4>2. refused'[c] = R /\ at'[c] = to /\ (to = "leaving" => R = {})
        BY <1>1, <1>5, <1>6 DEF to
      <4>3. QED
        BY <1>3, <1>7, <2>1, <2>3, <3>1, <4>1, <4>2 DEF IInv, TypeOK
    <3>2. CASE d # c
      BY <1>2, <1>5, <1>6, <1>7, <3>2, SameChunks DEF IInv, GoroutineInv, Settled
    <3>3. QED
      BY <3>1, <3>2
  <2>5. \A d : Chunk(d)' = Chunk(d)
    BY <1>7, SameChunks
  <2>6. QED
    BY <1>7, <2>1, <2>4, <2>5, SameChunks DEF IInv, GoroutineInv, Answered
<1>10. QED
  BY <1>2, <1>8, <1>9

LEMMA LockInv ==
  ASSUME IInv, NEW c \in Chunks, Lock(c)
  PROVE  TypeOK' /\ GoroutineInv'
<1>1. c \in 1 .. Last
  BY TypeBounds, ChunkFacts DEF IInv
<1>2. Holds(c) /\ slots' = slots /\ mutex = 0 /\ mutex' = c
  BY DEF Holds, Lock, Free
<1>3. /\ at' \in [1 .. Last -> {"idle", "sending", "failing", "locked", "leaving", "done"}]
      /\ \A d \in 1 .. Last : at'[d] = IF d = c THEN "locked" ELSE at[d]
      /\ slots' = Cardinality({d \in 1 .. Last : Holds(d)})'
  BY <1>1, <1>2, HoldersStay DEF Lock
<1>4. UNCHANGED <<stream, position, size, started, refused, slots, failed, sent>>
  BY DEF Lock
<1>5. copied' \in [1 .. Last -> SUBSET EventIDs] /\ copied'[c] = failed
  BY <1>1 DEF Lock, IInv, TypeOK
<1>6. \A d \in 1 .. Last : at[d] # "locked"
  BY <1>2 DEF IInv, TypeOK
<1>7. TypeOK'
  <2>1. \A d \in 1 .. Last : at'[d] = "locked" <=> mutex' = d
    BY <1>2, <1>3, <1>6
  <2>2. QED
    BY <1>1, <1>2, <1>3, <1>4, <1>5, <2>1 DEF IInv, TypeOK
<1>8. GoroutineInv'
  <2>1. size' # 0 /\ c <= started /\ at[c] = "failing"
    BY <1>1, <1>4 DEF Lock, IInv, GoroutineInv, TypeOK
  <2>2. QED
    BY <1>1, <1>3, <1>4, <1>5, <1>6, <2>1, SameChunks
       DEF IInv, GoroutineInv, Settled, Answered, TypeOK
<1>9. QED
  BY <1>7, <1>8

\* What a goroutine appends are the IDs of the records refused to it.
LEMMA FailedIDsAre ==
  ASSUME IInv, NEW c \in 1 .. Last
  PROVE  FailedIDs(c) = {EventID(stream[k]) : k \in {j \in Chunk(c) : Entry(j) \in refused[c]}}
<1>1. \A k \in Chunk(c) : Event(c, Entry(k)) = k
  BY TypeBounds, EventOfEntry DEF IInv
<1>2. refused[c] \subseteq {Entry(k) : k \in Chunk(c)}
  BY DEF IInv, GoroutineInv
<1>3. QED
  BY <1>1, <1>2 DEF FailedIDs

LEMMA UnlockInv ==
  ASSUME IInv, NEW c \in Chunks, Unlock(c)
  PROVE  TypeOK' /\ GoroutineInv'
<1>1. InBounds /\ c \in 1 .. Last /\ Chunk(c) \subseteq Work
  BY TypeBounds, ChunkFacts DEF IInv, Chunk
<1>2. Holds(c) /\ slots' = slots /\ mutex = c /\ mutex' = 0 /\ at[c] = "locked"
  BY <1>1 DEF Holds, Unlock, IInv, TypeOK
<1>3. /\ at' \in [1 .. Last -> {"idle", "sending", "failing", "locked", "leaving", "done"}]
      /\ \A d \in 1 .. Last : at'[d] = IF d = c THEN "leaving" ELSE at[d]
      /\ slots' = Cardinality({d \in 1 .. Last : Holds(d)})'
  BY <1>1, <1>2, HoldersStay DEF Unlock
<1>4. UNCHANGED <<stream, position, size, started, refused, slots, copied, sent>>
  BY DEF Unlock
<1>5. failed' = failed \cup FailedIDs(c)
  BY <1>1, <1>2 DEF Unlock, IInv, GoroutineInv
<1>6. \A d \in 1 .. Last : at'[d] # "locked"
  BY <1>2, <1>3 DEF IInv, TypeOK
<1>7. /\ FailedIDs(c) \subseteq {EventID(stream[k]) : k \in Work}
      /\ \A k \in Chunk(c) : Entry(k) \in refused[c] => EventID(stream[k]) \in FailedIDs(c)
  BY <1>1, FailedIDsAre
<1>8. TypeOK'
  <2>1. failed' \subseteq EventIDs
    BY <1>1, <1>5, <1>7, WorkFacts DEF EventIDs, IInv, TypeOK
  <2>2. \A d \in 1 .. Last : at'[d] = "locked" <=> mutex' = d
    BY <1>2, <1>6
  <2>3. QED
    BY <1>2, <1>3, <1>4, <2>1, <2>2, PublisherAssumption DEF IInv, TypeOK
<1>9. GoroutineInv'
  <2>1. size' # 0 /\ c <= started
    BY <1>1, <1>2, <1>4 DEF IInv, GoroutineInv, TypeOK
  <2>2. failed' \subseteq {EventID(stream[k]) : k \in Work}'
    BY <1>4, <1>5, <1>7, SameChunks DEF IInv, GoroutineInv
  <2>3. ASSUME NEW d \in 1 .. Last
        PROVE  /\ d > started' => at'[d] = "idle"
               /\ refused'[d] \subseteq {Entry(k) : k \in Chunk(d)}
               /\ at'[d] \in Answered => \A k \in Chunk(d) : Settled(d, k)'
               /\ at'[d] \in {"leaving", "done"} => \A k \in Chunk(d) :
                    Entry(k) \in refused'[d] => EventID(stream[k]) \in failed'
    <3>1. \A k \in Chunk(d) : Settled(d, k)' <=> Settled(d, k)
      BY <1>4, SameChunks DEF Settled
    <3>2. CASE d = c
      BY <1>2, <1>3, <1>4, <1>5, <1>7, <2>1, <3>1, <3>2
         DEF IInv, GoroutineInv, Answered, TypeOK
    <3>3. CASE d # c
      BY <1>3, <1>4, <1>5, <3>1, <3>3 DEF IInv, GoroutineInv
    <3>4. QED
      BY <3>2, <3>3
  <2>4. QED
    BY <1>4, <1>6, <2>1, <2>2, <2>3, SameChunks DEF GoroutineInv, Answered
<1>10. QED
  BY <1>8, <1>9

LEMMA LeavesInv ==
  ASSUME IInv, NEW c \in Chunks, Leaves(c)
  PROVE  TypeOK' /\ GoroutineInv'
<1>1. c \in 1 .. Last /\ at[c] = "leaving"
  BY TypeBounds, ChunkFacts DEF IInv, Leaves
<1>2. \A d \in 1 .. Last : at'[d] = IF d = c THEN "done" ELSE at[d]
  BY <1>1 DEF Leaves, IInv, TypeOK
<1>3. Holders' = Holders \ {c} /\ c \in Holders
  BY <1>1, <1>2 DEF Holders, Holds
<1>4. Cardinality(Holders') = Cardinality(Holders) - 1
  BY <1>3, HoldersAreFinite, FS_RemoveElement
<1>5. Cardinality(Holders') \in Nat
  BY <1>3, HoldersAreFinite, FS_RemoveElement, FS_CardinalityType
<1>6. slots' = Cardinality({d \in 1 .. Last : Holds(d)})' /\ slots' \in 0 .. InFlight
  BY <1>4, <1>5, PublisherAssumption DEF Holders, Leaves, Released, IInv, TypeOK
<1>7. UNCHANGED <<stream, position, size, started, refused, mutex, copied, failed, sent>>
  BY DEF Leaves
<1>8. TypeOK'
  <2>1. at' \in [1 .. Last -> {"idle", "sending", "failing", "locked", "leaving", "done"}]
    BY DEF Leaves, IInv, TypeOK
  <2>2. \A d \in 1 .. Last : at'[d] = "locked" <=> mutex' = d
    BY <1>1, <1>2, <1>7 DEF IInv, TypeOK
  <2>3. QED
    BY <1>6, <1>7, <2>1, <2>2 DEF IInv, TypeOK
<1>9. GoroutineInv'
  <2>1. size' # 0 /\ c <= started
    BY <1>1, <1>7 DEF IInv, GoroutineInv, TypeOK
  <2>2. QED
    BY <1>1, <1>2, <1>7, <2>1, SameChunks
       DEF IInv, GoroutineInv, Settled, Answered, TypeOK
<1>10. QED
  BY <1>8, <1>9

\* What was passed stays passed when more is sent.
LEMMA PassedStays ==
  ASSUME PassedInv, sent \subseteq sent', UNCHANGED <<stream, position>>
  PROVE  PassedInv'
BY DEF PassedInv, IsWork

-----------------------------------------------------------------------------
(* The answer.                                                             *)

\* Two changes with one event ID are one change.
LEMMA SameID ==
  ASSUME NEW a \in ItemChange, NEW b \in ItemChange, EventID(a) = EventID(b)
  PROVE  a = b
BY DEF ItemChange, EventID

\* seq[id] is the last record of the batch with that event.
LEMMA SeqOfIsLast ==
  ASSUME InBounds, NEW k \in Work
  PROVE  LET s == SeqOf(EventID(stream[k])) IN
           /\ s \in Batch /\ k <= s
           /\ stream[s] = stream[k]
<1> DEFINE id == EventID(stream[k])
           P == {r \in Readable : EventID(stream[r]) = id}
           s == SeqOf(id)
<1>1. P \subseteq 1 .. Last /\ k \in P
  BY WorkFacts DEF Readable
<1>2. PICK x \in P : \A y \in P : y <= x
  <2> HIDE DEF P
  <2>1. Last \in Nat /\ P \in SUBSET (1 .. Last) /\ P # {}
    BY <1>1, PublisherAssumption
  <2>2. QED
    BY <2>1, LastPosition
<1>3. s \in Readable /\ EventID(stream[s]) = id /\ \A r \in Readable : EventID(stream[r]) = id => r <= s
  BY <1>2 DEF SeqOf
<1>4. stream[s] = stream[k]
  <2>1. stream[s] \in ItemChange /\ stream[k] \in ItemChange
    BY <1>3, WorkFacts DEF Readable
  <2>2. QED
    BY <1>3, <2>1, SameID
<1>5. QED
  BY <1>1, <1>3, <1>4 DEF Readable

\* When every goroutine is done, the work of the batch was sent, or its ID failed.
LEMMA WorkIsSettled ==
  ASSUME IInv, AllDone, NEW k \in Work
  PROVE  stream[k] \in sent \/ EventID(stream[k]) \in failed
<1> DEFINE c == ChunkOf(k)
<1>1. c \in Chunks /\ c \in 1 .. Last /\ k \in Chunk(c)
  BY TypeBounds, ChunkFacts DEF IInv
<1>2. at[c] = "done"
  BY <1>1 DEF AllDone
<1> HIDE DEF c
<1>3. QED
  BY <1>1, <1>2 DEF IInv, GoroutineInv, Settled, Answered

\* Where the mapping goes on: nothing before it is left.
LEMMA AnswerPasses ==
  ASSUME IInv, Answer
  PROVE  /\ position' \in position .. (Last + 1)
         /\ PassedInv'
<1>1. InBounds
  BY TypeBounds DEF IInv
<1>2. \A k \in Work : /\ SeqOf(EventID(stream[k])) \in Batch
                      /\ k <= SeqOf(EventID(stream[k]))
                      /\ stream[SeqOf(EventID(stream[k]))] = stream[k]
  BY <1>1, SeqOfIsLast
<1>3. Reported \subseteq Batch
  BY <1>2 DEF Reported, IInv, GoroutineInv
<1>4. position' \in position .. (position + size)
  <2>1. CASE failed = {} /\ position' = position + size
    BY <1>1, <2>1 DEF InBounds
  <2>2. CASE position' \in Reported
    BY <1>1, <1>3, <2>2 DEF InBounds, Batch
  <2>3. QED
    BY <2>1, <2>2 DEF Answer
<1>5. position' \in position .. (Last + 1)
  BY <1>1, <1>4, PublisherAssumption DEF InBounds
<1>6. ASSUME NEW k \in Batch, k < position', IsWork(stream[k])
      PROVE  stream[k] \in sent \/ \E j \in position' .. Last : stream[j] = stream[k]
  <2>1. k \in Work
    BY <1>6 DEF Work
  <2>2. CASE stream[k] \in sent
    BY <2>2
  <2>3. CASE EventID(stream[k]) \in failed
    <3> DEFINE s == SeqOf(EventID(stream[k]))
    <3>1. s \in Reported /\ s \in Batch /\ stream[s] = stream[k]
      BY <1>2, <2>1, <2>3 DEF Reported
    <3>2. position' <= s
      BY <2>3, <3>1 DEF Answer
    <3>3. s \in 1 .. Last
      BY <1>1, <3>1, WorkFacts
    <3> HIDE DEF s
    <3>4. QED
      BY <1>5, <3>1, <3>2, <3>3, PublisherAssumption
  <2>4. QED
    BY <2>1, <2>2, <2>3, WorkIsSettled DEF Answer
<1>7. ASSUME NEW k \in 1 .. (position' - 1), IsWork(stream[k])
      PROVE  stream[k] \in sent \/ \E j \in position' .. Last : stream[j] = stream[k]
  <2> DEFINE p == position'
  <2>0. /\ k \in Nat /\ 1 <= k /\ k < p
        /\ p \in Int /\ p <= position + size
    <3>1. p \in position .. (position + size) /\ k \in 1 .. (p - 1)
      BY <1>4, <1>7
    <3>2. position \in Int /\ size \in Int
      BY <1>1, PublisherAssumption DEF InBounds
    <3> HIDE DEF p
    <3>3. QED
      BY <3>1, <3>2
  <2>1. CASE k \in Batch
    BY <1>6, <1>7, <2>0, <2>1
  <2>2. CASE k \notin Batch
    <3>1. k \in 1 .. (position - 1)
      <4>1. position \in Int /\ size \in Int
        BY <1>1, PublisherAssumption DEF InBounds
      <4> HIDE DEF p
      <4>2. QED
        BY <2>0, <2>2, <4>1 DEF Batch
    <3>2. CASE stream[k] \in sent
      BY <3>2
    <3>3. ASSUME NEW j \in position .. Last, stream[j] = stream[k]
          PROVE  stream[k] \in sent \/ \E i \in position' .. Last : stream[i] = stream[k]
      <4>1. CASE j >= position'
        BY <1>5, <3>3, <4>1, <1>1, PublisherAssumption DEF InBounds
      <4>2. CASE j < position'
        <5>1. j \in Batch
          BY <1>1, <1>4, <4>2, PublisherAssumption DEF Batch, InBounds
        <5>2. QED
          BY <1>6, <1>7, <3>3, <4>2, <5>1
      <4>3. QED
        BY <1>1, <1>5, <4>1, <4>2, PublisherAssumption DEF InBounds
    <3>4. QED
      BY <1>7, <3>1, <3>2, <3>3 DEF IInv, PassedInv
  <2>3. QED
    BY <2>1, <2>2
<1>8. UNCHANGED <<stream, sent>>
  BY DEF Answer, Over
<1>9. QED
  BY <1>5, <1>7, <1>8 DEF PassedInv, IsWork

-----------------------------------------------------------------------------
(* The theorems.                                                           *)

LEMMA AnswerInv == ASSUME IInv, Answer PROVE IInv'
<1>1. position' \in 1 .. (Last + 1)
  <2>1. position' \in position .. (Last + 1) /\ position \in 1 .. (Last + 1)
    BY AnswerPasses DEF IInv, TypeOK
  <2> DEFINE p == position'
  <2>2. p \in position .. (Last + 1)
    BY <2>1
  <2> HIDE DEF p
  <2>3. p \in 1 .. (Last + 1)
    BY <2>1, <2>2, PublisherAssumption
  <2>4. QED
    BY <2>3 DEF p
<1>2. Over /\ sent' \subseteq ItemChange
  BY DEF Answer, IInv, TypeOK
<1>3. QED
  BY <1>1, <1>2, OverInv, AnswerPasses DEF IInv

LEMMA InTransitIsWork == InTransit \subseteq Work
BY DEF InTransit, Chunk

LEMMA DiesInv == ASSUME IInv, NEW S \in SUBSET InTransit, Dies(S)
                 PROVE  IInv' /\ sent \subseteq sent'
<1>1. /\ Over /\ position' = position /\ stream' = stream
      /\ S \in SUBSET Work /\ Accept(S)
  BY InTransitIsWork DEF Dies, Over
<1>2. sent' \subseteq ItemChange /\ sent \subseteq sent'
  BY <1>1, TypeBounds, TypeSent DEF IInv, TypeOK
<1>3. position' \in 1 .. (Last + 1)
  BY <1>1 DEF IInv, TypeOK
<1>4. QED
  BY <1>1, <1>2, <1>3, OverInv, PassedStays DEF IInv

LEMMA NextInv == IInv /\ [Next]_vars => IInv'
<1> SUFFICES ASSUME IInv, [Next]_vars PROVE IInv'
  OBVIOUS
<1>1. ASSUME NEW n \in 1 .. StreamBatch, Invoke(n) PROVE IInv'
  BY <1>1, InvokeInv, PassedStays DEF IInv, Invoke
<1>2. CASE StartChunk
  BY <1>2, StartInv, PassedStays DEF IInv, StartChunk
<1>3. ASSUME NEW c \in Chunks, Goroutine(c) PROVE IInv'
  <2>1. ASSUME NEW S, NEW R, SendReturns(c, S, R) PROVE IInv'
    BY <2>1, ReturnsInv, PassedStays DEF IInv, SendReturns
  <2>2. CASE Lock(c)
    BY <2>2, LockInv, PassedStays DEF IInv, Lock
  <2>3. CASE Unlock(c)
    BY <2>3, UnlockInv, PassedStays DEF IInv, Unlock
  <2>4. CASE Leaves(c)
    BY <2>4, LeavesInv, PassedStays DEF IInv, Leaves
  <2>5. QED
    BY <1>3, <2>1, <2>2, <2>3, <2>4 DEF Goroutine
<1>4. CASE Answer
  BY <1>4, AnswerInv
<1>5. ASSUME NEW S \in SUBSET InTransit, Dies(S) PROVE IInv'
  BY <1>5, DiesInv
<1>6. CASE UNCHANGED vars
  <2>1. UNCHANGED <<stream, position, size, started, at, refused, slots, mutex,
                    copied, failed, sent>>
    BY <1>6 DEF vars, runVars
  <2>2. Holders' = Holders
    BY <2>1 DEF Holders, Holds
  <2>3. Cardinality({c \in 1 .. Last : Holds(c)})' = Cardinality({c \in 1 .. Last : Holds(c)})
    BY <2>2 DEF Holders
  <2>4. TypeOK'
    BY <2>1, <2>3 DEF IInv, TypeOK
  <2>5. GoroutineInv'
    BY <2>1, SameChunks DEF IInv, GoroutineInv, Settled
  <2>6. QED
    BY <2>1, <2>4, <2>5, PassedStays DEF IInv
<1>7. QED
  BY <1>1, <1>2, <1>3, <1>4, <1>5, <1>6 DEF Next

\* The invariant holds in every reachable state.
LEMMA Invariant == Spec => []IInv
<1>1. QED
  BY InitInv, NextInv, PTL DEF Spec

\* In every state the semaphore counts exactly the goroutines that hold a slot, never
\* more than InFlight, and the mutex is held by the one goroutine between its
\* append's read and write (Publish's sem, mu and failed).
THEOREM TypeCorrect == Spec => []TypeOK
<1>1. IInv => TypeOK
  BY DEF IInv
<1>2. QED
  BY <1>1, Invariant, PTL

\* A step of the relay sends work that is not passed, passes what may be passed, or
\* leaves stream, position and sent alone.
LEMMA StepImplements == IInv /\ IInv' /\ [Next]_vars => [Contract!Next]_<<stream, position, sent>>
<1> DEFINE W == {c \in ItemChange : c.status = "QUEUED"}
<1> SUFFICES ASSUME IInv, IInv', [Next]_vars,
                    ~ UNCHANGED <<stream, position, sent>>
             PROVE  Contract!Next
  OBVIOUS
<1>1. ASSUME NEW S \in SUBSET Work, Accept(S), UNCHANGED <<stream, position>>
      PROVE  Contract!Next
  <2>1. S \in SUBSET {k \in position .. Last : stream[k] \in W}
    <3>1. \A k \in Work : k \in 1 .. Last /\ k \in Batch /\ stream[k] \in W
      BY TypeBounds, WorkFacts DEF IInv, Work, IsWork
    <3>2. \A k \in Work : k \in position .. Last
      BY <3>1, PublisherAssumption DEF Batch, IInv, TypeOK
    <3>3. QED
      BY <3>1, <3>2
  <2>2. Contract!Send
    BY <1>1, <2>1 DEF Contract!Send, Accept
  <2>3. QED
    BY <1>1, <2>2 DEF Contract!Next
<1>2. ASSUME NEW c \in Chunks, Goroutine(c) PROVE Contract!Next
  <2>1. ASSUME NEW S, NEW R, SendReturns(c, S, R) PROVE Contract!Next
    BY <1>1, <2>1 DEF SendReturns, Chunk
  <2>2. QED
    BY <1>2, <2>1 DEF Goroutine, Lock, Unlock, Leaves
<1>3. CASE Answer
  <2>1. position' \in position .. (Last + 1) /\ UNCHANGED <<stream, sent>>
    BY <1>3, AnswerPasses DEF Answer, Over
  <2>2. ASSUME NEW k \in 1 .. (position' - 1), stream[k] \in W
        PROVE  stream[k] \in sent \/ \E j \in position' .. Last : stream[j] = stream[k]
    BY <2>1, <2>2 DEF IInv, PassedInv, IsWork
  <2>3. Contract!PassTo(position', sent)
    BY <2>2 DEF Contract!PassTo
  <2>4. QED
    BY <2>1, <2>3 DEF Contract!Next, Contract!Pass
<1>4. ASSUME NEW S \in SUBSET InTransit, Dies(S) PROVE Contract!Next
  <2>1. S \in SUBSET Work /\ Accept(S) /\ UNCHANGED <<stream, position>>
    BY <1>4, InTransitIsWork DEF Dies, Over
  <2>2. QED
    BY <1>1, <2>1
<1>5. QED
  BY <1>2, <1>3, <1>4 DEF Next, Invoke, StartChunk, vars

\* The relay implements the contract of a consumer that loses no work: whatever the
\* chunks, the calls in flight, their refusals and the deaths (Relay.Handle and
\* Publish).
THEOREM Implementation == Spec => ImplementsContract
<1>1. Init => Contract!Init
  BY ShardsAssumption DEF Init, Contract!Init
<1>2. Spec => [][Contract!Next]_<<stream, position, sent>>
  BY Invariant, StepImplements, PTL DEF Spec
<1>3. QED
  BY <1>1, <1>2, PTL DEF Spec, ImplementsContract, Contract!Spec, Contract!vars

\* Once the mapping has passed the whole shard, every change in it that queues an item
\* was accepted by SQS: no refusal, death or lost answer makes the relay skip one.
THEOREM WorkIsSent ==
  Spec => [](position = Last + 1 =>
               \A k \in 1 .. Last : IsWork(stream[k]) => stream[k] \in sent)
<1> DEFINE AllSent == position = Last + 1 =>
             \A k \in 1 .. Last : IsWork(stream[k]) => stream[k] \in sent
<1>1. IInv => AllSent
  BY PublisherAssumption DEF IInv, PassedInv
<1> HIDE DEF AllSent
<1>2. Spec => []AllSent
  BY <1>1, Invariant, PTL
<1>3. QED
  BY <1>2 DEF AllSent

-----------------------------------------------------------------------------
(* Where the failed IDs come from.                                         *)

\* Whoever has no answer was refused nothing, and every ID in failed is of a record
\* that was refused.
OriginInv ==
  /\ \A c \in 1 .. Last : at[c] \in {"idle", "sending"} => refused[c] = {}
  /\ \A id \in failed : \E k \in Refused : EventID(stream[k]) = id

\* Every record of the work is in a chunk.
LEMMA ChunkOfWork == ASSUME TypeOK, NEW k \in Work PROVE ChunkOf(k) \in 1 .. Last
BY TypeBounds, ChunkFacts

\* A step that leaves the batch alone and takes back no refusal.
LEMMA RefusedInside ==
  ASSUME TypeOK, UNCHANGED <<stream, position, size>>
  PROVE  /\ (\A d \in 1 .. Last : refused[d] \subseteq refused'[d]) => Refused \subseteq Refused'
         /\ refused' = refused => Refused' = Refused
<1>1. Work' = Work
  BY SameChunks
<1>2. \A k : Index(k)' = Index(k)
  BY <1>1 DEF Index
<1>3. \A k : Entry(k)' = Entry(k) /\ ChunkOf(k)' = ChunkOf(k)
  BY <1>2 DEF Entry, ChunkOf
<1>4. QED
  BY <1>1, <1>3, ChunkOfWork DEF Refused

LEMMA OriginStays ==
  ASSUME TypeOK, OriginInv, UNCHANGED <<stream, position, size, refused, failed>>,
         \A d \in 1 .. Last : at'[d] \in {"idle", "sending"} =>
           at[d] \in {"idle", "sending"}
  PROVE  OriginInv'
BY RefusedInside DEF OriginInv, EventID

LEMMA NextOrigin == IInv /\ OriginInv /\ [Next]_vars => OriginInv'
<1> SUFFICES ASSUME IInv, OriginInv, [Next]_vars PROVE OriginInv'
  OBVIOUS
<1>1. at \in [1 .. Last -> {"idle", "sending", "failing", "locked", "leaving", "done"}]
      /\ refused \in [1 .. Last -> SUBSET Nat]
  BY DEF IInv, TypeOK
<1>2. Over => OriginInv'
  BY DEF Over, Idle, None, OriginInv
<1>3. ASSUME NEW n \in 1 .. StreamBatch, Invoke(n) PROVE OriginInv'
  BY <1>3 DEF Invoke, IInv, GoroutineInv, OriginInv
<1>4. CASE StartChunk
  <2>1. at[started + 1] = "idle" /\ started + 1 \in 1 .. Last
    <3>1. started + 1 \in 1 .. Last
      BY <1>4, TypeBounds, ChunkFacts DEF StartChunk, IInv
    <3>2. started \in Nat /\ started + 1 > started
      BY PublisherAssumption DEF IInv, TypeOK
    <3>3. QED
      BY <3>1, <3>2 DEF IInv, GoroutineInv
  <2>2. \A d \in 1 .. Last : at'[d] \in {"idle", "sending"} => at[d] \in {"idle", "sending"}
    BY <1>1, <1>4, <2>1 DEF StartChunk
  <2>3. UNCHANGED <<stream, position, size, refused, failed>>
    BY <1>4 DEF StartChunk
  <2>4. QED
    BY <2>2, <2>3, OriginStays DEF IInv
<1>5. ASSUME NEW c \in Chunks, NEW S, NEW R, SendReturns(c, S, R) PROVE OriginInv'
  <2>1. c \in 1 .. Last /\ refused[c] = {}
    BY <1>5, TypeBounds, ChunkFacts DEF SendReturns, IInv, OriginInv
  <2>2. \A d \in 1 .. Last : refused[d] \subseteq refused'[d]
    BY <1>1, <1>5, <2>1 DEF SendReturns
  <2>3. \A d \in 1 .. Last : d # c => at'[d] = at[d] /\ refused'[d] = refused[d]
    BY <1>1, <1>5, <2>1 DEF SendReturns
  <2>4. at'[c] \in {"leaving", "failing"}
    BY <1>1, <1>5, <2>1 DEF SendReturns
  <2>5. Refused \subseteq Refused'
    BY <1>5, <2>2, RefusedInside DEF SendReturns, IInv
  <2>6. QED
    BY <1>5, <2>3, <2>4, <2>5 DEF SendReturns, OriginInv, EventID
<1>6. ASSUME NEW c \in Chunks, Unlock(c) PROVE OriginInv'
  <2>1. c \in 1 .. Last /\ at[c] = "locked"
    BY <1>6, TypeBounds, ChunkFacts DEF Unlock, IInv
  <2>2. failed' = failed \cup FailedIDs(c)
    BY <1>6, <2>1 DEF Unlock, IInv, GoroutineInv
  <2>3. \A id \in FailedIDs(c) : \E k \in Refused : EventID(stream[k]) = id
    BY <2>1, FailedIDsAre DEF Refused, Chunk
  <2>4. Refused' = Refused
    BY <1>6, SameChunks, RefusedInside DEF Unlock, IInv
  <2>5. \A d \in 1 .. Last : at'[d] \in {"idle", "sending"} => at[d] \in {"idle", "sending"}
    BY <1>1, <1>6 DEF Unlock
  <2>6. QED
    BY <1>6, <2>2, <2>3, <2>4, <2>5 DEF Unlock, OriginInv, EventID
<1>7. ASSUME NEW c \in Chunks, Lock(c) \/ Leaves(c) PROVE OriginInv'
  <2>1. \A d \in 1 .. Last : at'[d] \in {"idle", "sending"} => at[d] \in {"idle", "sending"}
    BY <1>1, <1>7 DEF Lock, Leaves
  <2>2. QED
    BY <1>7, <2>1, OriginStays DEF Lock, Leaves, IInv
<1>8. CASE Answer \/ \E S \in SUBSET InTransit : Dies(S)
  BY <1>2, <1>8 DEF Answer, Dies
<1>9. CASE UNCHANGED vars
  BY <1>9, OriginStays DEF vars, runVars, IInv
<1>10. QED
  BY <1>3, <1>4, <1>5, <1>6, <1>7, <1>8, <1>9 DEF Next, Goroutine

\* The record an answer sends the mapping back to holds a refused change.
LEMMA AnswerReturns == ASSUME IInv, OriginInv PROVE ReturnsToRefused
<1> SUFFICES ASSUME Answer, position' \in Batch
             PROVE  \E k \in Refused : stream[k] = stream[position']
  BY DEF ReturnsToRefused
<1>1. position' # position + size
  BY PublisherAssumption DEF Batch, IInv, TypeOK
<1>2. PICK id \in failed : position' = SeqOf(id)
  BY <1>1 DEF Answer, Reported
<1>3. PICK k \in Refused : EventID(stream[k]) = id
  BY <1>2 DEF OriginInv
<1>4. stream[SeqOf(id)] = stream[k]
  BY <1>3, SeqOfIsLast, TypeBounds DEF Refused, IInv
<1>5. QED
  BY <1>2, <1>3, <1>4

\* Of a batch that was answered, the mapping goes back only to work that SQS refused
\* (send's entry IDs, seq in Relay.Handle), for every shard and chunk size.
THEOREM GoesBackToFailures == Spec => GoesBackToAFailure
<1>1. Init => OriginInv
  BY DEF Init, OriginInv, Idle, None
<1>2. IInv /\ OriginInv /\ [Next]_vars => [ReturnsToRefused]_vars
  BY AnswerReturns
<1>3. QED
  BY <1>1, <1>2, Invariant, NextOrigin, PTL DEF Spec, GoesBackToAFailure

-----------------------------------------------------------------------------
(* Why Publish returns: nobody waits for ever, and every step is one less.  *)

\* The goroutines that were started are those of the first chunks.
StartedInv ==
  /\ size = 0 => started = 0
  /\ started = 0 \/ started \in Chunks
  /\ \A c \in 1 .. Last : at[c] = "idle" <=> c > started

LEMMA StartedStays ==
  ASSUME IInv, StartedInv, UNCHANGED <<stream, position, size, started>>,
         \A c \in 1 .. Last : at'[c] = "idle" <=> at[c] = "idle"
  PROVE  StartedInv'
BY SameChunks DEF StartedInv

LEMMA NextStarted == IInv /\ StartedInv /\ [Next]_vars => StartedInv'
<1> SUFFICES ASSUME IInv, StartedInv, [Next]_vars PROVE StartedInv'
  OBVIOUS
<1>1. /\ at \in [1 .. Last -> {"idle", "sending", "failing", "locked", "leaving", "done"}]
      /\ started \in 0 .. Last /\ Last \in Nat
  BY PublisherAssumption DEF IInv, TypeOK
<1>2. Over => StartedInv'
  BY PublisherAssumption DEF Over, Idle, StartedInv
<1>3. ASSUME NEW n \in 1 .. StreamBatch, Invoke(n) PROVE StartedInv'
  BY <1>3 DEF Invoke, StartedInv
<1>4. CASE StartChunk
  <2>1. started + 1 \in Chunks /\ Chunks' = Chunks
    BY <1>4, SameChunks DEF StartChunk
  <2>2. started + 1 \in 1 .. Last
    BY <2>1, TypeBounds, ChunkFacts DEF IInv
  <2>3. at' = [at EXCEPT ![started + 1] = "sending"] /\ started' = started + 1
        /\ size # 0 /\ size' = size
    BY <1>4 DEF StartChunk
  <2>4. \A c \in 1 .. Last : at'[c] = "idle" <=> c > started'
    BY <1>1, <2>2, <2>3 DEF StartedInv
  <2>5. QED
    BY <2>1, <2>3, <2>4 DEF StartedInv
<1>5. ASSUME NEW c \in Chunks, Goroutine(c) PROVE StartedInv'
  <2>1. \A d \in 1 .. Last : at'[d] = "idle" <=> at[d] = "idle"
    BY <1>1, <1>5 DEF Goroutine, SendReturns, Lock, Unlock, Leaves
  <2>2. UNCHANGED <<stream, position, size, started>>
    BY <1>5 DEF Goroutine, SendReturns, Lock, Unlock, Leaves
  <2>3. QED
    BY <2>1, <2>2, StartedStays
<1>6. CASE Answer \/ \E S \in SUBSET InTransit : Dies(S)
  BY <1>2, <1>6 DEF Answer, Dies
<1>7. CASE UNCHANGED vars
  BY <1>7, StartedStays DEF vars, runVars
<1>8. QED
  BY <1>3, <1>4, <1>5, <1>6, <1>7 DEF Next

\* The guard of somebody's next step holds: the answer's, the loop's, or that of a
\* goroutine.
SomebodyGoesOn ==
  \/ AllDone
  \/ started + 1 \in Chunks /\ slots < InFlight
  \/ \E c \in Chunks : \/ at[c] \in {"sending", "locked", "leaving"}
                       \/ at[c] = "failing" /\ Free

LEMMA GoesOn == IInv /\ StartedInv /\ size # 0 => SomebodyGoesOn
<1> SUFFICES ASSUME IInv, StartedInv, ~SomebodyGoesOn PROVE FALSE
  OBVIOUS
<1>1. Chunks \subseteq 1 .. Last
  BY TypeBounds, ChunkFacts DEF IInv
<1>2. \A c \in Chunks : at[c] \in {"idle", "failing", "done"}
  BY <1>1 DEF SomebodyGoesOn, IInv, TypeOK
<1>3. \A c \in 1 .. Last : at[c] # "idle" => c \in Chunks
  <2> SUFFICES ASSUME NEW c \in 1 .. Last, at[c] # "idle" PROVE c \in Chunks
    OBVIOUS
  <2>1. c \in 1 .. started /\ started \in Chunks
    BY PublisherAssumption DEF StartedInv, IInv, TypeOK
  <2>2. QED
    BY <2>1, TypeBounds, ChunksAreFirst DEF IInv
<1>4. \A c \in Chunks : at[c] # "failing"
  <2> SUFFICES ASSUME NEW c \in Chunks, at[c] = "failing" PROVE FALSE
    OBVIOUS
  <2>1. mutex \in 1 .. Last
    BY PublisherAssumption DEF SomebodyGoesOn, Free, IInv, TypeOK
  <2>2. at[mutex] = "locked"
    BY <2>1 DEF IInv, TypeOK
  <2>3. QED
    BY <1>2, <1>3, <2>1, <2>2
<1>5. Holders = {}
  BY <1>2, <1>3, <1>4 DEF Holders, Holds
<1>6. slots = 0
  BY <1>5, FS_EmptySet DEF Holders, IInv, TypeOK
<1>7. PICK c \in Chunks : at[c] = "idle"
  BY <1>2, <1>4 DEF SomebodyGoesOn, AllDone
<1>8. started + 1 \in Chunks
  <2>1. c > started /\ c \in 1 .. Last /\ started \in 0 .. Last
    BY <1>1, <1>7 DEF StartedInv, IInv, TypeOK
  <2>2. started + 1 \in 1 .. c
    BY <2>1, PublisherAssumption
  <2>3. QED
    BY <1>7, <2>2, TypeBounds, ChunksAreFirst DEF IInv
<1>9. QED
  BY <1>6, <1>8, PublisherAssumption DEF SomebodyGoesOn

\* While an invocation runs, the loop, a goroutine or the answer can always take its
\* next step: a goroutine that waits for the mutex has one to wait for, and the loop
\* that waits for a slot too (sem and mu in Publish), whatever fails.
THEOREM NobodyWaitsForEver == Spec => [](size # 0 => SomebodyGoesOn)
<1>1. Init => StartedInv
  BY PublisherAssumption DEF Init, Idle, StartedInv
<1>2. QED
  BY <1>1, NextStarted, GoesOn, Invariant, PTL DEF Spec

\* The steps a goroutine still has to take, its start among them.
StepsFrom == [idle |-> 5, sending |-> 4, failing |-> 3, locked |-> 2, leaving |-> 1, done |-> 0]
Left == [c \in 1 .. Last |-> StepsFrom[at[c]]]
StepsLeft == SumFunctionOnSet(Left, 1 .. Last)

LEMMA LeftIsNat == TypeOK => \A c \in 1 .. Last : Left[c] \in Nat
BY DEF TypeOK, Left, StepsFrom

\* One goroutine that moves on.
LEMMA OneStepLess ==
  ASSUME TypeOK, TypeOK', NEW c \in 1 .. Last, NEW place, at' = [at EXCEPT ![c] = place],
         StepsFrom[place] < StepsFrom[at[c]]
  PROVE  StepsLeft' < StepsLeft
<1> DEFINE D == 1 .. Last
           f == Left
           g == Left'
<1>1. IsFiniteSet(D)
  BY FS_Interval, PublisherAssumption
<1>2. \A d \in D : f[d] \in Nat
  BY LeftIsNat
<1>3. \A d \in D : g[d] \in Nat
  <2>1. at' \in [D -> {"idle", "sending", "failing", "locked", "leaving", "done"}]
    BY DEF TypeOK
  <2>2. \A d \in D : StepsFrom[at'[d]] \in Nat
    BY <2>1 DEF StepsFrom
  <2>3. QED
    BY <2>2 DEF Left
<1>4. /\ \A d \in D \ {c} : f[d] = g[d]
      /\ f[c] = StepsFrom[at[c]] /\ g[c] = StepsFrom[place]
  BY DEF Left, TypeOK
<1>5. StepsLeft = SumFunctionOnSet(f, D) /\ StepsLeft' = SumFunctionOnSet(g, D)
  BY DEF StepsLeft
<1>6. c \in D /\ g[c] < f[c]
  BY <1>4
<1> HIDE DEF f, g, D
<1>7. SumFunctionOnSet(g, D) < SumFunctionOnSet(f, D)
  BY <1>1, <1>2, <1>3, <1>4, <1>6, SmallerSum
<1>8. QED
  BY <1>5, <1>7

\* A step inside an invocation.
LEMMA StepIsProgress ==
  ASSUME IInv, IInv', Next, size # 0, size' # 0
  PROVE  StepsLeft' < StepsLeft
<1>1. /\ at \in [1 .. Last -> {"idle", "sending", "failing", "locked", "leaving", "done"}]
      /\ TypeOK /\ TypeOK'
  BY DEF IInv, TypeOK
<1>2. CASE StartChunk
  <2>1. started + 1 \in 1 .. Last
    BY <1>2, TypeBounds, ChunkFacts DEF StartChunk, IInv
  <2>2. at[started + 1] = "idle" /\ at' = [at EXCEPT ![started + 1] = "sending"]
    BY <1>2, <2>1, PublisherAssumption DEF StartChunk, IInv, TypeOK, GoroutineInv
  <2>3. StepsFrom["sending"] < StepsFrom[at[started + 1]]
    BY <2>2 DEF StepsFrom
  <2>4. QED
    BY <1>1, <2>1, <2>2, <2>3, OneStepLess
<1>3. ASSUME NEW c \in Chunks, Goroutine(c) PROVE StepsLeft' < StepsLeft
  <2>1. c \in 1 .. Last
    BY TypeBounds, ChunkFacts DEF IInv
  <2>2. PICK place : at' = [at EXCEPT ![c] = place] /\ StepsFrom[place] < StepsFrom[at[c]]
    <3>1. \A S, R : SendReturns(c, S, R) =>
            \/ at' = [at EXCEPT ![c] = "leaving"] /\ StepsFrom["leaving"] < StepsFrom[at[c]]
            \/ at' = [at EXCEPT ![c] = "failing"] /\ StepsFrom["failing"] < StepsFrom[at[c]]
      <4>1. \A S, R : SendReturns(c, S, R) =>
              /\ at[c] = "sending"
              /\ \/ at' = [at EXCEPT ![c] = "leaving"] \/ at' = [at EXCEPT ![c] = "failing"]
        BY DEF SendReturns
      <4>2. QED
        BY <4>1 DEF StepsFrom
    <3>2. Lock(c) => at' = [at EXCEPT ![c] = "locked"] /\ StepsFrom["locked"] < StepsFrom[at[c]]
      BY DEF Lock, StepsFrom
    <3>3. Unlock(c) => at' = [at EXCEPT ![c] = "leaving"] /\ StepsFrom["leaving"] < StepsFrom[at[c]]
      BY DEF Unlock, StepsFrom
    <3>4. Leaves(c) => at' = [at EXCEPT ![c] = "done"] /\ StepsFrom["done"] < StepsFrom[at[c]]
      BY DEF Leaves, StepsFrom
    <3>5. QED
      BY <1>3, <3>1, <3>2, <3>3, <3>4 DEF Goroutine
  <2>3. QED
    BY <1>1, <2>1, <2>2, OneStepLess
<1>4. ~Answer /\ ~\E S \in SUBSET InTransit : Dies(S)
  BY DEF Answer, Dies, Over
<1>5. ~\E n \in 1 .. StreamBatch : Invoke(n)
  BY DEF Invoke
<1>6. QED
  BY <1>2, <1>3, <1>4, <1>5 DEF Next

\* Every step of an invocation but its last leaves its goroutines fewer steps to take,
\* so it takes finitely many, whatever SQS refuses: nothing in Publish is done again.
THEOREM InvocationsAreFinite ==
  Spec => /\ [](StepsLeft \in Nat)
          /\ [][size # 0 /\ size' # 0 => StepsLeft' < StepsLeft]_vars
<1> DEFINE Measured == StepsLeft \in Nat
           Advances == size # 0 /\ size' # 0 => StepsLeft' < StepsLeft
<1>1. IInv => Measured
  <2>1. IsFiniteSet(1 .. Last)
    BY FS_Interval, PublisherAssumption
  <2>2. QED
    BY <2>1, LeftIsNat, SumIsNat DEF IInv, StepsLeft
<1>2. IInv /\ IInv' /\ [Next]_vars => [Advances]_vars
  BY StepIsProgress
<1> HIDE DEF Measured, Advances
<1>3. Spec => []Measured /\ [][Advances]_vars
  BY <1>1, <1>2, Invariant, PTL DEF Spec
<1>4. QED
  BY <1>3 DEF Measured, Advances

=============================================================================
