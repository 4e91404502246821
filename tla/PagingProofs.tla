---------------------------- MODULE PagingProofs ----------------------------
(* Theorems about Paging, for any batch, page size, cap, number of retries  *)
(* in flight and changes.                                                   *)
EXTENDS Paging, TLAPS, FiniteSetTheorems, SequenceTheorems

-----------------------------------------------------------------------------
(* The inductive invariant, in six parts.                                  *)

Reading == pc \in {"reading", "probing", "checking"}

\* An item that did not change since the operation began has one image.
TableInv ==
  /\ Stored \in {{}, Items}
  /\ \A i \in Stored : images[i] \in Seq(Image) /\ images[i] # <<>>
  /\ changes \in 0 .. MaxChanges
  /\ steady \subseteq Stored
  /\ \A i \in steady : Len(images[i]) = 1

\* Where the operation stands.
ControlInv ==
  /\ op \in {"none", "list", "retry"}
  /\ filter \in Status \cup {AnyStatus}
  /\ limit \in 1 .. MaxPageLimit
  /\ pc \in {"idle", "reading", "probing", "checking", "holding", "retrying", "over"}
  /\ answer \in {"none", "200", "202", "404", "503", "failed"}
  /\ pc # "over" => answer = "none"
  /\ pc \notin {"idle", "over"} => op # "none"
  /\ op = "retry" => filter = "FAILED"
  /\ pc = "holding" => op = "list"
  /\ pc = "retrying" => op = "retry"
  /\ answer = "200" => op = "list"
  /\ answer = "202" => op = "retry"

InOrder(s) == \A j, k \in 1 .. Len(s) : j < k => s[j] < s[k]
ItemsInOrder(p) == \A j, k \in 1 .. Len(p) : j < k => p[j].item < p[k].item

\* What is listed lies up to after, what is on the page behind it and up to start.
PageInv ==
  /\ after \in 0 .. N /\ start \in 0 .. N
  /\ page \in Seq(Read) /\ Len(page) <= limit
  /\ listed \in Seq(Items) /\ InOrder(listed)
  /\ pc = "idle" => after = 0 /\ start = 0 /\ listed = <<>>
  /\ pc \notin {"reading", "probing", "over"} => page = <<>>
  /\ Reading => after <= start
  /\ pc # "over" => \A k \in 1 .. Len(listed) : listed[k] <= after
  /\ pc \in {"reading", "probing"} =>
       /\ ItemsInOrder(page)
       /\ \A k \in 1 .. Len(page) : after < page[k].item /\ page[k].item <= start
  /\ pc = "probing" => Len(page) = limit
  /\ pc = "checking" => after = 0

\* What was read of an item that did not change is still so, and what a retry is
\* started for is under the cap.
RetryInv ==
  /\ eligible \subseteq Read /\ calling \subseteq Read
  /\ IsFiniteSet(calling) /\ Cardinality(calling) <= RetryInFlight
  /\ moved \subseteq requeued /\ requeued \subseteq Items
  /\ errs \in BOOLEAN
  /\ pc \notin {"retrying", "over"} => calling = {} /\ ~errs
  /\ pc = "idle" => eligible = {}
  /\ \A m \in eligible \cup calling :
       /\ m.attempts < MaxAttempts
       /\ m.item \in steady => m.attempts = Row(m.item).attempts
  /\ \A k \in 1 .. Len(page) :
       page[k].item \in steady => page[k].attempts = Row(page[k].item).attempts

\* An item that has to be on the pages.
Must(i) == i \in Stored /\ (filter = AnyStatus \/ (i \in steady /\ Matches(Row(i))))

Taken(i) ==
  \/ op = "list" /\ i \in Listed
  \/ op = "retry" /\ \/ Row(i).attempts = MaxAttempts
                     \/ \E m \in eligible \cup calling : m.item = i

OnPage(i, p) == \E k \in 1 .. Len(p) : p[k].item = i

\* It is taken, on the page, or still ahead.
CoverInv ==
  /\ Reading \/ pc = "holding" => \A i \in Items : Must(i) /\ i <= after => Taken(i)
  /\ pc \in {"reading", "probing"} =>
       \A i \in Items : Must(i) /\ after < i /\ i <= start => OnPage(i, page)
  /\ pc = "checking" => \A i \in Items : ~Must(i)
  /\ pc = "retrying" => errs \/ \A i \in Items : Must(i) => Taken(i)
  /\ answer = "200" => \A i \in Items : Must(i) => i \in Listed
  /\ answer = "202" => \A i \in Items : Must(i) => Row(i).attempts = MaxAttempts

\* Only a stored batch is read, retried or answered of.
KnownInv ==
  /\ answer = "404" => Stored = {}
  /\ answer \in {"200", "202"} => Stored # {}
  /\ after # 0 => Stored # {}
  /\ page # <<>> => Stored # {}
  /\ eligible \cup calling # {} => Stored # {}
  /\ pc = "retrying" => Stored # {}

IInv == TableInv /\ ControlInv /\ PageInv /\ RetryInv /\ CoverInv /\ KnownInv

-----------------------------------------------------------------------------
(* Sequences.                                                              *)

\* The end of a sequence that is not empty.
LEMMA FinalIsElement ==
  ASSUME NEW T, NEW s \in Seq(T), s # <<>>
  PROVE  /\ Len(s) \in Nat \ {0} /\ Len(s) \in 1 .. Len(s)
         /\ Final(s) = s[Len(s)] /\ Final(s) \in T
<1>1. Len(s) \in Nat /\ Len(s) # 0
  BY EmptySeq
<1>2. Len(s) \in 1 .. Len(s)
  BY <1>1, SMT
<1>3. s[Len(s)] \in T
  BY <1>2, ElementOfSeq
<1> QED BY <1>1, <1>2, <1>3 DEF Final

\* A sequence after another one.
LEMMA Joined ==
  ASSUME NEW T, NEW s \in Seq(T), NEW t \in Seq(T)
  PROVE  /\ s \o t \in Seq(T) /\ Len(s \o t) = Len(s) + Len(t)
         /\ \A k \in 1 .. Len(s) : (s \o t)[k] = s[k]
         /\ \A k \in 1 .. Len(t) : (s \o t)[Len(s) + k] = t[k]
         /\ \A k \in 1 .. Len(s \o t) :
              k \in 1 .. Len(s) \/ (k - Len(s) \in 1 .. Len(t) /\ k = Len(s) + (k - Len(s)))
<1>1. /\ s \o t \in Seq(T) /\ Len(s \o t) = Len(s) + Len(t)
      /\ \A k \in 1 .. Len(s) + Len(t) : (s \o t)[k] = IF k <= Len(s) THEN s[k] ELSE t[k - Len(s)]
  BY ConcatProperties
<1> DEFINE a == Len(s)
           b == Len(t)
           u == s \o t
<1>2. a \in Nat /\ b \in Nat
  OBVIOUS
<1>3. \A k \in 1 .. a + b : u[k] = IF k <= a THEN s[k] ELSE t[k - a]
  BY <1>1
<1> HIDE DEF a, b, u
<1>4. \A k \in 1 .. a : u[k] = s[k]
  BY <1>2, <1>3, SMT
<1>5. ASSUME NEW k \in 1 .. b PROVE u[a + k] = t[k]
  <2>1. a + k \in 1 .. a + b /\ ~(a + k <= a) /\ (a + k) - a = k
    BY <1>2, SMT
  <2> QED BY <2>1, <1>3
<1>6. \A k \in 1 .. a + b : k \in 1 .. a \/ (k - a \in 1 .. b /\ k = a + (k - a))
  BY <1>2, SMT
<1> QED BY <1>1, <1>4, <1>5, <1>6 DEF a, b, u

\* Items are numbers.
LEMMA ItemsAreNumbers ==
  /\ N \in Nat
  /\ \A i \in Items : i \in Nat /\ 1 <= i /\ i <= N
  /\ \A s \in Seq(Items) : \A k \in 1 .. Len(s) : s[k] \in Items /\ s[k] \in Nat
<1>1. N \in Nat
  BY PagingAssumption
<1>2. \A i \in Items : i \in Nat /\ 1 <= i /\ i <= N
  BY <1>1 DEF Items
<1> DEFINE I == Items
<1>3. \A i \in I : i \in Nat
  BY <1>2
<1> HIDE DEF I
<1>4. ASSUME NEW s \in Seq(I), NEW k \in 1 .. Len(s) PROVE s[k] \in I
  BY ElementOfSeq
<1> QED BY <1>1, <1>2, <1>3, <1>4 DEF I

\* What lies behind a bound, after what lies up to it, is in order.
LEMMA JoinedInOrder ==
  ASSUME NEW s \in Seq(Items), NEW t \in Seq(Items), NEW u, u = s \o t, NEW bound \in Nat,
         InOrder(s), InOrder(t),
         \A k \in 1 .. Len(s) : s[k] <= bound,
         \A k \in 1 .. Len(t) : bound < t[k]
  PROVE  /\ u \in Seq(Items) /\ InOrder(u)
         /\ \A k \in 1 .. Len(u) : \/ \E j \in 1 .. Len(s) : u[k] = s[j]
                                   \/ \E j \in 1 .. Len(t) : u[k] = t[j]
         /\ \A j \in 1 .. Len(s) : \E k \in 1 .. Len(u) : u[k] = s[j]
         /\ \A j \in 1 .. Len(t) : \E k \in 1 .. Len(u) : u[k] = t[j]
<1> DEFINE a == Len(s)
           b == Len(t)
<1>1. /\ u \in Seq(Items) /\ Len(u) = a + b
      /\ \A k \in 1 .. a : u[k] = s[k]
      /\ \A k \in 1 .. b : u[a + k] = t[k]
      /\ \A k \in 1 .. a + b : k \in 1 .. a \/ (k - a \in 1 .. b /\ k = a + (k - a))
  BY Joined
<1>2. a \in Nat /\ b \in Nat
  OBVIOUS
<1>3. /\ \A k \in 1 .. a : s[k] \in Nat /\ s[k] <= bound
      /\ \A k \in 1 .. b : t[k] \in Nat /\ bound < t[k]
  BY ItemsAreNumbers
<1>4. /\ \A j, k \in 1 .. a : j < k => s[j] < s[k]
      /\ \A j, k \in 1 .. b : j < k => t[j] < t[k]
  BY DEF InOrder
<1> HIDE DEF a, b
<1>5. ASSUME NEW j \in 1 .. a + b, NEW k \in 1 .. a + b, j < k PROVE u[j] < u[k]
  <2>1. CASE j \in 1 .. a /\ k \in 1 .. a
    BY <1>1, <1>4, <1>5, <2>1
  <2>2. CASE j \in 1 .. a /\ k - a \in 1 .. b
    <3>1. u[j] = s[j]
      BY <1>1, <2>2
    <3>2. u[a + (k - a)] = t[k - a] /\ a + (k - a) = k
      BY <1>1, <1>2, <2>2
    <3>3. u[j] <= bound /\ bound < u[k] /\ u[j] \in Nat /\ u[k] \in Nat
      BY <1>3, <2>2, <3>1, <3>2
    <3>4. \A x, y \in Nat : x <= bound /\ bound < y => x < y
      OBVIOUS
    <3> QED BY <3>3, <3>4
  <2>3. CASE j - a \in 1 .. b /\ k - a \in 1 .. b
    <3>1. j - a < k - a
      BY <1>2, <1>5, SMT
    <3>2. /\ u[a + (k - a)] = t[k - a] /\ a + (k - a) = k
          /\ u[a + (j - a)] = t[j - a] /\ a + (j - a) = j
      BY <1>1, <1>2, <2>3
    <3> QED BY <1>4, <2>3, <3>1, <3>2
  <2>4. ~(j - a \in 1 .. b /\ k \in 1 .. a)
    BY <1>2, <1>5, SMT
  <2> QED BY <1>1, <2>1, <2>2, <2>3, <2>4
<1>6. \A k \in 1 .. a : k \in 1 .. a + b
  BY <1>2, SMT
<1>7. \A k \in 1 .. b : a + k \in 1 .. a + b
  BY <1>2, SMT
<1>8. InOrder(u)
  BY <1>1, <1>5 DEF InOrder
<1>9. \A k \in 1 .. a + b : (\E j \in 1 .. a : u[k] = s[j]) \/ (\E j \in 1 .. b : u[k] = t[j])
  BY <1>1
<1> QED BY <1>1, <1>6, <1>7, <1>8, <1>9 DEF a, b

-----------------------------------------------------------------------------
(* The initial states, and what others do to the batch.                    *)

LEMMA InitInv == Init => IInv
<1> SUFFICES ASSUME Init PROVE IInv
  OBVIOUS
<1> USE DEF Init
<1>1. TableInv
  <2>1. CASE images = [i \in {} |-> <<>>]
    BY <2>1, PagingAssumption DEF TableInv, Stored
  <2>2. ASSUME NEW b \in Batches, images = [i \in Items |-> <<b[i]>>] PROVE TableInv
    <3>1. \A i \in Items : b[i] \in Image
      BY BatchesAssumption
    <3>2. \A x : x \in Image => <<x>> \in Seq(Image) /\ <<x>> # <<>>
      OBVIOUS
    <3>3. Stored = Items /\ \A i \in Items : images[i] = <<b[i]>>
      BY <2>2 DEF Stored
    <3>4. \A i \in Stored : images[i] \in Seq(Image) /\ images[i] # <<>>
      BY <3>1, <3>2, <3>3
    <3>5. changes \in 0 .. MaxChanges /\ steady = {}
      BY PagingAssumption
    <3> QED BY <3>3, <3>4, <3>5 DEF TableInv
  <2> QED BY <2>1, <2>2
<1>2. ControlInv
  BY PagingAssumption DEF ControlInv
<1>3. PageInv
  BY PagingAssumption DEF PageInv, InOrder, Reading
<1>4. RetryInv
  <2>1. IsFiniteSet({}) /\ Cardinality({}) = 0 /\ 0 <= RetryInFlight
    BY PagingAssumption, FS_EmptySet
  <2>2. Len(page) = 0
    OBVIOUS
  <2>3. \A k \in 1 .. Len(page) : FALSE
    BY <2>2
  <2> QED BY <2>1, <2>3 DEF RetryInv
<1>5. CoverInv /\ KnownInv
  BY DEF CoverInv, KnownInv, Reading
<1> QED BY <1>1, <1>2, <1>3, <1>4, <1>5 DEF IInv

\* What a step that writes rows leaves alone: the items that stay steady.
Frame ==
  /\ Stored' = Stored /\ steady' \subseteq steady
  /\ \A i \in steady' : images'[i] = images[i]

LEMMA FrameKeepsRows ==
  ASSUME TableInv, Frame, filter' = filter
  PROVE  /\ \A i \in steady' : Row(i)' = Row(i)
         /\ \A i : Must(i)' => Must(i)
<1>1. \A i \in steady' : Row(i)' = Row(i)
  BY DEF Frame, Row, Final
<1>2. ASSUME NEW i, Must(i)' PROVE Must(i)
  <2>1. i \in Stored
    BY <1>2 DEF Must, Frame
  <2>2. CASE filter' = AnyStatus
    BY <2>1, <2>2 DEF Must
  <2>3. CASE i \in steady' /\ Matches(Row(i))'
    <3>1. Matches(Row(i))
      BY <1>1, <2>3 DEF Matches
    <3> QED BY <2>1, <2>3, <3>1 DEF Must, Frame
  <2> QED BY <1>2, <2>2, <2>3 DEF Must
<1> QED BY <1>1, <1>2

LEMMA WriteFrames ==
  ASSUME TableInv, NEW i \in Stored, NEW m \in Image, Write(i, m)
  PROVE  /\ Frame
         /\ \A j \in Stored' : images'[j] \in Seq(Image) /\ images'[j] # <<>>
         /\ \A j \in steady' : Len(images'[j]) = 1
<1> USE DEF Write, Stored, TableInv
<1>1. Stored' = Stored
  OBVIOUS
<1>2. \A j \in Stored : j # i => images'[j] = images[j]
  OBVIOUS
<1>3. images'[i] = Append(images[i], m)
  OBVIOUS
<1>4. images'[i] \in Seq(Image) /\ images'[i] # <<>>
  BY <1>3, AppendProperties
<1>5. steady' \subseteq steady /\ i \notin steady'
  OBVIOUS
<1> QED BY <1>1, <1>2, <1>4, <1>5 DEF Frame

\* Such a step keeps the invariant.
LEMMA FrameKeeps ==
  ASSUME IInv, Frame, TableInv',
         UNCHANGED <<queryVars, pageVars, pc, retryVars, answer>>
  PROVE  IInv'
<1> USE DEF IInv, queryVars, pageVars, retryVars
<1>1. /\ \A i \in steady' : Row(i)' = Row(i)
      /\ \A i : Must(i)' => Must(i)
  BY FrameKeepsRows
<1>2. steady' \subseteq steady /\ Stored' = Stored
  BY DEF Frame
<1>3. ControlInv'
  BY DEF ControlInv
<1>4. PageInv'
  BY DEF PageInv, Reading
<1>5. RetryInv'
  BY <1>1, <1>2 DEF RetryInv
<1>6. KnownInv'
  BY <1>2 DEF KnownInv
<1>7. CoverInv'
  <2>1. \A i : Must(i)' /\ Taken(i) => Taken(i)'
    <3> SUFFICES ASSUME NEW i, Must(i)', Taken(i) PROVE Taken(i)'
      OBVIOUS
    <3>1. op = "retry" => i \in steady'
      BY PagingAssumption DEF Must, ControlInv, Status
    <3> QED BY <1>1, <3>1 DEF Taken, Listed
  <2>2. answer = "202" => \A i : Must(i)' => i \in steady'
    BY PagingAssumption DEF Must, ControlInv, Status
  <2> QED BY <1>1, <2>1, <2>2 DEF CoverInv, Reading, OnPage, Listed
<1> QED BY <1>3, <1>4, <1>5, <1>6, <1>7

LEMMA OthersStep ==
  ASSUME IInv, NEW i \in Stored,
         (\E m \in Image : Change(i, m)) \/ IndexFollows(i)
  PROVE  IInv'
<1>1. ASSUME NEW m \in Image, Change(i, m) PROVE IInv'
  <2>1. TableInv /\ Write(i, m) /\ changes' = changes + 1 /\ changes < MaxChanges
    BY <1>1 DEF Change, IInv
  <2>2. changes' \in 0 .. MaxChanges
    BY <2>1, PagingAssumption DEF TableInv
  <2>3. Frame /\ TableInv'
    BY <2>1, <2>2, WriteFrames DEF TableInv, Frame
  <2> QED BY <1>1, <2>3, FrameKeeps DEF Change
<1>2. CASE IndexFollows(i)
  <2>1. /\ Len(images[i]) > 1
        /\ images' = [images EXCEPT ![i] = Tail(@)]
        /\ UNCHANGED <<changes, steady, queryVars, pageVars, pc, retryVars, answer>>
    BY <1>2 DEF IndexFollows
  <2>2. i \notin steady
    <3>1. i \in steady => Len(images[i]) = 1
      BY DEF IInv, TableInv
    <3>2. ~(1 > 1)
      OBVIOUS
    <3> QED BY <2>1, <3>1, <3>2
  <2>3. /\ Stored' = Stored /\ images'[i] = Tail(images[i])
        /\ \A j \in Stored : j # i => images'[j] = images[j]
    BY <2>1 DEF Stored
  <2>4. Tail(images[i]) \in Seq(Image) /\ Tail(images[i]) # <<>>
    <3> DEFINE s == images[i]
    <3>1. s \in Seq(Image) /\ Len(s) > 1
      BY <2>1 DEF IInv, TableInv
    <3> HIDE DEF s
    <3>2. s # <<>> /\ Len(s) \in Nat
      BY <3>1
    <3>3. Tail(s) \in Seq(Image) /\ Len(Tail(s)) = Len(s) - 1
      BY <3>1, <3>2, HeadTailProperties
    <3>4. Len(Tail(s)) # 0
      BY <3>1, <3>2, <3>3, SMT
    <3>5. Tail(s) # <<>>
      BY <3>3, <3>4, EmptySeq
    <3> QED BY <3>3, <3>5 DEF s
  <2>5. Frame /\ TableInv'
    BY <2>1, <2>2, <2>3, <2>4 DEF Frame, TableInv, IInv
  <2> QED BY <2>1, <2>5, FrameKeeps
<1> QED BY <1>1, <1>2

-----------------------------------------------------------------------------
(* The operation begins, goes on to its next page, or is given up.         *)

LEMMA BeginStep ==
  ASSUME IInv, NEW o \in {"list", "retry"}, NEW f \in Status \cup {AnyStatus},
         NEW k \in 1 .. MaxPageLimit, o = "retry" => f = "FAILED", Begin(o, f, k)
  PROVE  IInv'
<1> USE DEF IInv, Begin, pageVars, retryVars
<1>1. Stored' = Stored
  BY DEF Stored
<1>2. TableInv'
  BY <1>1 DEF TableInv
<1>3. ControlInv'
  BY DEF ControlInv
<1>4. after = 0 /\ start = 0 /\ listed = <<>> /\ page = <<>> /\ eligible = {} /\ calling = {}
  BY DEF PageInv, RetryInv
<1>5. PageInv'
  <2>1. Len(page) = 0 /\ 0 <= limit' /\ Len(listed) = 0
    BY <1>4
  <2>2. \A j \in 1 .. 0 : FALSE
    OBVIOUS
  <2> QED BY <1>4, <2>1, <2>2, PagingAssumption DEF PageInv, Reading, InOrder, ItemsInOrder
<1>6. RetryInv'
  <2>1. \A j \in 1 .. Len(page) : FALSE
    BY <1>4
  <2> QED BY <1>4, <2>1 DEF RetryInv
<1>7. CoverInv'
  <2>1. \A i \in Items : ~(i <= 0)
    BY PagingAssumption DEF Items
  <2> QED BY <1>4, <2>1 DEF CoverInv, Reading, ControlInv
<1>8. KnownInv'
  BY <1>1 DEF KnownInv
<1> QED BY <1>2, <1>3, <1>5, <1>6, <1>7, <1>8

LEMMA NextPageStep ==
  ASSUME IInv, NextPage
  PROVE  IInv'
<1> USE DEF IInv, NextPage, tableVars, queryVars, retryVars
<1>1. Stored' = Stored /\ \A i : Row(i)' = Row(i) /\ Must(i)' = Must(i) /\ Taken(i)' = Taken(i)
  BY DEF Stored, Row, Final, Must, Matches, Taken, Listed
<1>2. TableInv' /\ ControlInv'
  BY <1>1 DEF TableInv, ControlInv
<1>3. PageInv'
  <2>1. \A j \in 1 .. Len(page) : FALSE
    BY DEF PageInv
  <2> QED BY <2>1 DEF PageInv, Reading, ItemsInOrder
<1>4. RetryInv' /\ KnownInv'
  BY <1>1 DEF RetryInv, KnownInv
<1>5. CoverInv'
  <2>1. \A i \in Items : ~(after < i /\ i <= after)
    BY DEF PageInv, Items
  <2> QED BY <1>1, <2>1 DEF CoverInv, Reading, ControlInv
<1> QED BY <1>2, <1>3, <1>4, <1>5

\* The operation is over, with nothing done.
LEMMA OverStep ==
  ASSUME IInv, NEW code \in {"none", "404", "failed", "503", "202"}, Over(code),
         code = "404" => Stored = {},
         code = "202" => /\ op = "retry" /\ Stored # {}
                         /\ \A i \in Items : Must(i) => Row(i).attempts = MaxAttempts,
         UNCHANGED <<tableVars, queryVars, pageVars, retryVars>>
  PROVE  IInv'
<1> USE DEF IInv, Over, tableVars, queryVars, pageVars, retryVars
<1>1. Stored' = Stored /\ \A i : Row(i)' = Row(i) /\ Must(i)' = Must(i)
  BY DEF Stored, Row, Final, Must, Matches
<1>2. TableInv' /\ ControlInv'
  BY <1>1 DEF TableInv, ControlInv
<1>3. PageInv'
  BY DEF PageInv, Reading
<1>4. RetryInv' /\ KnownInv'
  BY <1>1 DEF RetryInv, KnownInv
<1>5. CoverInv'
  BY <1>1 DEF CoverInv, Reading
<1> QED BY <1>2, <1>3, <1>4, <1>5

-----------------------------------------------------------------------------
(* A page is delivered to the listing or to RetryFailed.                   *)

LEMMA DeliverStep ==
  ASSUME IInv, NEW p \in Seq(Read), NEW more \in BOOLEAN,
         Reading, Stored # {}, ItemsInOrder(p),
         \A k \in 1 .. Len(p) : after < p[k].item,
         \A k \in 1 .. Len(p) : p[k].item \in steady => p[k].attempts = Row(p[k].item).attempts,
         \A i \in Items : Must(i) /\ after < i /\ (~more \/ p = <<>> \/ i <= LastOf(p))
                         => OnPage(i, p),
         Deliver(p, more)
  PROVE  IInv'
<1> USE DEF IInv, tableVars, queryVars, retryVars
<1> DEFINE q == [k \in 1 .. Len(p) |-> p[k].item]
           last == LastOf(p)
<1>1. /\ page' = <<>> /\ UNCHANGED tableVars /\ UNCHANGED queryVars
      /\ ListsPage(p, more) \/ Collects(p, more)
  BY DEF Deliver
<1>2. /\ Stored' = Stored /\ steady' = steady
      /\ \A i : Row(i)' = Row(i) /\ Must(i)' = Must(i)
  BY <1>1 DEF Stored, Row, Final, Must, Matches
<1>3. TableInv'
  BY <1>1, <1>2 DEF TableInv
<1>4. Len(p) \in Nat /\ \A k \in 1 .. Len(p) : /\ p[k] \in Read /\ p[k].item \in Items
                                              /\ p[k].attempts \in 1 .. MaxAttempts
  <2>1. Len(p) \in Nat
    OBVIOUS
  <2>2. ASSUME NEW k \in 1 .. Len(p) PROVE p[k] \in Read
    <3> HIDE DEF Read
    <3> QED BY ElementOfSeq
  <2>3. \A m \in Read : m.item \in Items /\ m.attempts \in 1 .. MaxAttempts
    BY DEF Read
  <2> QED BY <2>1, <2>2, <2>3
<1>5. ASSUME p # <<>>
      PROVE  /\ last \in 1 .. N /\ after < last
             /\ \A k \in 1 .. Len(p) : p[k].item <= last
  <2> DEFINE len == Len(p)
  <2>1. len \in 1 .. len /\ last = p[len].item
    BY <1>5, FinalIsElement DEF LastOf
  <2>2. len \in Nat /\ \A k \in 1 .. len : p[k].item \in Nat /\ 1 <= p[k].item /\ p[k].item <= N
    BY <1>4, ItemsAreNumbers
  <2>3. \A k \in 1 .. len : k < len => p[k].item < p[len].item
    BY <2>1 DEF ItemsInOrder
  <2>4. after < p[len].item
    BY <2>1
  <2> HIDE DEF len, last
  <2>5. \A k \in 1 .. len : k < len \/ k = len
    BY <2>2, SMT
  <2>6. last \in Nat /\ 1 <= last /\ last <= N
    BY <2>1, <2>2
  <2>7. last \in 1 .. N
    BY <2>6, ItemsAreNumbers, SMT
  <2>8. \A k \in 1 .. len : p[k].item <= last
    <3> SUFFICES ASSUME NEW k \in 1 .. len PROVE p[k].item <= last
      OBVIOUS
    <3> DEFINE x == p[k].item
    <3>1. x \in Nat /\ (x < last \/ x = last)
      BY <2>1, <2>2, <2>3, <2>5
    <3> HIDE DEF x
    <3>2. x <= last
      BY <2>6, <3>1, SMT
    <3> QED BY <3>2 DEF x
  <2> QED BY <2>1, <2>4, <2>7, <2>8 DEF len
<1>6. after \in 0 .. N /\ start \in 0 .. N /\ N \in Nat
  BY PagingAssumption DEF PageInv
<1>7. \A i \in Items : Must(i) /\ i <= after => Taken(i)
  BY DEF CoverInv
<1>8. calling = {} /\ answer = "none" /\ ~errs /\ op # "none"
  BY DEF RetryInv, ControlInv, Reading
<1>9. \A j \in 1 .. Len(<<>>) : FALSE
  OBVIOUS
<1>10. \A i \in Items : Must(i) /\ (~more \/ p = <<>> \/ i <= last) => i <= after \/ OnPage(i, p)
  BY <1>6 DEF Items
<1> HIDE DEF last
<1>11. CASE ListsPage(p, more)
  <2>1. /\ op = "list" /\ listed' = listed \o q /\ start' = start
        /\ eligible' = eligible /\ calling' = calling /\ moved' = moved
        /\ errs' = errs /\ requeued' = requeued
    BY <1>11 DEF ListsPage
  <2>2. q \in Seq(Items) /\ Len(q) = Len(p) /\ \A k \in 1 .. Len(q) : q[k] = p[k].item
    BY <1>4
  <2>3. listed \in Seq(Items) /\ InOrder(listed) /\ \A k \in 1 .. Len(listed) : listed[k] <= after
    BY DEF PageInv, Reading
  <2>4. InOrder(q) /\ \A k \in 1 .. Len(q) : after < q[k]
    BY <2>2 DEF InOrder, ItemsInOrder
  <2> HIDE DEF q
  <2>5. /\ listed' \in Seq(Items) /\ InOrder(listed')
        /\ \A k \in 1 .. Len(listed') : \/ \E j \in 1 .. Len(listed) : listed'[k] = listed[j]
                                       \/ \E j \in 1 .. Len(q) : listed'[k] = q[j]
        /\ \A j \in 1 .. Len(listed) : \E k \in 1 .. Len(listed') : listed'[k] = listed[j]
        /\ \A j \in 1 .. Len(q) : \E k \in 1 .. Len(listed') : listed'[k] = q[j]
    <3>1. after \in Nat
      BY <1>6
    <3> DEFINE l == listed
               u == listed'
    <3>2. /\ l \in Seq(Items) /\ q \in Seq(Items) /\ u = l \o q /\ InOrder(l) /\ InOrder(q)
          /\ \A k \in 1 .. Len(l) : l[k] <= after
          /\ \A k \in 1 .. Len(q) : after < q[k]
      BY <2>1, <2>2, <2>3, <2>4
    <3> HIDE DEF l, u
    <3>3. u \in Seq(Items) /\ InOrder(u)
      BY <3>1, <3>2, JoinedInOrder
    <3>4. \A k \in 1 .. Len(u) : \/ \E j \in 1 .. Len(l) : u[k] = l[j]
                                \/ \E j \in 1 .. Len(q) : u[k] = q[j]
      BY <3>1, <3>2, JoinedInOrder
    <3>5. \A j \in 1 .. Len(l) : \E k \in 1 .. Len(u) : u[k] = l[j]
      BY <3>1, <3>2, JoinedInOrder
    <3>6. \A j \in 1 .. Len(q) : \E k \in 1 .. Len(u) : u[k] = q[j]
      <4>1. /\ Len(l) \in Nat /\ Len(u) = Len(l) + Len(q)
            /\ \A j \in 1 .. Len(q) : u[Len(l) + j] = q[j]
        BY <3>2, Joined
      <4>2. \A j \in 1 .. Len(q) : Len(l) + j \in 1 .. Len(u)
        BY <3>2, <4>1
      <4> QED BY <4>1, <4>2
    <3>7. InOrder(u) <=> InOrder(listed')
      BY DEF u
    <3> QED BY <3>3, <3>4, <3>5, <3>6, <3>7 DEF l, u
  <2>6. \A i \in Items : Must(i) /\ (~more \/ p = <<>> \/ i <= last) => i \in Listed'
    <3> SUFFICES ASSUME NEW i \in Items, Must(i), ~more \/ p = <<>> \/ i <= last PROVE i \in Listed'
      OBVIOUS
    <3>1. CASE i <= after
      <4>1. i \in Listed
        BY <1>7, <2>1, <3>1 DEF Taken
      <4>2. PICK j \in 1 .. Len(listed) : listed[j] = i
        BY <4>1 DEF Listed
      <4>3. PICK k \in 1 .. Len(listed') : listed'[k] = i
        BY <2>5, <4>2
      <4> QED BY <4>3 DEF Listed
    <3>2. CASE OnPage(i, p)
      <4>1. PICK j \in 1 .. Len(q) : q[j] = i
        BY <2>2, <3>2 DEF OnPage
      <4>2. PICK k \in 1 .. Len(listed') : listed'[k] = i
        BY <2>5, <4>1
      <4> QED BY <4>2 DEF Listed
    <3> QED BY <1>10, <3>1, <3>2
  <2>7. RetryInv' /\ KnownInv'
    BY <1>1, <1>2, <1>8, <1>9, <1>11, <2>1 DEF RetryInv, KnownInv, ListsPage, Over
  <2>8. CASE more /\ p # <<>> /\ after' = last /\ pc' = "holding" /\ answer' = answer
    <3>1. ControlInv'
      BY <1>1, <1>8, <2>1, <2>8 DEF ControlInv
    <3>2. \A k \in 1 .. Len(listed') : listed'[k] <= last
      <4>1. \A k \in 1 .. Len(listed) : listed[k] \in Nat
        BY <2>3, ItemsAreNumbers
      <4>2. \A k \in 1 .. Len(q) : q[k] <= last
        BY <1>5, <2>2, <2>8
      <4>3. \A k \in 1 .. Len(listed) : listed[k] <= last
        BY <1>5, <1>6, <2>3, <2>8, <4>1, SMT
      <4> QED BY <2>5, <4>2, <4>3
    <3>3. PageInv'
      <4>1. 0 <= limit' /\ Len(<<>>) = 0
        BY <1>1 DEF ControlInv
      <4> QED BY <1>1, <1>5, <1>6, <1>9, <2>1, <2>5, <2>8, <3>2, <4>1 DEF PageInv, Reading
    <3>4. CoverInv'
      BY <1>2, <1>8, <2>1, <2>6, <2>8, <1>1 DEF CoverInv, Reading, Taken
    <3> QED BY <1>3, <2>7, <3>1, <3>3, <3>4
  <2>9. CASE (~more \/ p = <<>>) /\ pc' = "over" /\ answer' = "200" /\ after' = after
    <3>1. ControlInv'
      BY <1>1, <2>1, <2>9 DEF ControlInv
    <3>2. PageInv'
      <4>1. 0 <= limit' /\ Len(<<>>) = 0
        BY <1>1 DEF ControlInv
      <4> QED BY <1>1, <1>6, <1>9, <2>1, <2>5, <2>9, <4>1 DEF PageInv, Reading
    <3>3. CoverInv'
      BY <1>2, <2>6, <2>9 DEF CoverInv, Reading
    <3> QED BY <1>3, <2>7, <3>1, <3>2, <3>3
  <2> QED BY <1>11, <2>8, <2>9 DEF ListsPage, Over, last
<1>12. CASE Collects(p, more)
  <2> DEFINE read == {p[k] : k \in 1 .. Len(p)}
  <2>1. /\ op = "retry" /\ listed' = listed
        /\ eligible' = eligible \cup {m \in read : m.attempts < MaxAttempts}
        /\ calling' = calling /\ moved' = moved /\ errs' = errs /\ requeued' = requeued
    BY <1>12 DEF Collects
  <2>2. \A m \in read : \E k \in 1 .. Len(p) : m = p[k]
    OBVIOUS
  <2>3. \A k \in 1 .. Len(p) : p[k] \in read
    OBVIOUS
  <2> HIDE DEF read
  <2>4. RetryInv' /\ (pc' # "idle" => KnownInv' \/ pc' = "over")
    <3>1. eligible' \subseteq Read
      BY <1>4, <2>1, <2>2 DEF RetryInv
    <3>2. \A m \in eligible' : /\ m.attempts < MaxAttempts
                               /\ m.item \in steady => m.attempts = Row(m.item).attempts
      BY <2>1, <2>2 DEF RetryInv
    <3>3. pc' # "idle"
      BY <1>12 DEF Collects, Over
    <3> QED
      BY <1>1, <1>2, <1>8, <1>9, <1>12, <2>1, <3>1, <3>2, <3>3 DEF RetryInv, KnownInv, Collects, Over
  <2>5. \A i \in Items : Must(i) /\ (~more \/ p = <<>> \/ i <= last) => Taken(i)'
    <3> SUFFICES ASSUME NEW i \in Items, Must(i), ~more \/ p = <<>> \/ i <= last PROVE Taken(i)'
      OBVIOUS
    <3>1. CASE i <= after
      BY <1>2, <1>7, <2>1, <1>1, <3>1 DEF Taken
    <3>2. CASE OnPage(i, p)
      <4>1. PICK k \in 1 .. Len(p) : p[k].item = i
        BY <3>2 DEF OnPage
      <4>2. i \in steady
        BY <2>1, PagingAssumption DEF Must, ControlInv, Status
      <4>3. p[k].attempts = Row(i).attempts /\ p[k].attempts \in 1 .. MaxAttempts
        BY <1>4, <4>1, <4>2
      <4>4. CASE p[k].attempts < MaxAttempts
        <5>1. p[k] \in eligible'
          BY <2>1, <2>3, <4>4
        <5> QED BY <1>1, <2>1, <4>1, <5>1 DEF Taken
      <4>5. CASE ~(p[k].attempts < MaxAttempts)
        <5>1. Row(i).attempts = MaxAttempts
          BY <4>3, <4>5, PagingAssumption
        <5> QED BY <1>1, <1>2, <2>1, <5>1 DEF Taken
      <4> QED BY <4>4, <4>5
    <3> QED BY <1>10, <3>1, <3>2
  <2>6. 0 <= limit' /\ Len(<<>>) = 0
    BY <1>1 DEF ControlInv
  <2>7. listed \in Seq(Items) /\ InOrder(listed) /\ \A k \in 1 .. Len(listed) : listed[k] <= after
    BY DEF PageInv, Reading
  <2>8. CASE more /\ p # <<>> /\ after' = last /\ start' = last /\ pc' = "reading" /\ answer' = answer
    <3>1. ControlInv' /\ KnownInv'
      BY <1>1, <1>2, <1>8, <2>1, <2>8 DEF ControlInv, KnownInv
    <3>2. \A k \in 1 .. Len(listed) : listed[k] <= last
      <4>1. \A k \in 1 .. Len(listed) : listed[k] \in Nat
        BY <2>7, ItemsAreNumbers
      <4>2. after \in Nat /\ last \in Nat /\ after < last
        BY <1>5, <1>6, <2>8
      <4>3. \A k \in 1 .. Len(listed) : listed[k] <= after
        BY <2>7
      <4>4. \A x \in Nat : x <= after => x <= last
        BY <4>2, SMT
      <4> QED BY <4>1, <4>3, <4>4
    <3>3. PageInv'
      <4>1. last \in 0 .. N /\ last <= last
        BY <1>5, <2>8
      <4> QED BY <1>1, <1>9, <2>1, <2>6, <2>7, <2>8, <3>2, <4>1 DEF PageInv, Reading, ItemsInOrder
    <3>4. CoverInv'
      <4>1. \A i \in Items : ~(last < i /\ i <= last)
        BY <1>5, <2>8 DEF Items
      <4> QED BY <1>2, <1>8, <2>5, <2>8, <4>1 DEF CoverInv, Reading
    <3> QED BY <1>3, <2>4, <3>1, <3>3, <3>4
  <2>9. CASE (~more \/ p = <<>>) /\ after' = after /\ start' = start
             /\ IF eligible' = {} THEN Over("202") ELSE pc' = "retrying" /\ UNCHANGED answer
    <3>1. ControlInv' /\ KnownInv'
      BY <1>1, <1>2, <1>8, <2>1, <2>9 DEF ControlInv, KnownInv, Over
    <3>2. PageInv'
      BY <1>1, <1>6, <1>9, <2>1, <2>6, <2>7, <2>9 DEF PageInv, Reading, Over
    <3>3. CoverInv'
      <4>1. \A i \in Items : Must(i)' => Taken(i)'
        BY <1>2, <2>5, <2>9
      <4>2. CASE eligible' = {}
        <5>1. \A i \in Items : Must(i)' => Row(i)'.attempts = MaxAttempts
          BY <1>1, <1>8, <2>1, <4>1, <4>2 DEF Taken
        <5> QED BY <2>9, <4>2, <5>1 DEF CoverInv, Reading, Over
      <4>3. CASE eligible' # {}
        BY <1>8, <2>9, <4>1, <4>3 DEF CoverInv, Reading
      <4> QED BY <4>2, <4>3
    <3> QED BY <1>3, <2>4, <3>1, <3>2, <3>3
  <2> QED BY <1>12, <2>8, <2>9 DEF Collects, last
<1> QED BY <1>1, <1>11, <1>12
-----------------------------------------------------------------------------
(* A Query.                                                                *)

\* Whatever view a Query has, it sees an item that did not change as it is.
LEMMA ViewIsTrue ==
  ASSUME TableInv, NEW v \in Views
  PROVE  \A i \in Stored : v[i] \in Image /\ (i \in steady => v[i] = Row(i))
<1> SUFFICES ASSUME NEW i \in Stored PROVE v[i] \in Image /\ (i \in steady => v[i] = Row(i))
  OBVIOUS
<1> DEFINE s == images[i]
<1>1. s \in Seq(Image) /\ s # <<>> /\ (i \in steady => Len(s) = 1)
  BY DEF TableInv
<1>2. v[i] \in Seen(i)
  BY DEF Views
<1>3. v[i] = s[Len(s)] \/ \E k \in 1 .. Len(s) : v[i] = s[k]
  BY <1>2 DEF Seen, Row, Final
<1>4. Row(i) = s[Len(s)]
  BY DEF Row, Final
<1> HIDE DEF s
<1>5. Len(s) \in 1 .. Len(s)
  BY <1>1, FinalIsElement
<1>6. PICK k \in 1 .. Len(s) : v[i] = s[k]
  BY <1>3, <1>5
<1>7. v[i] \in Image
  BY <1>1, <1>6, ElementOfSeq
<1>8. Len(s) = 1 => k = Len(s)
  BY <1>6
<1> QED BY <1>1, <1>4, <1>6, <1>7, <1>8

\* What a Query returns.
LEMMA RowsOfQuery ==
  ASSUME IInv, NEW v \in Views, NEW r \in Returned(Selected(v), Want)
  PROVE  /\ Rows(r, v) \in Seq(Read) /\ Len(Rows(r, v)) = Len(r)
         /\ Len(r) \in Nat /\ Len(r) <= Want
         /\ \A k \in 1 .. Len(r) : /\ r[k] \in Items /\ r[k] \in Stored /\ start < r[k]
                                   /\ Rows(r, v)[k].item = r[k]
                                   /\ r[k] \in steady =>
                                        Rows(r, v)[k].attempts = Row(r[k]).attempts
         /\ \A j, k \in 1 .. Len(r) : j < k => r[j] < r[k]
         /\ \A i \in Selected(v), k \in 1 .. Len(r) : i < r[k] => \E j \in 1 .. k : r[j] = i
<1> DEFINE S == Selected(v)
<1>1. TableInv /\ limit \in Nat /\ Len(page) \in Nat /\ Len(page) <= limit /\ page \in Seq(Read)
  BY DEF IInv, ControlInv, PageInv
<1>2. Want \in Nat
  BY <1>1 DEF Want
<1>3. \A i \in S : i \in Stored /\ i \in Items /\ start < i
  <2>1. Stored \subseteq Items
    BY <1>1 DEF TableInv
  <2>2. start \in Nat
    BY PagingAssumption DEF IInv, PageInv
  <2>3. \A i \in S : i \in Stored /\ i > start
    BY DEF Selected
  <2> QED BY <2>1, <2>2, <2>3, ItemsAreNumbers
<1>4. \A i \in Stored : v[i] \in Image /\ (i \in steady => v[i] = Row(i))
  BY <1>1, ViewIsTrue
<1> HIDE DEF S
<1>5. PICK n \in 0 .. Want : r \in [1 .. n -> S]
  BY DEF Returned, S
<1>6. r \in Seq(S) /\ Len(r) = n /\ n \in Nat /\ n <= Want
  BY <1>2, <1>5
<1>7. \A k \in 1 .. n : r[k] \in S
  BY <1>5
<1>8. \A k \in 1 .. n : v[r[k]].attempts \in 1 .. MaxAttempts
  BY <1>3, <1>4, <1>7 DEF Image
<1>9. \A k \in 1 .. n : [item |-> r[k], attempts |-> v[r[k]].attempts] \in Read
  BY <1>3, <1>7, <1>8 DEF Read
<1>10. Rows(r, v) \in Seq(Read) /\ Len(Rows(r, v)) = n
  BY <1>6, <1>9 DEF Rows
<1>11. \A k \in 1 .. n : Rows(r, v)[k] = [item |-> r[k], attempts |-> v[r[k]].attempts]
  BY <1>6 DEF Rows
<1>12. /\ \A j, k \in 1 .. Len(r) : j < k => r[j] < r[k]
       /\ \A i \in S, k \in 1 .. Len(r) : i < r[k] => \E j \in 1 .. k : r[j] = i
  BY DEF Returned, S
<1> QED BY <1>3, <1>4, <1>6, <1>7, <1>10, <1>11, <1>12 DEF S

\* Every item that has to be on the pages and lies ahead is selected.
LEMMA MustIsSelected ==
  ASSUME IInv, NEW v \in Views, NEW i \in Items, Must(i), start < i
  PROVE  i \in Selected(v)
<1>1. i \in Stored /\ i > start
  BY ItemsAreNumbers, PagingAssumption DEF Must, IInv, PageInv
<1>2. Matches(v[i])
  <2>1. CASE filter = AnyStatus
    BY <2>1 DEF Matches
  <2>2. CASE i \in steady /\ Matches(Row(i))
    <3>1. v[i] = Row(i)
      BY <1>1, <2>2, ViewIsTrue DEF IInv
    <3> QED BY <2>2, <3>1
  <2> QED BY <2>1, <2>2 DEF Must
<1> QED BY <1>1, <1>2 DEF Selected

\* The page with what a Query returned behind it.
LEMMA PageOfQuery ==
  ASSUME IInv, pc = "reading", NEW v \in Views, NEW r \in Returned(Selected(v), Want),
         NEW p, p = page \o Rows(r, v)
  PROVE  /\ p \in Seq(Read) /\ Len(p) <= limit /\ Len(p) \in Nat
         /\ ItemsInOrder(p)
         /\ \A k \in 1 .. Len(p) : after < p[k].item
         /\ \A k \in 1 .. Len(p) :
              p[k].item \in steady => p[k].attempts = Row(p[k].item).attempts
         /\ \A k \in 1 .. Len(p) : p[k].item <= start \/ \E j \in 1 .. Len(r) : p[k].item = r[j]
         /\ \A i \in Items : OnPage(i, page) => OnPage(i, p)
         /\ \A j \in 1 .. Len(r) : OnPage(r[j], p)
<1> DEFINE w == Rows(r, v)
           a == Len(page)
           b == Len(r)
<1>1. /\ w \in Seq(Read) /\ Len(w) = b /\ b \in Nat /\ b <= Want
      /\ \A k \in 1 .. b : /\ r[k] \in Items /\ start < r[k] /\ w[k].item = r[k]
                           /\ r[k] \in steady => w[k].attempts = Row(r[k]).attempts
      /\ \A j, k \in 1 .. b : j < k => r[j] < r[k]
  BY RowsOfQuery
<1>2. /\ page \in Seq(Read) /\ a \in Nat /\ a <= limit /\ limit \in Nat
      /\ ItemsInOrder(page) /\ after <= start /\ after \in Nat /\ start \in Nat
      /\ \A k \in 1 .. a : after < page[k].item /\ page[k].item <= start
  BY PagingAssumption DEF IInv, ControlInv, PageInv, Reading
<1>3. \A k \in 1 .. a : page[k].item \in steady => page[k].attempts = Row(page[k].item).attempts
  BY DEF IInv, RetryInv
<1>4. Want = limit - a
  BY DEF Want
<1> HIDE DEF w
<1>5. /\ p \in Seq(Read) /\ Len(p) = a + b
      /\ \A k \in 1 .. a : p[k] = page[k]
      /\ \A k \in 1 .. b : p[a + k] = w[k]
      /\ \A k \in 1 .. a + b : k \in 1 .. a \/ (k - a \in 1 .. b /\ k = a + (k - a))
  <2>1. p = page \o w
    BY DEF w
  <2> DEFINE g == page
  <2>2. g \in Seq(Read) /\ w \in Seq(Read) /\ p = g \o w
    BY <1>1, <1>2, <2>1
  <2> HIDE DEF g
  <2>3. /\ p \in Seq(Read) /\ Len(p) = Len(g) + Len(w)
        /\ \A k \in 1 .. Len(g) : p[k] = g[k]
    BY <2>2, Joined
  <2>4. \A k \in 1 .. Len(w) : p[Len(g) + k] = w[k]
    BY <2>2, Joined
  <2>5. \A k \in 1 .. Len(p) :
          k \in 1 .. Len(g) \/ (k - Len(g) \in 1 .. Len(w) /\ k = Len(g) + (k - Len(g)))
    BY <2>2, Joined
  <2> QED BY <1>1, <2>3, <2>4, <2>5 DEF g
<1>6. \A k \in 1 .. a : page[k].item \in Nat
  <2> SUFFICES ASSUME NEW k \in 1 .. a PROVE page[k].item \in Nat
    OBVIOUS
  <2>1. page[k] \in Read
    <3> HIDE DEF Read
    <3> QED BY <1>2, ElementOfSeq
  <2> QED BY <2>1, ItemsAreNumbers DEF Read
<1>7. \A k \in 1 .. b : r[k] \in Nat
  BY <1>1, ItemsAreNumbers
<1> HIDE DEF a, b
<1>8. Len(p) <= limit /\ Len(p) \in Nat
  BY <1>1, <1>2, <1>4, <1>5, SMT
<1>9. ASSUME NEW k \in 1 .. a + b
      PROVE  \/ k \in 1 .. a /\ p[k] = page[k]
             \/ k - a \in 1 .. b /\ p[k] = w[k - a] /\ p[k].item = r[k - a]
  <2>1. CASE k \in 1 .. a
    BY <1>5, <2>1
  <2>2. CASE k - a \in 1 .. b /\ k = a + (k - a)
    <3>1. p[a + (k - a)] = w[k - a]
      BY <1>5, <2>2
    <3>2. w[k - a].item = r[k - a]
      BY <1>1, <2>2
    <3> QED BY <2>2, <3>1, <3>2
  <2> QED BY <1>5, <2>1, <2>2
<1>10. ASSUME NEW k \in 1 .. a + b PROVE after < p[k].item
  <2>1. \A x \in Nat : start < x => after < x
    BY <1>2, SMT
  <2>2. CASE k \in 1 .. a /\ p[k] = page[k]
    BY <1>2, <2>2
  <2>3. CASE k - a \in 1 .. b /\ p[k].item = r[k - a]
    BY <1>1, <1>7, <2>1, <2>3
  <2> QED BY <1>9, <2>2, <2>3
<1>11. ASSUME NEW k \in 1 .. a + b, p[k].item \in steady
       PROVE  p[k].attempts = Row(p[k].item).attempts
  <2>1. CASE k \in 1 .. a /\ p[k] = page[k]
    BY <1>3, <1>11, <2>1 DEF a
  <2>2. CASE k - a \in 1 .. b /\ p[k] = w[k - a] /\ p[k].item = r[k - a]
    BY <1>1, <1>11, <2>2
  <2> QED BY <1>9, <2>1, <2>2
<1>12. ASSUME NEW k \in 1 .. a + b
       PROVE  p[k].item <= start \/ \E j \in 1 .. b : p[k].item = r[j]
  BY <1>2, <1>9
<1>13. ASSUME NEW j \in 1 .. a + b, NEW k \in 1 .. a + b, j < k PROVE p[j].item < p[k].item
  <2>1. CASE k \in 1 .. a
    <3>1. j \in 1 .. a
      BY <1>2, <1>13, <2>1, SMT
    <3>2. p[j] = page[j] /\ p[k] = page[k]
      BY <1>5, <2>1, <3>1
    <3>3. page[j].item < page[k].item
      BY <1>2, <1>13, <2>1, <3>1 DEF ItemsInOrder, a
    <3> QED BY <3>2, <3>3
  <2>2. CASE k - a \in 1 .. b /\ p[k].item = r[k - a] /\ j \in 1 .. a
    <3>1. p[j].item \in Nat /\ p[j].item <= start /\ p[k].item \in Nat /\ start < p[k].item
      BY <1>1, <1>2, <1>5, <1>6, <1>7, <2>2
    <3>2. \A x, y \in Nat : x <= start /\ start < y => x < y
      BY <1>2, SMT
    <3> QED BY <3>1, <3>2
  <2>3. CASE k - a \in 1 .. b /\ p[k].item = r[k - a] /\ ~(j \in 1 .. a)
    <3>1. j - a \in 1 .. b /\ p[j].item = r[j - a]
      BY <1>9, <2>3
    <3>2. j - a < k - a
      BY <1>2, <1>13, SMT
    <3>3. r[j - a] < r[k - a]
      BY <1>1, <2>3, <3>1, <3>2
    <3> QED BY <2>3, <3>1, <3>3
  <2> QED BY <1>9, <2>1, <2>2, <2>3
<1>14. ASSUME NEW i \in Items, OnPage(i, page) PROVE OnPage(i, p)
  <2>1. PICK k \in 1 .. a : page[k].item = i
    BY <1>14 DEF OnPage, a
  <2>2. k \in 1 .. a + b
    BY <1>1, <1>2, SMT
  <2> QED BY <1>5, <2>1, <2>2 DEF OnPage
<1>15. ASSUME NEW j \in 1 .. b PROVE OnPage(r[j], p)
  <2>1. a + j \in 1 .. a + b
    BY <1>1, <1>2, SMT
  <2>2. p[a + j].item = r[j]
    BY <1>1, <1>5
  <2> QED BY <1>5, <2>1, <2>2 DEF OnPage
<1>16. ItemsInOrder(p)
  BY <1>5, <1>13 DEF ItemsInOrder
<1> QED BY <1>5, <1>8, <1>10, <1>11, <1>12, <1>14, <1>15, <1>16 DEF b

LEMMA QueryStep ==
  ASSUME IInv, Query
  PROVE  IInv'
<1>1. pc = "reading" /\ Reading
  BY DEF Query, Reading
<1>2. PICK v \in Views : \E r \in Returned(Selected(v), Want), last \in BOOLEAN :
        /\ last => MayEnd(Selected(v), r, Want)
        /\ Selected(v) = {} => last
        /\ LET p == page \o Rows(r, v) IN
           \/ last /\ (after # 0 \/ p # <<>>) /\ Deliver(p, FALSE)
           \/ /\ last /\ after = 0 /\ p = <<>> /\ pc' = "checking"
              /\ UNCHANGED <<tableVars, queryVars, pageVars, retryVars, answer>>
           \/ /\ ~last /\ page' = p /\ start' = Final(r)
              /\ pc' = IF Len(p) = limit THEN "probing" ELSE "reading"
              /\ UNCHANGED <<tableVars, queryVars, after, listed, retryVars, answer>>
  BY DEF Query, IsLast
<1> DEFINE S == Selected(v)
<1>3. PICK r \in Returned(S, Want), last \in BOOLEAN :
        /\ last => MayEnd(S, r, Want)
        /\ S = {} => last
        /\ LET p == page \o Rows(r, v) IN
           \/ last /\ (after # 0 \/ p # <<>>) /\ Deliver(p, FALSE)
           \/ /\ last /\ after = 0 /\ p = <<>> /\ pc' = "checking"
              /\ UNCHANGED <<tableVars, queryVars, pageVars, retryVars, answer>>
           \/ /\ ~last /\ page' = p /\ start' = Final(r)
              /\ pc' = IF Len(p) = limit THEN "probing" ELSE "reading"
              /\ UNCHANGED <<tableVars, queryVars, after, listed, retryVars, answer>>
  BY <1>2
<1> DEFINE p == page \o Rows(r, v)
<1>4. /\ p \in Seq(Read) /\ Len(p) <= limit /\ Len(p) \in Nat
      /\ ItemsInOrder(p)
      /\ \A k \in 1 .. Len(p) : after < p[k].item
      /\ \A k \in 1 .. Len(p) :
           p[k].item \in steady => p[k].attempts = Row(p[k].item).attempts
      /\ \A k \in 1 .. Len(p) : p[k].item <= start \/ \E j \in 1 .. Len(r) : p[k].item = r[j]
      /\ \A i \in Items : OnPage(i, page) => OnPage(i, p)
      /\ \A j \in 1 .. Len(r) : OnPage(r[j], p)
  BY <1>1, PageOfQuery
<1>5. /\ Len(r) \in Nat
      /\ \A k \in 1 .. Len(r) : r[k] \in Items /\ r[k] \in Stored /\ start < r[k]
      /\ \A j, k \in 1 .. Len(r) : j < k => r[j] < r[k]
      /\ \A i \in S, k \in 1 .. Len(r) : i < r[k] => \E j \in 1 .. k : r[j] = i
  BY RowsOfQuery
<1>6. \A i \in Items : Must(i) /\ after < i /\ i <= start => OnPage(i, p)
  BY <1>1, <1>4 DEF IInv, CoverInv
<1>7. \A i \in Items : Must(i) /\ start < i => i \in S
  BY MustIsSelected
<1>8. start \in Nat /\ after \in Nat /\ after <= start /\ N \in Nat /\ \A i \in Items : i \in Nat
  BY <1>1, ItemsAreNumbers DEF IInv, PageInv
<1>9. p # <<>> \/ after # 0 => Stored # {}
  <2>1. CASE after # 0 \/ page # <<>>
    BY <2>1 DEF IInv, KnownInv
  <2>2. CASE p # <<>> /\ page = <<>>
    <3>1. Len(Rows(r, v)) = Len(r) /\ Rows(r, v) \in Seq(Read)
      BY RowsOfQuery
    <3>2. Rows(r, v) # <<>>
      BY <2>2, <3>1
    <3>3. Len(r) # 0
      BY <3>1, <3>2, EmptySeq
    <3>4. 1 \in 1 .. Len(r)
      BY <1>5, <3>3, SMT
    <3> QED BY <1>5, <3>4
  <2> QED BY <2>1, <2>2
<1>10. last => \A i \in Items : Must(i) /\ after < i => OnPage(i, p)
  <2> SUFFICES ASSUME last, NEW i \in Items, Must(i), after < i PROVE OnPage(i, p)
    OBVIOUS
  <2>1. CASE i <= start
    BY <1>6, <2>1
  <2>2. CASE start < i
    <3>1. i \in S
      BY <1>7, <2>2
    <3>2. PICK k \in 1 .. Len(r) : r[k] = i
      BY <1>3, <3>1 DEF MayEnd
    <3> QED BY <1>4, <3>2
  <2> QED BY <1>8, <2>1, <2>2
<1>11. r # <<>> => /\ Len(r) \in 1 .. Len(r) /\ Final(r) = r[Len(r)]
  <2>1. PICK n \in 0 .. Want : r \in [1 .. n -> S]
    BY DEF Returned
  <2>2. r \in Seq(S)
    BY <2>1
  <2> QED BY <2>2, FinalIsElement DEF Final
<1>12. S # {} => r # <<>>
  BY DEF Returned
<1> HIDE DEF p, S
<1>13. CASE last /\ (after # 0 \/ p # <<>>) /\ Deliver(p, FALSE)
  BY <1>1, <1>4, <1>9, <1>10, <1>13, DeliverStep
<1>14. CASE /\ last /\ after = 0 /\ p = <<>> /\ pc' = "checking"
            /\ UNCHANGED <<tableVars, queryVars, pageVars, retryVars, answer>>
  <2> USE DEF IInv, tableVars, queryVars, pageVars, retryVars
  <2>1. Stored' = Stored /\ \A i : Row(i)' = Row(i) /\ Must(i)' = Must(i) /\ Taken(i)' = Taken(i)
    BY <1>14 DEF Stored, Row, Final, Must, Matches, Taken, Listed
  <2>2. Len(p) = 0 /\ \A k \in 1 .. Len(p) : FALSE
    BY <1>14
  <2>3. \A i \in Items : ~Must(i)
    BY <1>8, <1>10, <1>14, <2>2, ItemsAreNumbers DEF OnPage
  <2>4. TableInv' /\ ControlInv'
    BY <1>1, <1>14, <2>1 DEF TableInv, ControlInv
  <2>5. page = <<>>
    BY <1>14, RowsOfQuery, EmptySeq DEF p, PageInv
  <2>6. PageInv'
    BY <1>1, <1>14, <2>5 DEF PageInv, Reading
  <2>7. RetryInv' /\ KnownInv'
    BY <1>1, <1>14, <2>1 DEF RetryInv, KnownInv
  <2>8. CoverInv'
    BY <1>1, <1>14, <2>1, <2>3 DEF CoverInv, Reading, ControlInv
  <2> QED BY <2>4, <2>6, <2>7, <2>8
<1>15. CASE /\ ~last /\ page' = p /\ start' = Final(r)
            /\ pc' = IF Len(p) = limit THEN "probing" ELSE "reading"
            /\ UNCHANGED <<tableVars, queryVars, after, listed, retryVars, answer>>
  <2> USE DEF IInv, tableVars, queryVars, retryVars
  <2> DEFINE f == Final(r)
  <2>1. Stored' = Stored /\ \A i : Row(i)' = Row(i) /\ Must(i)' = Must(i) /\ Taken(i)' = Taken(i)
    BY <1>15 DEF Stored, Row, Final, Must, Matches, Taken, Listed
  <2>2. Len(r) \in 1 .. Len(r) /\ f = r[Len(r)]
    BY <1>3, <1>11, <1>12, <1>15 DEF S
  <2>3. f \in Items /\ f \in Stored /\ start < f
    BY <1>5, <2>2
  <2> HIDE DEF f
  <2>4. f \in 0 .. N /\ f \in Nat /\ after <= f
    BY <1>8, <2>3, ItemsAreNumbers, SMT
  <2>5. \A k \in 1 .. Len(r) : r[k] <= f
    <3> SUFFICES ASSUME NEW k \in 1 .. Len(r) PROVE r[k] <= f
      OBVIOUS
    <3> DEFINE len == Len(r)
               x == r[k]
    <3>1. x \in Nat /\ len \in Nat /\ k \in 1 .. len
      BY <1>5, <1>8
    <3>2. k < len => x < f
      BY <1>5, <2>2
    <3>3. k = len => x = f
      BY <2>2
    <3> HIDE DEF len, x
    <3>4. k < len \/ k = len
      BY <3>1, SMT
    <3>5. x <= f
      BY <2>4, <3>1, <3>2, <3>3, <3>4, SMT
    <3> QED BY <3>5 DEF x
  <2>6. \A k \in 1 .. Len(p) : p[k].item <= f
    <3>1. \A x \in Nat : x <= start => x <= f
      BY <1>8, <2>3, <2>4, SMT
    <3>2. \A k \in 1 .. Len(p) : p[k].item \in Nat
      <4> SUFFICES ASSUME NEW k \in 1 .. Len(p) PROVE p[k].item \in Nat
        OBVIOUS
      <4>1. p[k] \in Read
        <5> HIDE DEF Read
        <5> QED BY <1>4, ElementOfSeq
      <4> QED BY <4>1, ItemsAreNumbers DEF Read
    <3> QED BY <1>4, <2>5, <3>1, <3>2
  <2>7. \A i \in Items : Must(i) /\ after < i /\ i <= f => OnPage(i, p)
    <3> SUFFICES ASSUME NEW i \in Items, Must(i), after < i, i <= f PROVE OnPage(i, p)
      OBVIOUS
    <3>1. CASE i <= start
      BY <1>6, <3>1
    <3>2. CASE start < i
      <4>1. i \in S
        BY <1>7, <3>2
      <4>2. CASE i = f
        BY <1>4, <2>2, <4>2
      <4>3. CASE i < f
        <5>1. PICK j \in 1 .. Len(r) : r[j] = i
          BY <1>5, <2>2, <4>1, <4>3
        <5> QED BY <1>4, <5>1
      <4> QED BY <1>8, <2>4, <4>2, <4>3
    <3> QED BY <1>8, <3>1, <3>2
  <2>8. TableInv' /\ ControlInv'
    BY <1>1, <1>15, <2>1 DEF TableInv, ControlInv
  <2>9. pc' \in {"reading", "probing"} /\ (pc' = "probing" => Len(p) = limit)
    BY <1>15
  <2>10. PageInv'
    BY <1>1, <1>4, <1>15, <2>4, <2>6, <2>9 DEF PageInv, Reading, f
  <2>11. RetryInv' /\ KnownInv'
    BY <1>1, <1>4, <1>15, <2>1, <2>3, <2>9 DEF RetryInv, KnownInv
  <2>12. CoverInv'
    BY <1>1, <1>15, <2>1, <2>7, <2>9 DEF CoverInv, Reading, ControlInv, f, OnPage
  <2> QED BY <2>8, <2>10, <2>11, <2>12
<1> QED BY <1>3, <1>13, <1>14, <1>15 DEF p

\* A full page is delivered once it is known whether an item follows.
LEMMA ProbeStep ==
  ASSUME IInv, Probe
  PROVE  IInv'
<1> USE DEF IInv
<1>1. PICK v \in Views : Deliver(page, Follows(v))
  BY DEF Probe
<1>2. pc = "probing" /\ Reading /\ Follows(v) \in BOOLEAN
  BY DEF Probe, Reading, Follows
<1>3. /\ page \in Seq(Read) /\ page # <<>> /\ ItemsInOrder(page)
      /\ \A k \in 1 .. Len(page) : after < page[k].item /\ page[k].item <= start
  BY <1>2 DEF PageInv, ControlInv
<1>4. \A k \in 1 .. Len(page) :
        page[k].item \in steady => page[k].attempts = Row(page[k].item).attempts
  BY DEF RetryInv
<1>5. start \in Nat /\ after \in Nat /\ \A i \in Items : i \in Nat
  BY ItemsAreNumbers DEF PageInv
<1>6. LastOf(page) \in Nat /\ LastOf(page) <= start
  <2>1. Len(page) \in 1 .. Len(page) /\ Final(page) = page[Len(page)] /\ Final(page) \in Read
    <3> HIDE DEF Read
    <3> QED BY <1>3, FinalIsElement
  <2>2. Final(page).item \in Nat
    BY <2>1, <1>5 DEF Read
  <2> QED BY <1>3, <2>1, <2>2 DEF LastOf
<1>7. ASSUME NEW i \in Items, Must(i), after < i,
             ~Follows(v) \/ page = <<>> \/ i <= LastOf(page)
      PROVE  OnPage(i, page)
  <2>1. i <= start
    <3>1. CASE ~Follows(v)
      BY <1>5, <1>7, <3>1, MustIsSelected DEF Follows
    <3>2. CASE i <= LastOf(page)
      BY <1>5, <1>6, <3>2
    <3> QED BY <1>3, <1>7, <3>1, <3>2
  <2> QED BY <1>2, <1>7, <2>1 DEF CoverInv
<1>8. Stored # {}
  BY <1>3 DEF KnownInv
<1> QED BY <1>1, <1>2, <1>3, <1>4, <1>7, <1>8, DeliverStep

LEMMA MustExistStep ==
  ASSUME IInv, MustExist
  PROVE  IInv'
<1>1. CASE Exists /\ Deliver(<<>>, FALSE)
  <2> DEFINE p == <<>>
  <2>1. p \in Seq(Read) /\ \A k \in 1 .. Len(p) : FALSE
    OBVIOUS
  <2>2. pc = "checking" /\ Reading /\ Stored # {} /\ Deliver(p, FALSE)
    BY <1>1 DEF MustExist, Reading, Exists
  <2>3. \A i \in Items : ~Must(i)
    BY <2>2 DEF IInv, CoverInv
  <2> HIDE DEF p
  <2> QED BY <2>1, <2>2, <2>3, DeliverStep DEF ItemsInOrder
<1>2. CASE /\ ~Exists /\ Over("404")
           /\ UNCHANGED <<tableVars, queryVars, pageVars, retryVars>>
  BY <1>2, OverStep DEF Exists
<1> QED BY <1>1, <1>2 DEF MustExist

-----------------------------------------------------------------------------
(* RetryMany.                                                              *)

LEMMA RetryEndsStep ==
  ASSUME IInv, RetryEnds
  PROVE  IInv'
<1> DEFINE code == IF errs THEN "503" ELSE "202"
<1>1. /\ pc = "retrying" /\ eligible = {} /\ calling = {} /\ Over(code)
      /\ UNCHANGED <<tableVars, queryVars, pageVars, retryVars>>
  BY DEF RetryEnds
<1>2. code \in {"503", "202"} /\ (code = "202" => ~errs)
  OBVIOUS
<1>3. op = "retry" /\ Stored # {}
  BY <1>1 DEF IInv, ControlInv, KnownInv
<1>4. ~errs => \A i \in Items : Must(i) => Row(i).attempts = MaxAttempts
  BY <1>1, <1>3 DEF IInv, CoverInv, Taken
<1> HIDE DEF code
<1> QED BY <1>1, <1>2, <1>3, <1>4, OverStep

LEMMA StartRetryStep ==
  ASSUME IInv, StartRetry
  PROVE  IInv'
<1> USE DEF IInv, tableVars, queryVars, pageVars
<1>1. /\ pc = "retrying" /\ Cardinality(calling) < RetryInFlight
      /\ UNCHANGED <<tableVars, queryVars, pageVars, pc, moved, errs, requeued, answer>>
  BY DEF StartRetry
<1>2. Stored' = Stored /\ \A i : Row(i)' = Row(i) /\ Must(i)' = Must(i)
  BY <1>1 DEF Stored, Row, Final, Must, Matches
<1>3. TableInv' /\ ControlInv' /\ PageInv'
  BY <1>1, <1>2 DEF TableInv, ControlInv, PageInv, Reading
<1>4. CASE errs /\ eligible' = {} /\ calling' = calling
  <2>1. RetryInv' /\ KnownInv'
    BY <1>1, <1>2, <1>4 DEF RetryInv, KnownInv
  <2>2. CoverInv'
    BY <1>1, <1>2, <1>4 DEF CoverInv, Reading, ControlInv
  <2> QED BY <1>3, <2>1, <2>2
<1>5. ASSUME NEW m \in eligible, eligible' = eligible \ {m}, calling' = calling \cup {m}
      PROVE  IInv'
  <2>1. eligible' \cup calling' = eligible \cup calling
    BY <1>5
  <2>2. IsFiniteSet(calling') /\ Cardinality(calling') <= RetryInFlight
    <3>1. IsFiniteSet(calling) /\ Cardinality(calling) \in Nat
      BY FS_CardinalityType DEF RetryInv
    <3>2. /\ IsFiniteSet(calling')
          /\ Cardinality(calling') = Cardinality(calling)
             \/ Cardinality(calling') = Cardinality(calling) + 1
      BY <1>5, <3>1, FS_AddElement
    <3> DEFINE c == Cardinality(calling)
               d == Cardinality(calling')
    <3>3. c \in Nat /\ c < RetryInFlight /\ (d = c \/ d = c + 1)
      BY <1>1, <3>1, <3>2
    <3> HIDE DEF c, d
    <3>4. d <= RetryInFlight
      BY <3>3, PagingAssumption, SMT
    <3> QED BY <3>2, <3>4 DEF d
  <2>3. RetryInv' /\ KnownInv'
    BY <1>1, <1>2, <1>5, <2>1, <2>2 DEF RetryInv, KnownInv
  <2>4. \A i \in Items : Taken(i)' = Taken(i)
    BY <1>1, <1>2, <2>1 DEF Taken, Listed
  <2>5. CoverInv'
    BY <1>1, <1>2, <2>4 DEF CoverInv, Reading, ControlInv
  <2> QED BY <1>3, <2>3, <2>5
<1> QED BY <1>4, <1>5 DEF StartRetry

LEMMA RetryReturnsStep ==
  ASSUME IInv, NEW m \in calling, NEW applied \in BOOLEAN,
         NEW told \in {"moved", "skipped", "error"}, RetryReturns(m, applied, told)
  PROVE  IInv'
<1> USE DEF IInv, queryVars, pageVars
<1>1. /\ applied => RetryCond(m)
      /\ told = "moved" => applied
      /\ told = "skipped" => applied \/ ~RetryCond(m)
      /\ calling' = calling \ {m}
      /\ moved' = IF told = "moved" THEN moved \cup {m.item} ELSE moved
      /\ errs' = (errs \/ told = "error")
      /\ UNCHANGED <<changes, queryVars, pageVars, pc, eligible, answer>>
  BY DEF RetryReturns, Counts
<1>2. m \in Read /\ m.item \in Items /\ m.attempts \in 1 .. MaxAttempts /\ m.attempts < MaxAttempts
  BY DEF RetryInv, Read
<1>3. m.item \in Stored
  BY <1>2 DEF KnownInv, TableInv
<1>4. /\ Frame /\ TableInv' /\ requeued' \subseteq Items
      /\ requeued \subseteq requeued' /\ (applied => m.item \in requeued' /\ m.item \notin steady')
  <2>1. CASE applied
    <3> DEFINE w == [status |-> "QUEUED", attempts |-> m.attempts + 1]
    <3>1. Write(m.item, w) /\ requeued' = requeued \cup {m.item}
      BY <2>1 DEF RetryReturns
    <3>2. w \in Image
      <4>1. m.attempts + 1 \in 1 .. MaxAttempts
        BY <1>2, PagingAssumption
      <4> QED BY <4>1 DEF Image, Status
    <3> HIDE DEF w
    <3>3. /\ Frame
          /\ \A j \in Stored' : images'[j] \in Seq(Image) /\ images'[j] # <<>>
          /\ \A j \in steady' : Len(images'[j]) = 1
      BY <1>3, <3>1, <3>2, WriteFrames
    <3>4. m.item \notin steady'
      BY <3>1 DEF Write
    <3>5. TableInv'
      BY <1>1, <3>3 DEF TableInv, Frame
    <3> QED BY <1>2, <3>1, <3>3, <3>4, <3>5 DEF RetryInv
  <2>2. CASE ~applied
    <3>1. UNCHANGED <<images, steady, requeued>>
      BY <2>2 DEF RetryReturns
    <3>2. Frame
      BY <3>1 DEF Frame, Stored
    <3>3. TableInv'
      BY <1>1, <3>1, <3>2 DEF TableInv, Frame
    <3> QED BY <2>2, <3>1, <3>2, <3>3 DEF RetryInv
  <2> QED BY <2>1, <2>2
<1>5. /\ \A i \in steady' : Row(i)' = Row(i) /\ i \in steady
      /\ \A i : Must(i)' => Must(i)
      /\ Stored' = Stored
  BY <1>1, <1>4, FrameKeepsRows DEF Frame
<1>6. ControlInv' /\ PageInv'
  BY <1>1 DEF ControlInv, PageInv, Reading
<1>7. RetryInv'
  <2>1. IsFiniteSet(calling') /\ Cardinality(calling') <= RetryInFlight
    <3> DEFINE c == Cardinality(calling)
               d == Cardinality(calling')
    <3>1. IsFiniteSet(calling) /\ c \in Nat /\ c <= RetryInFlight
      BY FS_CardinalityType DEF RetryInv
    <3>2. IsFiniteSet(calling') /\ d = c - 1
      BY <1>1, <3>1, FS_RemoveElement
    <3> HIDE DEF c, d
    <3>3. d <= RetryInFlight
      BY <3>1, <3>2, PagingAssumption, SMT
    <3> QED BY <3>2, <3>3 DEF d
  <2>2. moved' \subseteq requeued'
    BY <1>1, <1>4 DEF RetryInv
  <2>3. pc \in {"retrying", "over"}
    BY DEF RetryInv
  <2>4. errs' \in BOOLEAN
    BY <1>1 DEF RetryInv
  <2>5. \A l \in eligible' \cup calling' : l \in eligible \cup calling
    BY <1>1
  <2>6. \A l \in eligible' \cup calling' :
          l.attempts < MaxAttempts /\ (l.item \in steady' => l.attempts = Row(l.item)'.attempts)
    BY <1>5, <2>5 DEF RetryInv
  <2>7. \A k \in 1 .. Len(page') :
          (page[k].item \in steady => page[k].attempts = Row(page[k].item).attempts)'
    <3>1. page' = page
      BY <1>1
    <3>2. \A k \in 1 .. Len(page) :
            page[k].item \in steady => page[k].attempts = Row(page[k].item).attempts
      BY DEF RetryInv
    <3>3. ASSUME NEW k \in 1 .. Len(page), page[k].item \in steady'
          PROVE  page'[k].attempts = Final(images'[page'[k].item]).attempts
      BY <1>5, <3>1, <3>2, <3>3 DEF Row, Final
    <3> QED BY <3>1, <3>3 DEF Row, Final
  <2>8. eligible' \subseteq Read /\ calling' \subseteq Read
    BY <2>5 DEF RetryInv
  <2> QED BY <1>1, <1>4, <2>1, <2>2, <2>3, <2>4, <2>6, <2>7, <2>8 DEF RetryInv
<1>8. KnownInv'
  BY <1>1, <1>5 DEF KnownInv
<1>9. CoverInv'
  <2>1. pc \in {"retrying", "over"}
    BY DEF RetryInv
  <2>2. answer = "200" => \A i \in Items : Must(i)' => i \in Listed'
    BY <1>1, <1>5 DEF CoverInv, Listed
  <2>3. answer = "202" => \A i \in Items : Must(i)' => Row(i)'.attempts = MaxAttempts
    <3>1. answer = "202" => filter = "FAILED" /\ filter # AnyStatus
      BY PagingAssumption DEF ControlInv, Status
    <3>2. answer = "202" => \A i : Must(i)' => i \in steady'
      BY <1>1, <3>1 DEF Must
    <3> QED BY <1>5, <3>2 DEF CoverInv
  <2>4. ASSUME pc = "retrying", ~errs', NEW i \in Items, Must(i)' PROVE Taken(i)'
    <3>1. op = "retry" /\ filter = "FAILED" /\ filter # AnyStatus
      BY <2>4, PagingAssumption DEF ControlInv, Status
    <3>2. i \in steady' /\ i \in steady /\ Row(i)' = Row(i) /\ Must(i)
      BY <1>1, <1>5, <2>4, <3>1 DEF Must
    <3>3. Row(i).status = "FAILED"
      BY <3>1, <3>2 DEF Must, Matches
    <3>4. Taken(i)
      BY <1>1, <2>4, <3>2 DEF CoverInv
    <3>5. CASE Row(i).attempts = MaxAttempts
      BY <1>1, <3>1, <3>2, <3>5 DEF Taken
    <3>6. ASSUME NEW l \in eligible \cup calling, l.item = i, Row(i).attempts # MaxAttempts
          PROVE  Taken(i)'
      <4>1. CASE l = m
        <5>1. told # "error" /\ ~applied
          BY <1>1, <1>4, <2>4, <3>2, <3>6, <4>1
        <5>2. ~RetryCond(m)
          BY <1>1, <5>1
        <5>3. m.attempts = Row(i).attempts
          BY <3>2, <3>6, <4>1 DEF RetryInv
        <5> QED BY <1>2, <3>3, <3>6, <4>1, <5>2, <5>3 DEF RetryCond
      <4>2. CASE l # m
        <5>1. l \in eligible' \cup calling'
          BY <1>1, <3>6, <4>2
        <5> QED BY <1>1, <3>1, <3>6, <5>1 DEF Taken
      <4> QED BY <4>1, <4>2
    <3> QED BY <3>1, <3>4, <3>5, <3>6 DEF Taken
  <2> QED BY <1>1, <2>1, <2>2, <2>3, <2>4 DEF CoverInv, Reading
<1> QED BY <1>4, <1>6, <1>7, <1>8, <1>9

-----------------------------------------------------------------------------
(* The theorems.                                                           *)

LEMMA StepInv == IInv /\ [Next]_vars => IInv'
<1> SUFFICES ASSUME IInv, [Next]_vars PROVE IInv'
  OBVIOUS
<1>1. ASSUME NEW i \in Stored, (\E m \in Image : Change(i, m)) \/ IndexFollows(i) PROVE IInv'
  BY <1>1, OthersStep
<1>2. ASSUME NEW f \in Filters, NEW n \in Limits, List(f, n) PROVE IInv'
  <2>1. f \in Status \cup {AnyStatus} /\ n \in 1 .. MaxPageLimit
    BY PagingAssumption
  <2> QED BY <1>2, <2>1, BeginStep DEF List
<1>3. CASE RetryFailed
  <2>1. "FAILED" \in Status \cup {AnyStatus} /\ MaxPageLimit \in 1 .. MaxPageLimit
    BY PagingAssumption DEF Status
  <2> QED BY <1>3, <2>1, BeginStep DEF RetryFailed
<1>4. CASE NextPage
  BY <1>4, NextPageStep
<1>5. CASE Runs
  BY <1>5, QueryStep, ProbeStep, MustExistStep, StartRetryStep, RetryEndsStep DEF Runs
<1>6. CASE ReadFails \/ Dies
  BY <1>6, OverStep DEF ReadFails, Dies
<1>7. CASE Returns
  BY <1>7, RetryReturnsStep DEF Returns
<1>8. CASE UNCHANGED vars
  <2>1. Frame /\ (TableInv => TableInv')
    BY <1>8 DEF Frame, TableInv, Stored, vars, tableVars
  <2> QED BY <1>8, <2>1, FrameKeeps DEF IInv, vars
<1> QED BY <1>1, <1>2, <1>3, <1>4, <1>5, <1>6, <1>7, <1>8 DEF Next

LEMMA Invariance == Spec => []IInv
  BY InitInv, StepInv, PTL DEF Spec

\* No page is longer than it may be, and no more retries are under way than RetryMany
\* allows (Items.Page, RetryMany).
THEOREM TypeCorrect == Spec => []TypeOK
<1>1. IInv => TypeOK
  BY DEF IInv, TableInv, ControlInv, PageInv, RetryInv, TypeOK
<1> QED BY <1>1, Invariance, PTL

\* A listing gives its items in order and none of them twice, whatever happens to the
\* batch between its pages (Page, read).
THEOREM ListingsAreInOrder == Spec => []ListedOnceInOrder
<1>1. IInv => ListedOnceInOrder
  BY DEF IInv, PageInv, InOrder, ListedOnceInOrder
<1> QED BY <1>1, Invariance, PTL

\* An ended listing, and a retry-failed that answers 202, left out nothing that was
\* there to be read from the first page to the last (Page, RetryFailed).
THEOREM NothingIsSkipped == Spec => []NothingSkipped
<1>1. ASSUME IInv PROVE NothingSkipped
  <2>1. Stored \subseteq Items /\ steady \subseteq Stored
    BY <1>1 DEF IInv, TableInv
  <2>2. answer = "202" => filter = "FAILED"
    BY <1>1 DEF IInv, ControlInv
  <2>3. answer = "200" => \A i \in Items : Must(i) => i \in Listed
    BY <1>1 DEF IInv, CoverInv
  <2>4. answer = "202" => \A i \in Items : Must(i) => Row(i).attempts = MaxAttempts
    BY <1>1 DEF IInv, CoverInv
  <2> QED BY <2>1, <2>2, <2>3, <2>4 DEF NothingSkipped, Must, Matches
<1> QED BY <1>1, Invariance, PTL

\* What RetryFailed reports as moved, a retry of its own did move (RetryMany, Retry).
THEOREM CountsAreTrue == Spec => []CountedWereRequeued
<1>1. IInv => CountedWereRequeued
  BY DEF IInv, RetryInv, CountedWereRequeued
<1> QED BY <1>1, Invariance, PTL

\* An unknown batch is told from one with nothing in the status (mustExist).
THEOREM UnknownIsToldApart == Spec => []UnknownIsEmpty
<1>1. IInv => UnknownIsEmpty
  BY DEF IInv, KnownInv, UnknownIsEmpty
<1> QED BY <1>1, Invariance, PTL

-----------------------------------------------------------------------------
(* Behind a cursor.                                                        *)

\* A page that has read nothing starts at its cursor, and behind a cursor the client
\* was given there is an item, which the next page shows unless something changes.
AheadInv ==
  /\ pc = "reading" /\ page = <<>> => start = after
  /\ pc = "holding" \/ (op = "list" /\ pc = "reading" /\ page = <<>> /\ after # 0) =>
       \E i \in Stored : i > after /\ (steady = Stored => Matches(Row(i)))

LEMMA LengthOfJoined ==
  ASSUME NEW T, NEW s \in Seq(T), NEW t \in Seq(T)
  PROVE  Len(s \o t) = Len(s) + Len(t) /\ Len(s) \in Nat /\ Len(t) \in Nat
<1>1. Len(s \o t) = Len(s) + Len(t)
  BY ConcatProperties
<1>2. Len(s) \in Nat /\ Len(t) \in Nat
  OBVIOUS
<1> QED BY <1>1, <1>2

\* Where the operation is not between two pages there is nothing to show.
LEMMA ElsewhereIsAhead == pc' \notin {"reading", "holding"} => AheadInv'
BY DEF AheadInv

LEMMA QueryAhead ==
  ASSUME IInv, Query
  PROVE  AheadInv'
<1>0. PICK v \in Views : \E r \in Returned(Selected(v), Want), last \in BOOLEAN :
        /\ last => MayEnd(Selected(v), r, Want)
        /\ Selected(v) = {} => last
        /\ LET p == page \o Rows(r, v) IN
           \/ last /\ (after # 0 \/ p # <<>>) /\ Deliver(p, FALSE)
           \/ last /\ after = 0 /\ p = <<>> /\ pc' = "checking"
           \/ /\ ~last /\ page' = p
              /\ pc' = IF Len(p) = limit THEN "probing" ELSE "reading"
  BY DEF Query, IsLast
<1>1. PICK r \in Returned(Selected(v), Want), last \in BOOLEAN :
        /\ Selected(v) = {} => last
        /\ \/ Deliver(page \o Rows(r, v), FALSE)
           \/ pc' = "checking"
           \/ ~last /\ page' = page \o Rows(r, v) /\ pc' # "holding"
  BY <1>0
<1> DEFINE p == page \o Rows(r, v)
<1>2. CASE Deliver(p, FALSE)
  <2>1. pc' \in {"over", "retrying"}
    BY <1>2 DEF Deliver, ListsPage, Collects, Over
  <2> QED BY <2>1, ElsewhereIsAhead
<1>3. CASE pc' = "checking"
  BY <1>3, ElsewhereIsAhead
<1>4. CASE ~last /\ page' = p /\ pc' # "holding"
  <2>1. Len(r) \in Nat /\ Len(r) # 0
    <3>1. Selected(v) # {} /\ r # <<>>
      BY <1>1, <1>4 DEF Returned
    <3>2. PICK m \in 0 .. Want : r \in [1 .. m -> Selected(v)]
      BY DEF Returned
    <3>3. Want \in Int
      BY DEF Want, IInv, PageInv, ControlInv
    <3>4. r \in Seq(Selected(v)) /\ Len(r) \in Nat
      BY <3>2, <3>3
    <3> QED BY <3>1, <3>4, EmptySeq
  <2>2. Rows(r, v) \in Seq(Read) /\ Len(Rows(r, v)) = Len(r) /\ page \in Seq(Read)
    BY RowsOfQuery DEF IInv, PageInv
  <2>3. p # <<>>
    <3> DEFINE w == Rows(r, v)
    <3>1. w \in Seq(Read) /\ Len(w) # 0 /\ page \in Seq(Read) /\ Len(w) \in Nat
      BY <2>1, <2>2
    <3> HIDE DEF w, Read
    <3>2. Len(page \o w) = Len(page) + Len(w) /\ Len(page) \in Nat
      BY <3>1, LengthOfJoined
    <3>3. Len(page \o w) # 0
      BY <3>1, <3>2
    <3> QED BY <3>3 DEF w
  <2> QED BY <1>4, <2>3 DEF AheadInv
<1>5. Deliver(p, FALSE) \/ pc' = "checking" \/ (~last /\ page' = p /\ pc' # "holding")
  BY <1>1
<1> HIDE DEF p
<1> QED BY <1>2, <1>3, <1>4, <1>5

LEMMA ProbeAhead ==
  ASSUME IInv, Probe
  PROVE  AheadInv'
<1>1. PICK v \in Views : Deliver(page, Follows(v))
  BY DEF Probe
<1>2. /\ pc = "probing" /\ page' = <<>> /\ UNCHANGED <<tableVars, queryVars>>
      /\ page \in Seq(Read) /\ page # <<>> /\ start \in Nat
      /\ \A k \in 1 .. Len(page) : page[k].item <= start
  BY <1>1 DEF Probe, Deliver, IInv, PageInv, ControlInv
<1>3. CASE op = "retry"
  <2>1. pc' \in {"over", "retrying"} \/ (pc' = "reading" /\ start' = after')
    BY <1>1, <1>3 DEF Deliver, ListsPage, Collects, Over
  <2> QED BY <1>2, <1>3, <2>1 DEF AheadInv, queryVars
<1>4. CASE pc' = "over"
  BY <1>4, ElsewhereIsAhead
<1>5. CASE op = "list" /\ Follows(v) /\ after' = LastOf(page) /\ pc' = "holding"
  <2>1. PICK i \in Selected(v) : TRUE
    BY <1>5 DEF Follows
  <2>2. i \in Stored /\ i > start /\ Matches(v[i])
    BY <2>1 DEF Selected
  <2>3. LastOf(page) \in Nat /\ LastOf(page) <= start
    <3>1. Len(page) \in 1 .. Len(page) /\ Final(page) = page[Len(page)] /\ Final(page) \in Read
      <4> HIDE DEF Read
      <4> QED BY <1>2, FinalIsElement
    <3>2. Final(page).item \in Nat
      BY <3>1, ItemsAreNumbers DEF Read
    <3> QED BY <1>2, <3>1, <3>2 DEF LastOf
  <2>4. i \in Nat
    BY <2>2, ItemsAreNumbers DEF IInv, TableInv
  <2>5. i > LastOf(page)
    BY <1>2, <2>2, <2>3, <2>4
  <2>6. steady = Stored => Matches(Row(i))
    BY <2>2, ViewIsTrue DEF IInv
  <2>7. i \in Stored' /\ (steady' = Stored' => Matches(Row(i))')
    BY <1>2, <2>2, <2>6 DEF Stored, Matches, Row, Final, tableVars, queryVars
  <2> QED BY <1>5, <2>5, <2>7 DEF AheadInv
<1> QED BY <1>1, <1>3, <1>4, <1>5 DEF Deliver, ListsPage, Collects, Over

LEMMA StepAhead == IInv /\ AheadInv /\ [Next]_vars => AheadInv'
<1> SUFFICES ASSUME IInv, AheadInv, [Next]_vars PROVE AheadInv'
  OBVIOUS
<1> USE DEF tableVars, queryVars, pageVars, retryVars
<1>1. ASSUME NEW i \in Stored, (\E m \in Image : Change(i, m)) \/ IndexFollows(i)
      PROVE  AheadInv'
  <2>1. i \in Stored' /\ Stored' = Stored
    BY <1>1 DEF Change, Write, IndexFollows, Stored
  <2>2. i \notin steady'
    <3>1. CASE \E m \in Image : Change(i, m)
      BY <3>1 DEF Change, Write
    <3>2. CASE IndexFollows(i)
      <4>1. Len(images[i]) > 1 /\ steady' = steady
        BY <3>2 DEF IndexFollows
      <4>2. ~(1 > 1)
        OBVIOUS
      <4> QED BY <4>1, <4>2 DEF IInv, TableInv
    <3> QED BY <1>1, <3>1, <3>2
  <2>3. UNCHANGED <<queryVars, pageVars, pc>>
    BY <1>1 DEF Change, IndexFollows
  <2>4. steady' # Stored'
    BY <2>1, <2>2
  <2> QED BY <2>1, <2>3, <2>4 DEF AheadInv
<1>2. ASSUME NEW o, NEW f, NEW k, Begin(o, f, k) PROVE AheadInv'
  BY <1>2 DEF Begin, AheadInv, IInv, PageInv
<1>3. CASE NextPage
  BY <1>3 DEF NextPage, AheadInv, Stored, Matches, Row, Final
<1>4. CASE Query
  BY <1>4, QueryAhead
<1>5. CASE Probe
  BY <1>5, ProbeAhead
<1>6. CASE MustExist
  <2>1. pc' \in {"over", "retrying"}
    BY <1>6 DEF MustExist, Deliver, ListsPage, Collects, Over
  <2> QED BY <2>1, ElsewhereIsAhead
<1>7. CASE RetryEnds \/ ReadFails \/ Dies
  BY <1>7, ElsewhereIsAhead DEF RetryEnds, ReadFails, Dies, Over
<1>8. CASE StartRetry \/ Returns
  <2>1. pc' = pc /\ pc \in {"retrying", "over"}
    BY <1>8 DEF StartRetry, Returns, RetryReturns, IInv, RetryInv
  <2> QED BY <2>1, ElsewhereIsAhead
<1>9. CASE UNCHANGED vars
  BY <1>9 DEF vars, AheadInv, Stored, Matches, Row, Final
<1> QED BY <1>1, <1>2, <1>3, <1>4, <1>5, <1>6, <1>7, <1>8, <1>9 DEF Next, Runs, List, RetryFailed

LEMMA StepLeadsOn ==
  ASSUME IInv, AheadInv, Next, pc # "over", answer' = "200", after # 0, listed' = listed
  PROVE  filter # AnyStatus /\ steady # Stored
<1>1. answer = "none" /\ pc # "checking"
  BY DEF IInv, ControlInv, PageInv
<1>2. Query \/ Probe
  BY <1>1 DEF Next, Runs, Change, IndexFollows, List, RetryFailed, Begin, NextPage, MustExist,
       StartRetry, RetryEnds, ReadFails, Returns, RetryReturns, Dies, Over
<1>3. \A q \in Seq(Read) : ListsPage(q, FALSE) \/ ListsPage(q, TRUE) => q = <<>>
  <2> SUFFICES ASSUME NEW q \in Seq(Read), ListsPage(q, FALSE) \/ ListsPage(q, TRUE)
               PROVE  q = <<>>
    OBVIOUS
  <2> DEFINE w == [k \in 1 .. Len(q) |-> q[k].item]
  <2>1. listed \o w = listed
    BY DEF ListsPage
  <2>2. w \in Seq(Items) /\ Len(w) = Len(q) /\ listed \in Seq(Items)
    <3>1. \A k \in 1 .. Len(q) : q[k].item \in Items
      <4>1. \A k \in 1 .. Len(q) : q[k] \in Read
        <5> HIDE DEF Read
        <5> QED BY ElementOfSeq
      <4> QED BY <4>1 DEF Read
    <3>2. Len(q) \in Nat
      OBVIOUS
    <3> HIDE DEF Items, Read
    <3> QED BY <3>1, <3>2 DEF IInv, PageInv
  <2> HIDE DEF w, Items, Read
  <2>3. Len(listed \o w) = Len(listed) + Len(w) /\ Len(listed) \in Nat /\ Len(w) \in Nat
    BY <2>2, LengthOfJoined
  <2>4. Len(w) = 0
    BY <2>1, <2>3
  <2> QED BY <2>2, <2>4, EmptySeq
<1>4. page \in Seq(Read) /\ op # "none"
  BY <1>2 DEF Query, Probe, IInv, PageInv, ControlInv
<1>5. ~Probe
  <2> SUFFICES ASSUME Probe PROVE FALSE
    OBVIOUS
  <2>1. page # <<>>
    BY DEF Probe, IInv, PageInv, ControlInv
  <2>2. PICK v \in Views : ListsPage(page, Follows(v)) \/ Collects(page, Follows(v))
    BY DEF Probe, Deliver
  <2>3. ListsPage(page, Follows(v)) /\ Follows(v) \in BOOLEAN
    BY <1>1, <2>2 DEF Collects, Over, Follows
  <2> QED BY <1>3, <1>4, <2>1, <2>3
<1>6. Query /\ pc = "reading"
  BY <1>2, <1>5 DEF Query
<1>7a. PICK v \in Views : \E r \in Returned(Selected(v), Want), last \in BOOLEAN :
          /\ last => MayEnd(Selected(v), r, Want)
          /\ last /\ Deliver(page \o Rows(r, v), FALSE)
  BY <1>1, <1>6 DEF Query, IsLast
<1>7. PICK r \in Returned(Selected(v), Want) :
        /\ MayEnd(Selected(v), r, Want)
        /\ Deliver(page \o Rows(r, v), FALSE)
  BY <1>7a
<1> DEFINE w == Rows(r, v)
<1>8. w \in Seq(Read) /\ Len(w) = Len(r)
  BY RowsOfQuery
<1>9. page \o w \in Seq(Read)
  <2> HIDE DEF w, Read
  <2> QED BY <1>4, <1>8, ConcatProperties
<1>10. ListsPage(page \o w, FALSE)
  BY <1>1, <1>7 DEF Deliver, Collects, Over
<1>11. page \o w = <<>>
  BY <1>3, <1>9, <1>10
<1>12. page = <<>> /\ Len(r) = 0
  <2> HIDE DEF w, Read
  <2>1. Len(page \o w) = Len(page) + Len(w) /\ Len(page) \in Nat /\ Len(w) \in Nat
    BY <1>4, <1>8, LengthOfJoined
  <2>2. Len(page) = 0 /\ Len(w) = 0
    BY <1>11, <2>1
  <2> QED BY <1>4, <1>8, <2>2, EmptySeq
<1>13. Selected(v) = {}
  BY <1>7, <1>12 DEF MayEnd
<1>14. op = "list" /\ start = after
  BY <1>6, <1>10, <1>12 DEF ListsPage, AheadInv
<1>15. PICK i \in Stored : i > after /\ (steady = Stored => Matches(Row(i)))
  BY <1>6, <1>12, <1>14 DEF AheadInv
<1>16. ~Matches(v[i])
  BY <1>13, <1>14, <1>15 DEF Selected
<1>17. steady = Stored => v[i] = Row(i)
  BY <1>15, ViewIsTrue DEF IInv
<1> QED BY <1>15, <1>16, <1>17 DEF Matches

\* A page behind a cursor is empty only if what it lists changed since the client's
\* first page (Page's probe for an item behind a full page).
THEOREM CursorsLeadOn == Spec => CursorLeadsOn
<1> DEFINE Leads == pc # "over" /\ answer' = "200" /\ after # 0 /\ listed' = listed =>
                      filter # AnyStatus /\ steady # Stored
<1>1. Init => AheadInv
  BY DEF Init, AheadInv
<1>2. IInv /\ AheadInv /\ [Next]_vars => [Leads]_vars
  BY StepLeadsOn
<1> QED BY <1>1, <1>2, Invariance, StepAhead, PTL DEF Spec, CursorLeadsOn

-----------------------------------------------------------------------------
(* Why a call ends: its own steps bring it nearer, and nobody takes it back. *)

\* What the call still has before it: stages, then items behind its cursor, then items
\* behind its Query, then updates to start or to wait for.
StagesLeft ==
  [idle |-> 0, holding |-> 0, over |-> 0, retrying |-> 1, checking |-> 2,
   probing |-> 3, reading |-> 3][pc]
RetriesLeft == 2 * Cardinality(eligible) + Cardinality(calling)

\* The cursor and the key of the Query only go forward, within 0 .. N.
Nearer ==
  \/ StagesLeft' < StagesLeft
  \/ /\ StagesLeft' = StagesLeft
     /\ \/ after' > after
        \/ after' = after /\ start' > start
        \/ after' = after /\ start' = start /\ RetriesLeft' < RetriesLeft

\* The call's own steps bring its end nearer; whatever others do meanwhile does not take
\* it further away.
Advances ==
  /\ Runs \/ Returns => Nearer
  /\ Working => Nearer \/ UNCHANGED <<pc, after, start, eligible, calling>>

LEMMA ReadsAreFinite == ASSUME NEW S \in SUBSET Read PROVE IsFiniteSet(S) /\ Cardinality(S) \in Nat
<1> DEFINE P == Items \X (1 .. MaxAttempts)
           f == [m \in Read |-> <<m.item, m.attempts>>]
<1>1. IsFiniteSet(Items) /\ IsFiniteSet(1 .. MaxAttempts)
  BY PagingAssumption, FS_Interval DEF Items
<1>2. IsFiniteSet(P)
  BY <1>1, FS_Product
<1>3. f \in Injection(Read, P)
  <2>1. f \in [Read -> P]
    BY DEF Read
  <2>2. \A a, b \in Read : f[a] = f[b] => a = b
    BY DEF Read
  <2>3. QED
    BY <2>1, <2>2 DEF Injection, IsInjective
<1>4. IsFiniteSet(Read)
  BY <1>2, <1>3, FS_Injection
<1>5. QED
  BY <1>4, FS_Subset, FS_CardinalityType

\* A page handed over: the call goes on to a later stage or with a later cursor.
LEMMA DeliverIsNearer ==
  ASSUME IInv, NEW p, NEW more \in BOOLEAN, Deliver(p, more),
         \/ ~more /\ Reading
         \/ pc = "probing" /\ p = page
  PROVE  Nearer
<1>1. CASE pc' \in {"over", "retrying", "holding"}
  BY <1>1 DEF Nearer, StagesLeft, Reading, IInv, ControlInv
<1>2. CASE pc' = "reading"
  <2>1. more /\ p # <<>> /\ after' = LastOf(p)
    BY <1>2 DEF Deliver, ListsPage, Collects, Over
  <2>2. pc = "probing" /\ page # <<>> /\ page \in Seq(Read)
    BY <2>1 DEF IInv, PageInv
  <2>3. Len(page) \in 1 .. Len(page) /\ Final(page) = page[Len(page)]
    <3> HIDE DEF Read
    <3> QED BY <2>2, FinalIsElement
  <2>4. after < Final(page).item
    BY <2>2, <2>3 DEF IInv, PageInv
  <2>5. after' > after
    BY <2>1, <2>2, <2>4 DEF LastOf
  <2>6. QED
    BY <1>2, <2>2, <2>5 DEF Nearer, StagesLeft
<1>3. pc' \in {"over", "retrying", "holding", "reading"}
  BY DEF Deliver, ListsPage, Collects, Over
<1>4. QED
  BY <1>1, <1>2, <1>3

LEMMA QueryIsNearer ==
  ASSUME IInv, Query
  PROVE  Nearer
<1>1. PICK v \in Views : \E r \in Returned(Selected(v), Want), last \in BOOLEAN :
        /\ Selected(v) = {} => last
        /\ LET p == page \o Rows(r, v) IN
           \/ last /\ Deliver(p, FALSE)
           \/ last /\ pc' = "checking"
           \/ /\ ~last /\ start' = Final(r) /\ after' = after
              /\ pc' \in {"probing", "reading"}
  BY DEF Query, IsLast, pageVars
<1>2. PICK r \in Returned(Selected(v), Want), last \in BOOLEAN :
        /\ Selected(v) = {} => last
        /\ \/ Deliver(page \o Rows(r, v), FALSE)
           \/ pc' = "checking"
           \/ ~last /\ start' = Final(r) /\ after' = after /\ pc' \in {"probing", "reading"}
  BY <1>1
<1>3. pc = "reading"
  BY DEF Query
<1>4. CASE Deliver(page \o Rows(r, v), FALSE)
  BY <1>3, <1>4, DeliverIsNearer DEF Reading
<1>5. CASE pc' = "checking"
  BY <1>3, <1>5 DEF Nearer, StagesLeft
<1>6. CASE ~last /\ start' = Final(r) /\ after' = after /\ pc' \in {"probing", "reading"}
  <2>1. Selected(v) # {} /\ r # <<>>
    BY <1>2, <1>6 DEF Returned
  <2>2. PICK m \in 0 .. Want : r \in [1 .. m -> Selected(v)]
    BY DEF Returned
  <2>3. Want \in Int
    BY DEF Want, IInv, PageInv, ControlInv
  <2>4. r \in Seq(Selected(v))
    BY <2>2, <2>3
  <2>5. Len(r) \in 1 .. Len(r) /\ Final(r) = r[Len(r)]
    BY <2>1, <2>4, FinalIsElement
  <2>6. start < Final(r)
    BY <2>5, RowsOfQuery
  <2>7. start' > start
    BY <1>6, <2>6
  <2>8. QED
    BY <1>3, <1>6, <2>7 DEF Nearer, StagesLeft
<1>7. QED
  BY <1>2, <1>4, <1>5, <1>6

\* A retry that is started, or whose answer comes.
LEMMA RetryIsNearer ==
  ASSUME IInv, IInv', StartRetry \/ Returns
  PROVE  Nearer
<1> DEFINE e == Cardinality(eligible)
           c == Cardinality(calling)
           d == Cardinality(eligible')
           b == Cardinality(calling')
<1>1. e \in Nat /\ c \in Nat /\ d \in Nat /\ b \in Nat
  BY ReadsAreFinite DEF IInv, RetryInv
<1>2. IsFiniteSet(eligible) /\ IsFiniteSet(calling)
  BY ReadsAreFinite DEF IInv, RetryInv
<1>3. UNCHANGED <<pc, after, start>>
  BY DEF StartRetry, Returns, RetryReturns, pageVars
<1>4. RetriesLeft = 2 * e + c /\ RetriesLeft' = 2 * d + b
  BY DEF RetriesLeft
<1>5. CASE StartRetry /\ errs
  <2>1. eligible # {} /\ eligible' = {} /\ calling' = calling
    BY <1>5 DEF StartRetry
  <2>2. e # 0 /\ d = 0 /\ b = c
    BY <1>2, <2>1, FS_EmptySet
  <2> HIDE DEF e, c, d, b
  <2>3. QED
    BY <1>1, <1>3, <1>4, <2>2 DEF Nearer, StagesLeft
<1>6. CASE StartRetry /\ ~errs
  <2>1. PICK m \in eligible : eligible' = eligible \ {m} /\ calling' = calling \cup {m}
    BY <1>6 DEF StartRetry
  <2>2. d = e - 1
    BY <1>2, <2>1, FS_RemoveElement
  <2>3. b = c \/ b = c + 1
    BY <1>2, <2>1, FS_AddElement
  <2> HIDE DEF e, c, d, b
  <2>4. 2 * d + b < 2 * e + c
    BY <1>1, <2>2, <2>3
  <2>5. QED
    BY <1>3, <1>4, <2>4 DEF Nearer, StagesLeft
<1>7. CASE Returns
  <2>1. PICK m \in calling : calling' = calling \ {m} /\ eligible' = eligible
    BY <1>7 DEF Returns, RetryReturns
  <2>2. b = c - 1 /\ d = e
    BY <1>2, <2>1, FS_RemoveElement
  <2> HIDE DEF e, c, d, b
  <2>3. 2 * d + b < 2 * e + c
    BY <1>1, <2>2
  <2>4. QED
    BY <1>3, <1>4, <2>3 DEF Nearer, StagesLeft
<1>8. QED
  BY <1>5, <1>6, <1>7 DEF StartRetry

LEMMA StepAdvances == IInv /\ IInv' /\ Next => Advances
<1> SUFFICES ASSUME IInv, IInv', Next PROVE Advances
  OBVIOUS
<1>1. Query => Nearer
  BY QueryIsNearer
<1>2. Probe => Nearer
  <2> SUFFICES ASSUME Probe PROVE Nearer
    OBVIOUS
  <2>1. PICK v \in Views : Deliver(page, Follows(v))
    BY DEF Probe
  <2>2. Follows(v) \in BOOLEAN /\ pc = "probing"
    BY DEF Follows, Probe
  <2>3. QED
    BY <2>1, <2>2, DeliverIsNearer
<1>3. MustExist => Nearer
  <2>1. pc = "checking" /\ Deliver(<<>>, FALSE) => Nearer
    BY DeliverIsNearer DEF Reading
  <2>2. pc = "checking" /\ pc' = "over" => Nearer
    BY DEF Nearer, StagesLeft
  <2>3. QED
    BY <2>1, <2>2 DEF MustExist, Over
<1>4. RetryEnds \/ ReadFails \/ Dies => Nearer
  BY DEF RetryEnds, ReadFails, Dies, Over, Nearer, StagesLeft
<1>5. StartRetry \/ Returns => Nearer
  BY RetryIsNearer
<1>6. ASSUME NEW i \in Stored, (\E m \in Image : Change(i, m)) \/ IndexFollows(i)
      PROVE  UNCHANGED <<pc, after, start, eligible, calling>>
  BY <1>6 DEF Change, IndexFollows, pageVars, retryVars
<1>7. ASSUME NEW o, NEW f, NEW k, Begin(o, f, k) PROVE ~Working
  BY <1>7 DEF Begin, Working
<1>8. NextPage => ~Working
  BY DEF NextPage, Working
<1>9. Runs \/ Returns => Nearer
  BY <1>1, <1>2, <1>3, <1>4, <1>5 DEF Runs
<1>10. Working => Nearer \/ UNCHANGED <<pc, after, start, eligible, calling>>
  BY <1>4, <1>6, <1>7, <1>8, <1>9 DEF Next, List, RetryFailed
<1>11. QED
  BY <1>9, <1>10 DEF Advances

\* Every page and every retry-failed is a finite number of its own steps, whatever happens
\* to the batch meanwhile: each Query goes on behind the last one, each page behind the
\* last cursor, and RetryMany takes each item out of its list (read, RetryFailed).
THEOREM CallsAreFinite ==
  Spec => /\ [](after \in 0 .. N /\ start \in 0 .. N /\ StagesLeft \in Nat /\ RetriesLeft \in Nat)
          /\ [][Advances]_vars
<1> DEFINE Measured ==
      after \in 0 .. N /\ start \in 0 .. N /\ StagesLeft \in Nat /\ RetriesLeft \in Nat
<1>1. IInv => Measured
  <2> SUFFICES ASSUME IInv PROVE Measured
    OBVIOUS
  <2>1. Cardinality(eligible) \in Nat /\ Cardinality(calling) \in Nat
    BY ReadsAreFinite DEF IInv, RetryInv
  <2>2. StagesLeft \in Nat
    BY DEF StagesLeft, IInv, ControlInv
  <2>3. QED
    BY <2>1, <2>2 DEF RetriesLeft, IInv, PageInv
<1>2. IInv /\ IInv' /\ [Next]_vars => [Advances]_vars
  BY StepAdvances
<1> HIDE DEF Measured
<1>3. Spec => []Measured /\ [][Advances]_vars
  BY <1>1, <1>2, Invariance, PTL DEF Spec
<1>4. QED
  BY <1>3 DEF Measured
=============================================================================
