---------------------------- MODULE PolicyProofs ----------------------------
(* What Policy promises for every width, scale and customer.                *)
EXTENDS Policy, IntegerFacts, WellFoundedInduction, SequenceTheorems, TLAPS

\* A set of positions has a first one.
LEMMA FirstIsLeast ==
  ASSUME NEW S, S \subseteq Nat, S # {}
  PROVE  First(S) \in S /\ \A j \in S : First(S) <= j
<1> DEFINE R == {ss \in Nat \X Nat : ss[1] < ss[2]}
<1>1. IsWellFoundedOn(R, Nat)
  BY NatLessThanWellFounded DEF OpToRel
<1>2. PICK i \in S : \A j \in S : ~(<<j, i>> \in R)
  <2> HIDE DEF R
  <2> QED BY <1>1, WFMin
<1>3. ASSUME NEW j \in S PROVE i <= j
  <2>1. i \in Nat /\ j \in Nat OBVIOUS
  <2>2. j < i => <<j, i>> \in R BY <2>1, Zenon
  <2> QED BY <1>2, <2>1, <2>2
<1> QED BY <1>3 DEF First

\* Arithmetic of the machine is exact where the exact result fits.
LEMMA WrapIsExact ==
  ASSUME NEW x \in IntRange
  PROVE  Wrap(x) = x
<1> DEFINE y == x + Half
           m == 2 * Half
<1>1. Half \in Nat \ {0} BY PolicyAssumption
<1>2. y \in 0 .. m - 1 /\ m \in Nat \ {0} BY <1>1 DEF IntRange
<1>3. y % m = y
  <2> HIDE DEF y, m
  <2> QED BY <1>2
<1> QED BY <1>1, <1>3 DEF Wrap, IntRange

\* ... and within the machine's range in any case.
LEMMA WrapType ==
  ASSUME NEW x \in Int
  PROVE  Wrap(x) \in IntRange
<1> DEFINE m == 2 * Half
           r == (x + Half) % m
<1>1. Half \in Nat \ {0} BY PolicyAssumption
<1>2. m \in Nat \ {0} BY <1>1
<1>3. r \in 0 .. m - 1
  <2> HIDE DEF m
  <2> QED BY <1>1, <1>2
<1> QED BY <1>1, <1>3 DEF Wrap, IntRange

\* Division toward zero yields an integer.
LEMMA QuotType ==
  ASSUME NEW x \in Int, NEW n \in Nat \ {0}
  PROVE  Quot(x, n) \in Int
BY DEF Quot

\* What a band consists of.
LEMMA BandType ==
  \A i \in DOMAIN Bands :
    i \in Nat /\ Bands[i].minScore \in Int /\ Bands[i].share \in 0 .. FullShare
<1> DEFINE Band == [minScore : Int, share : 0 .. FullShare]
<1>1. \A i \in DOMAIN Bands : i \in Nat /\ Bands[i] \in Band
  <2>1. Bands \in Seq(Band) BY PolicyAssumption
  <2> HIDE DEF Band
  <2> QED BY <2>1
<1> QED BY <1>1

\* A score's share of the limit is one of the bands', or none.
LEMMA ShareType ==
  ASSUME NEW c \in Customers
  PROVE  Share(c) \in 0 .. FullShare
<1> DEFINE reached == {i \in DOMAIN Bands : c.score >= Bands[i].minScore}
<1>1. FullShare \in Nat BY PolicyAssumption
<1>2. \A i \in DOMAIN Bands : i \in Nat /\ Bands[i].share \in 0 .. FullShare
  BY BandType
<1>3. ASSUME reached # {} PROVE First(reached) \in DOMAIN Bands
  BY <1>2, <1>3, FirstIsLeast
<1> HIDE DEF reached
<1>4. Share(c) = IF reached = {} THEN 0 ELSE Bands[First(reached)].share
  BY DEF Share, reached
<1> QED BY <1>1, <1>2, <1>3, <1>4

\* What a customer consists of.
LEMMA CustomerType ==
  ASSUME NEW c \in Customers
  PROVE  /\ c.score \in Nat /\ c.late \in Nat
         /\ c.limit \in Nat /\ c.limit \in IntRange
         /\ c.invoice \in Nat /\ c.invoice \in IntRange
         /\ c.spend \in Seq(IntRange)
<1>1. /\ c \in [score : Scores, invoice : Amounts, limit : Amounts, late : Lates, spend : Spends]
      /\ c.score >= 0 /\ c.late >= 0 /\ c.limit >= 0 /\ c.invoice >= 0
  BY DEF Customers, Valid
<1>2. /\ c.score \in IntRange /\ c.late \in IntRange
      /\ c.limit \in IntRange /\ c.invoice \in IntRange
      /\ c.spend \in Seq(IntRange)
  BY <1>1, PolicyAssumption
<1>3. \A v \in IntRange : v >= 0 => v \in Nat
  BY PolicyAssumption DEF IntRange
<1> QED BY <1>1, <1>2, <1>3

\* What the limit leaves after an invoice within it.
LEMMA HeadroomIsExact ==
  ASSUME NEW c \in Customers, ~(c.invoice > c.limit)
  PROVE  Wrap(c.limit - c.invoice) = c.limit - c.invoice
<1>1. c.limit - c.invoice \in IntRange
  BY CustomerType, PolicyAssumption DEF IntRange
<1> QED BY <1>1, WrapIsExact

\* The amount of a customer whose invoice is within the limit is between
\* nothing and what the limit leaves.
LEMMA AmountIsBounded ==
  ASSUME NEW c \in Customers, ~(c.invoice > c.limit)
  PROVE  /\ Amount(c) \in Nat
         /\ Amount(c) <= c.limit - c.invoice
<1> DEFINE byScore == Quot(Wrap(c.limit * Share(c)), FullShare)
<1>1. c.limit * Share(c) \in Int
  <2> DEFINE a == c.limit
             b == Share(c)
  <2>1. a \in Int /\ b \in Int
    BY CustomerType, ShareType, PolicyAssumption
  <2> HIDE DEF a, b
  <2>2. a * b \in Int
    BY <2>1
  <2> QED BY <2>2 DEF a, b
<1>2. Wrap(c.limit * Share(c)) \in Int
  <2> DEFINE product == c.limit * Share(c)
  <2> HIDE DEF product
  <2>1. \A x \in IntRange : x \in Int
    BY PolicyAssumption DEF IntRange
  <2>2. product \in Int
    BY <1>1 DEF product
  <2>3. Wrap(product) \in Int
    BY <2>1, <2>2, WrapType
  <2> QED BY <2>3 DEF product
<1>3. byScore \in Int
  BY <1>2, QuotType, PolicyAssumption
<1>4. c.limit - c.invoice \in Nat BY CustomerType
<1>5. Amount(c) = LET least == IF byScore < c.limit - c.invoice
                               THEN byScore ELSE c.limit - c.invoice
                  IN  IF least > 0 THEN least ELSE 0
  BY HeadroomIsExact DEF Amount
<1> HIDE DEF byScore
<1> QED BY <1>3, <1>4, <1>5

\* Who is approved passed every rule, and who passes every rule is approved.
LEMMA ApprovedPassedAll ==
  ASSUME NEW c
  PROVE  Evaluate(c).decision = "APPROVED" <=>
           /\ ~(c.score < MinScore) /\ ~(c.late > MaxLate) /\ ~(c.invoice > c.limit)
           /\ RecentSpend(c) = Passes
<1>1. Evaluate(c).decision = "APPROVED" <=> Denying(c) = {}
  BY DEF Evaluate
<1>2. Denying(c) = {} <=> \A i \in 1 .. 4 : Rules(c)[i] = Passes
  BY DEF Denying
<1>3. (\A i \in 1 .. 4 : Rules(c)[i] = Passes) <=>
        /\ BelowMinScore(c) = Passes /\ TooManyLate(c) = Passes
        /\ InvoiceAboveLimit(c) = Passes /\ RecentSpend(c) = Passes
  BY DEF Rules
<1> QED BY <1>1, <1>2, <1>3 DEF BelowMinScore, TooManyLate, InvoiceAboveLimit, Passes

\* The result a customer has is the policy's.
ResultInv ==
  /\ customer \in Customers
  /\ result \in {Unevaluated, Evaluate(customer)}

LEMMA ResultInvariant == Spec => []ResultInv
<1>1. Init => ResultInv BY DEF Init, ResultInv
<1>2. ResultInv /\ [Next]_vars => ResultInv'
  BY DEF ResultInv, Next, Evaluates, vars
<1> QED BY <1>1, <1>2, PTL DEF Spec

\* An approval is of somebody every rule passed, for the bands' amount.
LEMMA ApprovalIsEarned ==
  ASSUME ResultInv, result.decision = "APPROVED"
  PROVE  /\ result = Evaluate(customer)
         /\ result.amount = Amount(customer)
         /\ ~(customer.invoice > customer.limit)
<1>1. result = Evaluate(customer)
  <2>1. Unevaluated.decision # "APPROVED" BY DEF Unevaluated
  <2> QED BY <2>1 DEF ResultInv
<1>2. Denying(customer) = {}
  BY <1>1 DEF Evaluate
<1> QED BY <1>1, <1>2, ApprovedPassedAll DEF Evaluate

\* TypeOK: a denial gives the reason of the first rule that denied, an approval
\* an amount within the width (Policy.Evaluate).
THEOREM TypeCorrect == Spec => []TypeOK
<1>1. ASSUME NEW c \in Customers
      PROVE  Evaluate(c) \in [decision : {"APPROVED", "DENIED"}, reason : Reasons, amount : IntRange]
  <2>1. CASE Denying(c) = {}
    <3>1. Evaluate(c) = [decision |-> "APPROVED", reason |-> "eligible", amount |-> Amount(c)]
      BY <2>1 DEF Evaluate
    <3>2. ~(c.invoice > c.limit) BY <3>1, ApprovedPassedAll
    <3>3. Amount(c) \in IntRange
      BY <3>2, AmountIsBounded, CustomerType, PolicyAssumption DEF IntRange
    <3> QED BY <3>1, <3>3 DEF Reasons
  <2>2. CASE Denying(c) # {}
    <3>1. First(Denying(c)) \in Denying(c)
      BY <2>2, FirstIsLeast DEF Denying
    <3>2. \A i \in 1 .. 4 : Rules(c)[i] \in Reasons \cup {Passes}
      <4>1. /\ BelowMinScore(c) \in Reasons \cup {Passes}
            /\ TooManyLate(c) \in Reasons \cup {Passes}
            /\ InvoiceAboveLimit(c) \in Reasons \cup {Passes}
        BY DEF BelowMinScore, TooManyLate, InvoiceAboveLimit, Reasons
      <4>2. RecentSpend(c) \in Reasons \cup {Passes}
        <5>1. c.limit <= 0 \/ c.limit > 0 BY CustomerType
        <5> QED BY <5>1 DEF RecentSpend, Reasons
      <4> QED BY <4>1, <4>2 DEF Rules
    <3>3. Rules(c)[First(Denying(c))] \in Reasons
      BY <3>1, <3>2 DEF Denying
    <3>4. 0 \in IntRange BY PolicyAssumption DEF IntRange
    <3> QED BY <2>2, <3>3, <3>4 DEF Evaluate
  <2> QED BY <2>1, <2>2
<1>2. ResultInv => TypeOK BY <1>1 DEF ResultInv, TypeOK
<1> QED BY <1>2, ResultInvariant, PTL

\* AmountIsAffordable for every width, scale, policy and customer: overflow of
\* the product cannot grant more than is left (scoreBands.amount).
THEOREM AmountsAreAffordable == Spec => []AmountIsAffordable
<1>1. ResultInv => AmountIsAffordable
  <2> SUFFICES ASSUME ResultInv, result.decision = "APPROVED"
               PROVE  0 <= result.amount /\ result.amount <= customer.limit - customer.invoice
    BY DEF AmountIsAffordable
  <2>1. customer \in Customers BY DEF ResultInv
  <2> QED BY <2>1, ApprovalIsEarned, AmountIsBounded
<1> QED BY <1>1, ResultInvariant, PTL

-----------------------------------------------------------------------------
(* A better customer.                                                      *)

\* Whoever reaches a band with a score reaches it with a higher one, so the
\* first band reached does not come later, nor does its share fall.
LEMMA ShareIsMonotone ==
  ASSUME NEW c \in Customers, NEW d \in Customers, c.score <= d.score
  PROVE  Share(c) <= Share(d)
<1> DEFINE Reached(x) == {i \in DOMAIN Bands : x.score >= Bands[i].minScore}
<1>1. \A i \in DOMAIN Bands :
        i \in Nat /\ Bands[i].minScore \in Int /\ Bands[i].share \in 0 .. FullShare
  BY BandType
<1>2. Reached(c) \subseteq Reached(d) BY <1>1, CustomerType
<1>3. \A x : Share(x) = IF Reached(x) = {} THEN 0 ELSE Bands[First(Reached(x))].share
  BY DEF Share
<1>4. Reached(c) \subseteq DOMAIN Bands /\ Reached(d) \subseteq DOMAIN Bands
  OBVIOUS
<1> HIDE DEF Reached
<1>5. CASE Reached(c) = {}
  <2>1. Share(c) = 0 BY <1>3, <1>5
  <2>2. Share(d) \in 0 .. FullShare BY ShareType
  <2> QED BY <2>1, <2>2, PolicyAssumption
<1>6. CASE Reached(c) # {}
  <2> DEFINE i == First(Reached(c))
             j == First(Reached(d))
  <2>1. /\ i \in Reached(c) /\ j \in Reached(d)
        /\ \A k \in Reached(d) : j <= k
    BY <1>1, <1>2, <1>4, <1>6, FirstIsLeast
  <2>2. Share(c) = Bands[i].share /\ Share(d) = Bands[j].share
    BY <1>2, <1>3, <1>6
  <2>3. j <= i /\ i \in DOMAIN Bands /\ j \in DOMAIN Bands
    BY <1>2, <1>4, <2>1
  <2> HIDE DEF i, j
  <2>4. j = i \/ j < i BY <1>1, <2>3
  <2>5. j < i => Bands[j].share >= Bands[i].share BY <2>3, BandsAssumption
  <2> QED BY <1>1, <2>2, <2>3, <2>4, <2>5, PolicyAssumption
<1> QED BY <1>5, <1>6

\* A larger factor makes a larger product.
LEMMA ProductIsMonotone ==
  ASSUME NEW a \in Nat, NEW p \in Nat, NEW q \in Nat, p <= q
  PROVE  a * p <= a * q /\ a * p \in Nat /\ a * q \in Nat
BY Z3

\* The amount a customer has by score, where the product does not overflow.
LEMMA ByScoreIsExact ==
  ASSUME NEW c \in Customers, c.limit * Share(c) \in IntRange
  PROVE  Quot(Wrap(c.limit * Share(c)), FullShare) = (c.limit * Share(c)) \div FullShare
<1>1. c.limit * Share(c) \in Nat
  <2>1. c.limit \in Nat /\ Share(c) \in Nat BY CustomerType, ShareType, PolicyAssumption
  <2> QED BY <2>1, ProductIsMonotone
<1> QED BY <1>1, WrapIsExact DEF Quot

\* A better score and a smaller invoice on the same limit make no smaller amount.
LEMMA AmountIsMonotone ==
  ASSUME NEW c \in Customers, NEW d \in Customers,
         d.limit = c.limit, c.score <= d.score,
         d.invoice <= c.invoice, ~(c.invoice > c.limit),
         d.limit * Share(d) \in IntRange
  PROVE  Amount(c) <= Amount(d)
<1> DEFINE p == c.limit * Share(c)
           q == d.limit * Share(d)
<1>1. /\ c.limit \in Nat /\ c.invoice \in Nat /\ d.invoice \in Nat
      /\ Share(c) \in Nat /\ Share(d) \in Nat /\ Share(c) <= Share(d)
      /\ FullShare \in Nat \ {0}
  BY CustomerType, ShareType, ShareIsMonotone, PolicyAssumption
<1>2. p \in Nat /\ q \in Nat /\ p <= q
  BY <1>1, ProductIsMonotone
<1>3. p \in IntRange
  BY <1>2, PolicyAssumption DEF IntRange
<1>4. ~(d.invoice > d.limit) BY <1>1
<1>5. /\ Quot(Wrap(p), FullShare) = p \div FullShare
      /\ Quot(Wrap(q), FullShare) = q \div FullShare
  BY <1>3, ByScoreIsExact
<1>6. /\ Wrap(c.limit - c.invoice) = c.limit - c.invoice
      /\ Wrap(d.limit - d.invoice) = d.limit - d.invoice
  BY <1>4, HeadroomIsExact
<1>7. /\ p \div FullShare <= q \div FullShare
      /\ p \div FullShare \in Int /\ q \div FullShare \in Int
  BY <1>1, <1>2, DivisionIsMonotone, DivisionBounds
<1> DEFINE bc == p \div FullShare
           bd == q \div FullShare
           hc == c.limit - c.invoice
           hd == d.limit - d.invoice
           lc == IF bc < hc THEN bc ELSE hc
           ld == IF bd < hd THEN bd ELSE hd
<1>8. /\ Amount(c) = IF lc > 0 THEN lc ELSE 0
      /\ Amount(d) = IF ld > 0 THEN ld ELSE 0
  BY <1>5, <1>6 DEF Amount
<1>9. hc <= hd /\ hc \in Int /\ hd \in Int BY <1>1
<1> HIDE DEF bc, bd, hc, hd
<1>10. bc <= bd /\ bc \in Int /\ bd \in Int BY <1>7 DEF bc, bd
<1> QED BY <1>8, <1>9, <1>10

\* BetterNeverHurts for every policy whose bands are ordered (NewPolicy): the
\* better customer passes every rule the other passed, for no smaller amount.
THEOREM BetterIsNeverWorse == Spec => []BetterNeverHurts
<1>1. ResultInv => BetterNeverHurts
  <2> SUFFICES ASSUME ResultInv, result.decision = "APPROVED",
                      NEW s \in Scores, NEW i \in Amounts, NEW l \in Lates,
                      s >= customer.score, i \in 0 .. customer.invoice,
                      l \in 0 .. customer.late,
                      customer.limit *
                        Share(Improved(customer, s, i, l)) \in IntRange
               PROVE  LET better == Improved(customer, s, i, l)
                      IN  /\ Evaluate(better).decision = "APPROVED"
                          /\ Evaluate(better).amount >= result.amount
    BY DEF BetterNeverHurts
  <2> DEFINE better == Improved(customer, s, i, l)
  <2>1. customer \in Customers BY DEF ResultInv
  <2>2. /\ better.score = s /\ better.invoice = i /\ better.late = l
        /\ better.limit = customer.limit /\ better.spend = customer.spend
    <3>1. DOMAIN customer = {"score", "invoice", "limit", "late", "spend"}
      BY <2>1 DEF Customers
    <3> QED BY <3>1 DEF Improved
  <2>3. better \in Customers
    <3>1. better \in [score : Scores, invoice : Amounts, limit : Amounts,
                      late : Lates, spend : Spends]
      BY <2>1 DEF Customers, Improved
    <3>2. Valid(better)
      <4>1. Valid(customer) /\ customer.score \in Nat BY <2>1, CustomerType DEF Customers
      <4>2. s \in Int BY PolicyAssumption DEF IntRange
      <4> QED BY <2>2, <4>1, <4>2 DEF Valid
    <3> QED BY <3>1, <3>2 DEF Customers
  <2> HIDE DEF better
  <2>4. /\ s \in Int /\ i \in Int /\ l \in Int
        /\ customer.score \in Nat /\ customer.late \in Nat
        /\ customer.invoice \in Nat /\ customer.limit \in Nat
    BY <2>1, CustomerType, PolicyAssumption DEF IntRange
  <2>5. RecentSpend(better) = RecentSpend(customer)
    BY <2>2 DEF RecentSpend
  <2>6. /\ ~(customer.score < MinScore) /\ ~(customer.late > MaxLate)
        /\ ~(customer.invoice > customer.limit) /\ RecentSpend(customer) = Passes
    BY ApprovalIsEarned, ApprovedPassedAll
  <2>7. /\ ~(better.score < MinScore) /\ ~(better.late > MaxLate)
        /\ ~(better.invoice > better.limit)
    BY <2>2, <2>4, <2>6, PolicyAssumption
  <2>8. Evaluate(better).decision = "APPROVED"
    BY <2>5, <2>6, <2>7, ApprovedPassedAll
  <2>9. Evaluate(better).amount = Amount(better)
    BY <2>8 DEF Evaluate
  <2>10. Amount(customer) <= Amount(better)
    BY <2>1, <2>2, <2>3, <2>4, <2>6, AmountIsMonotone DEF better
  <2>11. Amount(customer) \in Nat /\ Amount(better) \in Nat
    BY <2>1, <2>3, <2>6, <2>7, AmountIsBounded
  <2> QED BY <2>8, <2>9, <2>10, <2>11, ApprovalIsEarned DEF better
<1> QED BY <1>1, ResultInvariant, PTL
-----------------------------------------------------------------------------
(* The average spend.                                                      *)

\* Numbers that differ by a multiple of m leave the same remainder.
LEMMA RemainderOfSum ==
  ASSUME NEW a \in Int, NEW k \in Int, NEW m \in Nat \ {0}
  PROVE  (a + m * k) % m = a % m
<1> DEFINE r == a % m
           s == (a + m * k) % m
           p == a \div m
           q == (a + m * k) \div m
<1>1. m * k \in Int BY Z3
<1>2. r \in 0 .. m - 1 /\ s \in 0 .. m - 1 /\ p \in Int /\ q \in Int
  BY <1>1
<1>3. a = m * p + r /\ a + m * k = m * q + s
  BY <1>1, Z3
<1> HIDE DEF r, s, p, q
<1>4. s - r = m * (p + k - q)
  BY <1>1, <1>2, <1>3, Z3
<1> DEFINE d == p + k - q
<1>5. d \in Int BY <1>2
<1> HIDE DEF d
<1>6. s - r = m * d BY <1>4 DEF d
<1>7. d >= 1 => m * d >= m BY <1>5, Z3
<1>8. d <= -1 => m * d <= -m BY <1>5, Z3
<1>9. d = 0 => m * d = 0 BY <1>5, Z3
<1>10. d = 0 BY <1>2, <1>5, <1>6, <1>7, <1>8
<1>11. s = r BY <1>2, <1>6, <1>9, <1>10
<1> QED BY <1>11 DEF r, s

\* Overflow on the way does not change what a sum comes to.
LEMMA WrapOfWrap ==
  ASSUME NEW a \in Int, NEW v \in Int
  PROVE  Wrap(Wrap(a) + v) = Wrap(a + v)
<1> DEFINE m == 2 * Half
           x == a + Half
           k == x \div m
           r == x % m
<1>1. Half \in Nat \ {0} BY PolicyAssumption
<1>2. m \in Nat \ {0} BY <1>1
<1>3. x \in Int BY <1>1
<1> HIDE DEF m, x
<1>4. k \in Int /\ r \in Int /\ x = m * k + r /\ m * k \in Int BY <1>2, <1>3, Z3
<1> HIDE DEF k, r
<1>5. ((r + v) + m * k) % m = (r + v) % m
  <2> DEFINE b == r + v
  <2>1. b \in Int BY <1>4
  <2> HIDE DEF b
  <2>2. (b + m * k) % m = b % m BY <1>2, <1>4, <2>1, RemainderOfSum
  <2> QED BY <2>2 DEF b
<1>6. (r + v) + m * k = x + v BY <1>2, <1>3, <1>4
<1>7. (r - Half + v) + Half = r + v /\ (a + v) + Half = x + v
  BY <1>1, <1>4 DEF x
<1>8. (r + v) % m = (x + v) % m BY <1>5, <1>6
<1>9. Wrap(a) = r - Half BY DEF Wrap, r, x, m
<1>10. Wrap(Wrap(a) + v) = ((r + v) % m) - Half /\ Wrap(a + v) = ((x + v) % m) - Half
  BY <1>7, <1>9 DEF Wrap, m
<1> QED BY <1>8, <1>10

\* Adding up months in the machine's arithmetic wraps their exact sum.
LEMMA MachineSum ==
  ASSUME NEW s \in Seq(Int)
  PROVE  FoldSeq(LAMBDA v, sum : Wrap(sum + v), 0, s) = Wrap(SumFunction(s))
<1> DEFINE D == DOMAIN s
           P(it) == it = [t \in SUBSET D |->
                            IF t = {} THEN 0
                            ELSE Wrap(it[t \ {CHOOSE x \in t : TRUE}] + s[CHOOSE x \in t : TRUE])]
           W == CHOOSE it : P(it)
<1>1. FoldSeq(LAMBDA v, sum : Wrap(sum + v), 0, s) = W[D]
  BY Zenon DEF FoldSeq, FoldFunction, FoldFunctionOnSet, MapThenFoldSet
<1>2. IsFiniteSet(D) /\ IntOn(s, D)
  <2>1. D = 1 .. Len(s) /\ Len(s) \in Nat /\ \A i \in D : s[i] \in Int OBVIOUS
  <2> HIDE DEF D
  <2> QED BY <2>1, FS_Interval DEF IntOn
<1>3. PICK exact : IsSum(exact, D, s) /\ exact[D] = SumFunctionOnSet(s, D)
  <2> HIDE DEF D
  <2> QED BY <1>2, SumOfFunction
<1> DEFINE w == [t \in SUBSET D |-> Wrap(exact[t])]
           step(it, t) == IF t = {} THEN 0
                          ELSE Wrap(it[t \ {CHOOSE x \in t : TRUE}] + s[CHOOSE x \in t : TRUE])
<1>4. Wrap(0) = 0
  <2>1. 0 \in IntRange BY PolicyAssumption DEF IntRange
  <2> QED BY <2>1, WrapIsExact
<1>5. ASSUME NEW it, NEW t \in SUBSET D,
             \A x \in t : it[t \ {x}] = Wrap(exact[t \ {x}])
      PROVE  step(it, t) = Wrap(exact[t])
  <2>1. CASE t = {} BY <1>3, <1>4, <2>1 DEF IsSum
  <2>2. CASE t # {}
    <3> DEFINE x == CHOOSE y \in t : TRUE
    <3>1. x \in t BY <2>2
    <3>2. step(it, t) = Wrap(it[t \ {x}] + s[x]) BY <2>2
    <3> HIDE DEF x, step, W, w
    <3>3. exact[t] = exact[t \ {x}] + s[x] /\ exact[t \ {x}] \in Int BY <1>3, <3>1 DEF IsSum
    <3>4. s[x] \in Int BY <1>2, <3>1 DEF IntOn
    <3> QED BY <1>5, <3>1, <3>2, <3>3, <3>4, WrapOfWrap
  <2> QED BY <2>1, <2>2
<1>6. P(w)
  <2>1. \A t \in SUBSET D : step(w, t) = Wrap(exact[t])
    <3> TAKE t \in SUBSET D
    <3>1. \A x \in t : w[t \ {x}] = Wrap(exact[t \ {x}]) OBVIOUS
    <3> HIDE DEF w, step, D
    <3> QED BY <1>5, <3>1
  <2> DEFINE h == [t \in SUBSET D |-> step(w, t)]
  <2>2. w = h BY <2>1
  <2> HIDE DEF w
  <2> QED BY <2>2
<1>7. P(W)
  <2> HIDE DEF P
  <2> QED BY <1>6
<1>8. \A t \in SUBSET D : W[t] = step(W, t)
  <2> DEFINE h == [t \in SUBSET D |-> step(W, t)]
  <2>1. W = h BY <1>7
  <2>2. \A t \in SUBSET D : h[t] = step(W, t) OBVIOUS
  <2> HIDE DEF h, step, W
  <2> QED BY <2>1, <2>2
<1>9. \A t \in SUBSET D : W[t] = Wrap(exact[t])
  <2> HIDE DEF W
  <2>1. AgreeFromBelow(W, w, D)
    <3> SUFFICES ASSUME NEW t \in SUBSET D, \A x \in t : W[t \ {x}] = w[t \ {x}]
                 PROVE  W[t] = w[t]
      BY DEF AgreeFromBelow
    <3>1. \A x \in t : W[t \ {x}] = Wrap(exact[t \ {x}]) OBVIOUS
    <3>2. w[t] = Wrap(exact[t]) OBVIOUS
    <3> HIDE DEF w, step, D
    <3> QED BY <1>5, <1>8, <3>1, <3>2
  <2>2. \A t \in SUBSET D : W[t] = w[t]
    <3> HIDE DEF w, step, D
    <3> QED BY <1>2, <2>1, SameFromBelow
  <2> QED BY <2>2
<1>10. W[D] = Wrap(exact[D]) BY <1>9
<1> HIDE DEF W
<1>11. W[D] = Wrap(SumFunction(s)) BY <1>3, <1>10 DEF SumFunction
<1> QED BY <1>1, <1>11, Zenon
\* The months that count, of a history without a negative amount.
LEMMA RecentType ==
  ASSUME NEW c \in Customers
  PROVE  /\ Recent(c.spend) \in Seq(Int)
         /\ \A i \in DOMAIN Recent(c.spend) : Recent(c.spend)[i] \in Nat
         /\ Len(Recent(c.spend)) > 0 => c.spend # <<>>
<1> DEFINE s == c.spend
           m == Len(s) - (IF Len(s) < Months THEN Len(s) ELSE Months) + 1
<1>1. s \in Seq(IntRange) BY CustomerType
<1>2. \A i \in DOMAIN s : s[i] >= 0 BY DEF Customers, Valid
<1>3. Months \in Nat \ {0} /\ Half \in Nat BY PolicyAssumption
<1> HIDE DEF s
<1>4. Len(s) \in Nat /\ DOMAIN s = 1 .. Len(s) BY <1>1
<1>5. m \in 1 .. Len(s) + 1
  <2> DEFINE n == Len(s)
  <2>1. n \in Nat /\ m = n - (IF n < Months THEN n ELSE Months) + 1 BY <1>4
  <2> HIDE DEF n, m
  <2>2. m \in 1 .. n + 1
    <3>1. CASE n < Months BY <1>3, <2>1, <3>1
    <3>2. CASE ~ (n < Months) BY <1>3, <2>1, <3>2
    <3> QED BY <3>1, <3>2
  <2> QED BY <2>2 DEF n
<1>6. \A i \in DOMAIN s : s[i] \in Nat
  <2>1. \A i \in DOMAIN s : s[i] \in IntRange BY <1>1
  <2> QED BY <1>2, <1>3, <2>1 DEF IntRange
<1> HIDE DEF m
<1>7. \A i \in m .. Len(s) : s[i] \in Nat BY <1>4, <1>5, <1>6
<1>8. SubSeq(s, m, Len(s)) \in Seq(Nat)
  BY <1>4, <1>5, <1>7, SubSeqProperties
<1>9. Recent(s) = SubSeq(s, m, Len(s)) BY DEF Recent, m
<1>10. ASSUME s = <<>> PROVE Len(Recent(s)) = 0
  <2>1. Len(s) = 0 BY <1>10
  <2>2. m = 1 BY <1>3, <2>1 DEF m
  <2>3. SubSeq(s, m, Len(s)) = <<>>
    BY <2>1, <2>2, SubSeqEmpty
  <2> QED BY <1>9, <2>3
<1>11. \A t \in Seq(Nat) : t \in Seq(Int) /\ \A i \in DOMAIN t : t[i] \in Nat
  OBVIOUS
<1>12. Recent(s) \in Seq(Int) /\ \A i \in DOMAIN Recent(s) : Recent(s)[i] \in Nat
  BY <1>8, <1>9, <1>11
<1>13. Len(Recent(s)) > 0 => s # <<>>
  <2>1. ~ (0 > 0) OBVIOUS
  <2> QED BY <1>10, <2>1
<1> QED BY <1>12, <1>13 DEF s

\* Where the sum does not overflow, the average is the exact one, rounded down.
LEMMA AverageIsExact ==
  ASSUME NEW c \in Customers, Len(Recent(c.spend)) > 0,
         SumFunction(Recent(c.spend)) \in IntRange
  PROVE  /\ SumFunction(Recent(c.spend)) \in Nat
         /\ Average(Recent(c.spend)) =
              SumFunction(Recent(c.spend)) \div Len(Recent(c.spend))
<1> DEFINE s == Recent(c.spend)
<1>1. s \in Seq(Int) /\ \A i \in DOMAIN s : s[i] \in Nat BY RecentType
<1> HIDE DEF s
<1>2. SumFunction(s) \in Nat
  <2>1. IsFiniteSet(DOMAIN s)
    <3>1. DOMAIN s = 1 .. Len(s) /\ Len(s) \in Nat BY <1>1
    <3> QED BY <3>1, FS_Interval
  <2> QED BY <1>1, <2>1, SumIsNat DEF SumFunction
<1>3. Wrap(SumFunction(s)) = SumFunction(s) BY WrapIsExact DEF s
<1>4. FoldSeq(LAMBDA v, sum : Wrap(sum + v), 0, s) = SumFunction(s)
  BY <1>1, <1>3, MachineSum, Zenon
<1>5. Average(s) = Quot(SumFunction(s), Len(s)) BY <1>4, Zenon DEF Average
<1> QED BY <1>2, <1>5 DEF Quot, s

\* What the rule compares, where nothing overflows: the rounded average, at the
\* scale of the shares, with the share of the limit.
LEMMA SpendRuleIsExact ==
  ASSUME NEW c \in Customers, Len(Recent(c.spend)) > 0,
         SumFunction(Recent(c.spend)) \in IntRange, c.limit * MaxShare \in IntRange,
         (SumFunction(Recent(c.spend)) \div Len(Recent(c.spend))) * FullShare \in IntRange
  PROVE  LET average == SumFunction(Recent(c.spend)) \div Len(Recent(c.spend))
         IN  /\ RecentSpend(c) = "recent_spend_above_share" =>
                  average * FullShare > c.limit * MaxShare
             /\ RecentSpend(c) = Passes => ~ (average * FullShare > c.limit * MaxShare)
<1> DEFINE average == SumFunction(Recent(c.spend)) \div Len(Recent(c.spend))
<1>1. Average(Recent(c.spend)) = average BY AverageIsExact
<1>2. Wrap(average * FullShare) = average * FullShare
  <2> DEFINE x == average * FullShare
  <2>1. x \in IntRange OBVIOUS
  <2> HIDE DEF x
  <2>2. Wrap(x) = x BY <2>1, WrapIsExact
  <2> QED BY <2>2 DEF x
<1>3. Wrap(c.limit * MaxShare) = c.limit * MaxShare
  <2> DEFINE x == c.limit * MaxShare
  <2>1. x \in IntRange OBVIOUS
  <2> HIDE DEF x
  <2>2. Wrap(x) = x BY <2>1, WrapIsExact
  <2> QED BY <2>2 DEF x
<1>4. c.spend # <<>> /\ c.limit \in Nat BY RecentType, CustomerType
<1> HIDE DEF average
<1>5. CASE c.limit <= 0
  BY <1>4, <1>5, Zenon DEF RecentSpend, Passes
<1>6. CASE c.limit > 0
  <2>1. ~ (c.limit <= 0) BY <1>4, <1>6
  <2>2. RecentSpend(c) = IF average * FullShare > c.limit * MaxShare
                         THEN "recent_spend_above_share" ELSE Passes
    BY <1>1, <1>2, <1>3, <1>4, <1>6, <2>1 DEF RecentSpend
  <2> QED BY <2>2 DEF average, Passes
<1>7. c.limit <= 0 \/ c.limit > 0 BY <1>4
<1> QED BY <1>5, <1>6, <1>7

\* A denial for its spend is by the spend rule: no other rule gives the reason.
LEMMA SpendDenialIsTheRules ==
  ASSUME ResultInv, result.reason = "recent_spend_above_share"
  PROVE  RecentSpend(customer) = "recent_spend_above_share"
<1>1. result = Evaluate(customer)
  <2>1. Unevaluated.reason # "recent_spend_above_share" BY DEF Unevaluated
  <2> QED BY <2>1 DEF ResultInv
<1>2. Denying(customer) # {} BY <1>1 DEF Evaluate
<1> DEFINE i == First(Denying(customer))
<1>3. i \in 1 .. 4 BY <1>2, FirstIsLeast DEF Denying
<1>4. Rules(customer)[i] = "recent_spend_above_share" BY <1>1, <1>2 DEF Evaluate
<1> HIDE DEF i
<1>5. i = 4
  <2> DEFINE r == Rules(customer)
  <2>1. i \in {1, 2, 3, 4} BY <1>3
  <2>2. /\ r[1] \in {Passes, "score_below"} /\ r[2] \in {Passes, "late_payments_above"}
        /\ r[3] \in {Passes, "invoice_exceeds_credit_limit"}
    BY DEF Rules, BelowMinScore, TooManyLate, InvoiceAboveLimit
  <2>3. r[1] # "recent_spend_above_share" /\ r[2] # "recent_spend_above_share"
        /\ r[3] # "recent_spend_above_share"
    BY <2>2 DEF Passes
  <2> HIDE DEF r
  <2>4. r[i] = "recent_spend_above_share" BY <1>4 DEF r
  <2> QED BY <2>1, <2>3, <2>4
<1> QED BY <1>4, <1>5 DEF Rules

\* The rounded average is below the exact one by less than a cent.
LEMMA WithinACent ==
  ASSUME NEW total \in Nat, NEW n \in Nat \ {0}, NEW scale \in Nat \ {0}, NEW allowed \in Int
  PROVE  /\ (total \div n) * scale > allowed => total * scale > n * allowed
         /\ ~ ((total \div n) * scale > allowed) => total * scale < n * (allowed + scale)
<1> DEFINE q == total \div n
<1>1. q \in Int /\ n * q <= total /\ total < n * q + n BY DivisionBounds
<1> HIDE DEF q
<1>2. (n * q) * scale <= total * scale /\ total * scale < (n * q + n) * scale
  BY <1>1, Z3
<1>3. (n * q) * scale = n * (q * scale) /\ (n * q + n) * scale = n * (q * scale + scale)
  BY <1>1, Z3
<1> DEFINE p == q * scale
<1>4. p \in Int /\ n * p <= total * scale /\ total * scale < n * (p + scale)
  BY <1>1, <1>2, <1>3, Z3
<1>5. total * scale \in Int BY Z3
<1> HIDE DEF p
<1>6. p > allowed => n * p > n * allowed BY <1>4, Z3
<1>7. p <= allowed => n * (p + scale) <= n * (allowed + scale) BY <1>4, Z3
<1>8. n * p \in Int /\ n * allowed \in Int /\ n * (p + scale) \in Int /\ n * (allowed + scale) \in Int
  BY <1>4, Z3
<1>9. p > allowed => total * scale > n * allowed
  <2> DEFINE x == n * p
             y == n * allowed
             z == total * scale
  <2>1. x \in Int /\ y \in Int /\ z \in Int /\ x <= z /\ (p > allowed => x > y)
    BY <1>4, <1>5, <1>6, <1>8
  <2> HIDE DEF x, y, z
  <2>2. p > allowed => z > y BY <2>1
  <2> QED BY <2>2 DEF y, z
<1>10. ~ (p > allowed) => total * scale < n * (allowed + scale)
  <2> DEFINE x == n * (p + scale)
             y == n * (allowed + scale)
             z == total * scale
  <2>1. x \in Int /\ y \in Int /\ z \in Int /\ z < x /\ (p <= allowed => x <= y)
    BY <1>4, <1>5, <1>7, <1>8
  <2> HIDE DEF x, y, z
  <2>2. ~ (p > allowed) => z < y BY <1>4, <2>1
  <2> QED BY <2>2 DEF y, z
<1> QED BY <1>9, <1>10 DEF p, q

\* SpendWithinACent for every width, scale, window and history: where nothing
\* overflows, the spend rule is off by less than a cent of the average, and never
\* against the customer (RecentSpend).
THEOREM SpendIsWithinACent == Spec => []SpendWithinACent
<1>1. ResultInv => SpendWithinACent
  <2> DEFINE months  == Recent(customer.spend)
             n       == Len(months)
             total   == SumFunction(months)
             allowed == customer.limit * MaxShare
  <2> SUFFICES ASSUME ResultInv, n > 0, total \in IntRange, allowed \in IntRange,
                      (total \div n) * FullShare \in IntRange
               PROVE  /\ result.reason = "recent_spend_above_share" =>
                           total * FullShare > n * allowed
                      /\ result.decision = "APPROVED" =>
                           total * FullShare < n * (allowed + FullShare)
    BY DEF SpendWithinACent
  <2>1. customer \in Customers BY DEF ResultInv
  <2>2. total \in Nat /\ n \in Nat \ {0}
    <3>1. total \in Nat BY <2>1, AverageIsExact
    <3>2. months \in Seq(Int) BY <2>1, RecentType
    <3> HIDE DEF months
    <3> QED BY <3>1, <3>2
  <2>3. FullShare \in Nat \ {0} /\ allowed \in Int BY PolicyAssumption DEF IntRange
  <2>4. /\ RecentSpend(customer) = "recent_spend_above_share" =>
             (total \div n) * FullShare > allowed
        /\ RecentSpend(customer) = Passes => ~ ((total \div n) * FullShare > allowed)
    BY <2>1, SpendRuleIsExact
  <2>5. result.reason = "recent_spend_above_share" =>
          RecentSpend(customer) = "recent_spend_above_share"
    BY SpendDenialIsTheRules
  <2>6. result.decision = "APPROVED" => RecentSpend(customer) = Passes
    BY ApprovalIsEarned, ApprovedPassedAll
  <2> HIDE DEF total, n, allowed
  <2>7. /\ (total \div n) * FullShare > allowed => total * FullShare > n * allowed
        /\ ~ ((total \div n) * FullShare > allowed) =>
             total * FullShare < n * (allowed + FullShare)
    BY <2>2, <2>3, WithinACent
  <2> QED BY <2>4, <2>5, <2>6, <2>7
<1> QED BY <1>1, ResultInvariant, PTL
=============================================================================
